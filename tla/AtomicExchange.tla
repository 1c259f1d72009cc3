--------------------------- MODULE AtomicExchange ---------------------------
(***************************************************************************)
(* What the swap promises, without chains, signatures or relay: a          *)
(* two-party exchange with a commit point.                                 *)
(*                                                                         *)
(* The holder and the follower each lock one leg.  The holder commits the  *)
(* exchange by claiming the follower's leg, which it may do only while     *)
(* both legs are locked.  After the commit the only step left is the       *)
(* follower's claim of the holder's leg, and it does happen; before the    *)
(* commit a leg can only go back to the party that locked it.              *)
(***************************************************************************)

VARIABLE leg      \* the state of the leg each role funds

Role     == {"holder", "follower"}
LegState == {"absent", "locked", "claimed", "refunded"}

Init == leg = [r \in Role |-> "absent"]

Committed == leg["follower"] = "claimed"

\* A role locks its leg; the follower only against a leg already locked.
Lock(r) ==
  /\ leg[r] = "absent"
  /\ r = "follower" => leg["holder"] = "locked"
  /\ leg' = [leg EXCEPT ![r] = "locked"]

\* Until the commit a leg can go back to the party that locked it.
Withdraw(r) ==
  /\ leg[r] = "locked"
  /\ ~Committed
  /\ leg' = [leg EXCEPT ![r] = "refunded"]

Commit ==
  /\ leg = [r \in Role |-> "locked"]
  /\ leg' = [leg EXCEPT !["follower"] = "claimed"]

Complete ==
  /\ Committed
  /\ leg["holder"] = "locked"
  /\ leg' = [leg EXCEPT !["holder"] = "claimed"]

Next == Commit \/ Complete \/ \E r \in Role : Lock(r) \/ Withdraw(r)

SafeSpec == Init /\ [][Next]_leg
Spec     == SafeSpec /\ WF_leg(Complete)

=============================================================================
