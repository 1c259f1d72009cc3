----------------------------- MODULE MCSafeSwap -----------------------------
(***************************************************************************)
(* A small swap: rates that give two different claims, blocks of two       *)
(* chains one apart, a follower one block late.  The gap between the       *)
(* timeouts is the smallest one SafeSetup allows.                          *)
(***************************************************************************)
EXTENDS SafeSwap

MCHolderTimeout == FollowerTimeout + 2 * Delay + MaxDrift + 1
=============================================================================
