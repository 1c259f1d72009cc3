---------------------------- MODULE MCBroadcast -----------------------------
(***************************************************************************)
(* The endpoints of two networks: Bitcoin Cash has Blockchair and an       *)
(* explorer, Dogecoin Blockchair alone.                                    *)
(***************************************************************************)
EXTENDS Broadcast

CONSTANTS blockchair, explorer, own

MCConfigured ==
  [n \in Nets |-> IF n = "bch" THEN <<blockchair, explorer>> ELSE <<blockchair>>]

=============================================================================
