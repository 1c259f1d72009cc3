---------------------------- MODULE MCLeafSpend -----------------------------
(***************************************************************************)
(* Timeouts on both sides of every boundary: the opcodes for 0 to 16, the  *)
(* sign byte at each width, the lock time threshold, the largest number    *)
(* of 31 bits; and the height whose bytes are CLTV DROP <32 bytes>, with   *)
(* a key in which the pattern goes on.                                     *)
(***************************************************************************)
EXTENDS LeafSpend

PlainKey == [i \in 1..KeyLen |-> 7]
TrapKey  == [PlainKey EXCEPT ![30] = OP_CHECKSIG]
Other    == [i \in 1..KeyLen |-> OP_EQUALVERIFY]

TrapHeight == 2127281

Timeouts ==
  {0, 1, 16, 17, 127, 128, 255, 256, 32767, 32768, 65535, 65536, 850000,
   TrapHeight, 8388607, 8388608, Threshold - 1, Threshold, 2147483646}

L(kind, timeout, key, width) ==
  [kind |-> kind, timeout |-> timeout, key |-> key, other |-> Other,
   width |-> width]

MCLeaves ==
  {L("refund", n, k, 1) : n \in Timeouts, k \in {PlainKey, TrapKey}}
    \cup {L(kind, 850000, PlainKey, 1) :
            kind \in {"claim", "repay", "lender_claim", "lender_hashlock",
                     "unknown"}}
    \cup {L("wide_hashlock", 850000, PlainKey, w) : w \in {1, 2, 4}}
    \cup {L(kind, n, PlainKey, 1) :
            kind \in {"lender_timelocked", "safety_refund"},
            n \in {1, 128, Threshold}}

\* The last one is what the signer reads where the pattern stands too early.
MCKeys == {PlainKey, TrapKey,
           <<OP_CHECKLOCKTIMEVERIFY, OP_DROP, KeyLen>> \o SubSeq(TrapKey, 1, 29)}

=============================================================================
