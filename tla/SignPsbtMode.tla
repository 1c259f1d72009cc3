---------------------------- MODULE SignPsbtMode ----------------------------
(***************************************************************************)
(* The way to the signature in mode [1] of the offline signer: parse the   *)
(* PSBT, check its leaves, review its outputs and the fee, then ask for    *)
(* the key.  A transaction output is a record with the attributes of the   *)
(* class TxOut; reading an attribute an object lacks raises, and nothing   *)
(* on the way up catches it.                                               *)
(***************************************************************************)
EXTENDS Integers, Sequences

CONSTANTS
  Values,       \* amounts
  MaxOutputs    \* outputs of a transaction

VARIABLES
  stage,        \* "parsed" | "review" | "key" | "aborted" | "crashed"
  inTotal,      \* sum of the inputs
  outs,         \* the outputs of the parsed transaction
  leafOk        \* every leaf of the PSBT passed verify_leaf

vars == <<stage, inTotal, outs, leafOk>>

TxOut(value) == [value |-> value, spk |-> "spk"]

OutTotal == LET total[i \in 0..Len(outs)] ==
                  IF i = 0 THEN 0 ELSE total[i - 1] + outs[i].value
            IN total[Len(outs)]

Init ==
  /\ stage = "parsed"
  /\ inTotal \in Values
  /\ \E n \in 1..MaxOutputs : \E v \in [1..n -> Values] :
       outs = [i \in 1..n |-> TxOut(v[i])]
  /\ leafOk \in BOOLEAN

CheckLeaves ==
  /\ stage = "parsed"
  /\ stage' = IF leafOk THEN "review" ELSE "aborted"
  /\ UNCHANGED <<inTotal, outs, leafOk>>

\* The review prints the script of each output, read as o.script_pubkey.
ReviewOutputs ==
  /\ stage = "review"
  /\ stage' = IF \E i \in DOMAIN outs : "script_pubkey" \notin DOMAIN outs[i]
              THEN "crashed"
              ELSE IF inTotal < OutTotal THEN "aborted" ELSE "key"
  /\ UNCHANGED <<inTotal, outs, leafOk>>

Next == CheckLeaves \/ ReviewOutputs

Spec == Init /\ [][Next]_vars

-----------------------------------------------------------------------------
\* A well-formed PSBT gets to the key prompt of mode [1] or is refused there
\* with a reason; the review never ends the program.
ReviewCompletes == stage # "crashed"

=============================================================================
