----------------------------- MODULE LeafSpend ------------------------------
(***************************************************************************)
(* One leaf of a contract from its script to the chain: a builder writes   *)
(* the script, a PSBT that spends it is written by the signer's own        *)
(* builders or by another wallet, the signer's two parsers read it, the    *)
(* script is analysed, signed, and the transaction sent at some height.    *)
(*                                                                         *)
(* A PSBT is a record of its entries.  An output is known only as "true",  *)
(* "wrong" (another amount) or "missing"; the contract's is that of input  *)
(* 1, any other input is somebody else's.  A signature is the message it   *)
(* signs, with the key.  What verify_leaf answers is TapTree's result: it  *)
(* accepts the contract's script, as a version 0xC0 leaf.                  *)
(***************************************************************************)
EXTENDS ScriptCodec

CONSTANTS
  Leaves,       \* the leaves contracts have: kind, timeout, key, other, width
  Keys,         \* the private keys given, by their public keys
  BlockTimes,   \* the chain's clock, in seconds since 1970
  BlockHeights  \*   and heights, besides those around the leaf's timeout

MaxTimeout  == 2147483647
Kinds       == {"claim", "refund", "repay", "lender_claim", "lender_hashlock",
                "lender_timelocked", "safety_refund", "wide_hashlock", "unknown"}

\* The lengths of the pushes of a wide_hashlock leaf take width bytes.
ASSUME LeafAssumption ==
  /\ \A l \in Leaves :
       /\ l.kind \in Kinds /\ l.timeout \in 0..MaxTimeout /\ l.width \in {1, 2, 4}
       /\ l.key \in Seq(Byte) /\ Len(l.key) = KeyLen
       /\ l.other \in Seq(Byte) /\ Len(l.other) = KeyLen
  /\ <<>> \notin Keys

Threshold   == 500000000   \* from here on a lock time is a time
LeafVersion == 192

VARIABLES
  pc,        \* "write" | "read" | "review" | "sign" | "send" | "over"
  leaf,      \* the leaf as agreed
  embit,     \* the signer has its PSBT library, embit
  foreign,   \* the PSBT is another wallet's
  file,      \* the PSBT
  inputs,    \* the signer's inputs, parsed from it
  info,      \* what analyze_script says
  myKey,     \* the private key the signer is given then, as a public key,
  preimage,  \*   and 32 bytes as the hashlock's preimage, right or wrong ones
  witness,   \* what sign_and_finalize puts into input 1
  sentAt,    \* the height and time at which the chain is asked
  accepted   \* its answer

given  == <<leaf, embit, foreign>>
person == <<myKey, preimage>>
vars   == <<pc, given, file, inputs, info, person, witness, sentAt, accepted>>

-----------------------------------------------------------------------------
(* The leaf.                                                               *)

Script ==
  CASE leaf.kind = "claim"             -> ClaimScript(leaf.key)
    [] leaf.kind = "refund"            -> RefundScript(leaf.timeout, leaf.key)
    [] leaf.kind = "repay"             -> RepayScript(leaf.key)
    [] leaf.kind = "lender_claim"      -> LenderClaimScript(leaf.other, leaf.key)
    [] leaf.kind = "lender_hashlock"   -> LenderHashlockScript(leaf.other, leaf.key)
    [] leaf.kind = "lender_timelocked" -> LenderTimelockedScript(leaf.timeout, leaf.key)
    [] leaf.kind = "safety_refund"     -> SafetyRefundScript(leaf.timeout, leaf.key)
    [] leaf.kind = "wide_hashlock"     -> WideHashlockScript(leaf.other, leaf.key, leaf.width)
    [] leaf.kind = "unknown"           -> <<OP_1>>

Timelocked == leaf.kind \in {"refund", "lender_timelocked", "safety_refund"}

TypeOfLeaf ==
  IF leaf.kind \in {"claim", "repay"} THEN "v2_claim"
  ELSE IF leaf.kind = "lender_claim" THEN "claim"
  ELSE IF leaf.kind \in {"lender_hashlock", "wide_hashlock"} THEN "hashlock"
  ELSE IF Timelocked THEN "timelocked" ELSE "unknown"

NoFile    == [whole |-> FALSE, version |-> 0, locktime |-> 0, ins |-> <<>>]
NoInfo    == Info("unknown", <<>>, <<>>, 0)
NoWitness == [script |-> <<>>, header |-> 0, key |-> <<>>, signs |-> {}]

Init ==
  /\ pc = "write" /\ leaf \in Leaves
  /\ embit \in BOOLEAN
  /\ foreign \in {TRUE, leaf.kind \notin {"claim", "refund"}}
  /\ file = NoFile /\ inputs = <<>> /\ info = NoInfo
  /\ myKey = <<>> /\ preimage = "none" /\ witness = NoWitness
  /\ sentAt = [height |-> 0, time |-> 0] /\ accepted = FALSE

-----------------------------------------------------------------------------
(* The message.                                                            *)

\* Mutant: with the output of the input that is signed only.
SighashOwn(locktime, outputs, script, version) ==
  [locktime |-> locktime, outputs |-> <<outputs[1]>>,
   script |-> script, version |-> version]

\* sighash_script_path: with the outputs of all inputs, a missing one as
\* nothing of value 0.
Sighash(locktime, outputs, script, version) ==
  [locktime |-> locktime, outputs |-> outputs,
   script |-> script, version |-> version]

TrueOutputs == [i \in 1..Len(file.ins) |-> "true"]

\* What a signature has to sign on chain.
ChainMessage ==
  [locktime |-> file.locktime, outputs |-> TrueOutputs,
   script |-> Script, version |-> LeafVersion]

-----------------------------------------------------------------------------
(* Writing.                                                                *)

\* One input map: witness_utxo, the previous transaction, TAP_LEAF_SCRIPT as
\* header byte and value, TAP_SCRIPT_SIG.
Entry(utxo, prev, leaves, sigs) ==
  [utxo |-> utxo, prev |-> prev, leaves |-> leaves, sigs |-> sigs]

Cosignature(key, message) == [key |-> key, message |-> message]

\* Mutant: the version byte is left out.
LeafValueBare(script, version) == script

LeafValue(script, version) == script \o <<version>>

\* build_psbt_bytes, of the contract's input.
WritePsbt(locktime, sigs) ==
  [whole |-> TRUE, version |-> 0, locktime |-> locktime,
   ins |-> <<Entry("true", FALSE,
               <<[header |-> LeafVersion, value |-> LeafValue(Script, LeafVersion)]>>,
               sigs)>>]

Own(kind) == pc = "write" /\ ~foreign /\ leaf.kind = kind

\* Without a timeout, and with a timeout of 0, there is no PSBT.
BuildRefundPsbt ==
  /\ Own("refund")
  /\ IF leaf.timeout = 0 THEN pc' = "over" /\ UNCHANGED file
     ELSE pc' = "read" /\ file' = WritePsbt(leaf.timeout, {})
  /\ UNCHANGED <<given, inputs, info, person, witness, sentAt, accepted>>

\* build_v2_claim_psbt: the signature is completed before the PSBT is built.
BuildClaimPsbt ==
  /\ Own("claim")
  /\ file' = WritePsbt(0, {Cosignature(leaf.key,
                Sighash(0, <<"true">>, Script, LeafVersion))})
  /\ pc' = "read"
  /\ UNCHANGED <<given, inputs, info, person, witness, sentAt, accepted>>

\* The ways in which another wallet writes the leaf: as BIP-371 says, without
\* the version byte, or with another version in either place.
LeafEntries ==
  {[header |-> LeafVersion, value |-> Script \o <<LeafVersion>>],
   [header |-> LeafVersion, value |-> Script],
   [header |-> LeafVersion, value |-> Script \o <<194>>],
   [header |-> 194, value |-> Script \o <<LeafVersion>>]}

\* A PSBT of either version, whole or cut short, with or without a second
\* input.  The signatures in it are for the transaction as the chain sees it,
\* or for something else.
ForeignPsbt(version, whole, locktime, l, utxos, prev, cosigned) ==
  /\ pc = "write" /\ foreign
  /\ LET seen == IF cosigned THEN [i \in 1..Len(utxos) |-> "true"] ELSE <<>>
         sig  == {Cosignature(k, [locktime |-> locktime, outputs |-> seen,
                    script |-> Script, version |-> LeafVersion]) :
                   k \in {leaf.key, leaf.other}}
     IN  file' = [whole |-> whole, version |-> version, locktime |-> locktime,
                  ins |-> [i \in 1..Len(utxos) |->
                             IF i = 1 THEN Entry(utxos[1], FALSE, <<l>>, sig)
                             ELSE Entry(utxos[i], prev, <<>>, {})]]
  /\ pc' = "read"
  /\ UNCHANGED <<given, inputs, info, person, witness, sentAt, accepted>>

-----------------------------------------------------------------------------
(* Reading.                                                                *)

\* The version is the header's; the last byte goes if it says the same.
MinimalLeaf(l) ==
  [header |-> l.header, version |-> l.header,
   script |-> IF Last(l.value) = l.header THEN Front(l.value) ELSE l.value]

\* The version is the value's last byte.
EmbitLeaf(l) ==
  [header |-> l.header, version |-> 2 * (Last(l.value) \div 2),
   script |-> IF Len(l.value) > 1 THEN Front(l.value) ELSE l.value]

\* _parse_psbt_minimal knows witness_utxo only.
MinimalInput(e) ==
  [output |-> e.utxo, sigs |-> e.sigs,
   leaves |-> [k \in 1..Len(e.leaves) |-> MinimalLeaf(e.leaves[k])]]

\* _parse_psbt_via_embit takes the output from the previous transaction if
\* it has to.
EmbitInput(e) ==
  [output |-> IF e.utxo = "missing" /\ e.prev THEN "true" ELSE e.utxo,
   sigs |-> e.sigs,
   leaves |-> [k \in 1..Len(e.leaves) |-> EmbitLeaf(e.leaves[k])]]

ParseMinimal(f) == [i \in 1..Len(f.ins) |-> MinimalInput(f.ins[i])]
ParseViaEmbit(f) == [i \in 1..Len(f.ins) |-> EmbitInput(f.ins[i])]

\* Version 2 has no global transaction, without which the first parser fails;
\* of a file cut short both fail.
MinimalReads(f) == f.whole /\ f.version = 0

ParsePsbt ==
  /\ pc = "read"
  /\ IF MinimalReads(file)
     THEN pc' = "review" /\ inputs' = ParseMinimal(file)
     ELSE IF embit /\ file.whole
     THEN pc' = "review" /\ inputs' = ParseViaEmbit(file)
     ELSE pc' = "over" /\ UNCHANGED inputs
  /\ UNCHANGED <<given, file, info, person, witness, sentAt, accepted>>

-----------------------------------------------------------------------------
(* Signing: sign_and_finalize, of input 1 and its leaf.                    *)

Read == inputs[1].leaves[1]

VerifyLeaf(in) ==
  /\ in.output # "missing"
  /\ in.leaves[1].script = Script /\ in.leaves[1].version = LeafVersion

\* A leaf that does not verify, or is of no known type, is passed over: with
\* no other one nothing is signed.
Review ==
  /\ pc = "review"
  /\ info' = AnalyzeScript(Read.script)
  /\ pc' = IF VerifyLeaf(inputs[1]) /\ info'.type # "unknown" THEN "sign" ELSE "over"
  /\ UNCHANGED <<given, file, inputs, person, witness, sentAt, accepted>>

Message == Sighash(file.locktime, [i \in 1..Len(inputs) |-> inputs[i].output],
                   Read.script, Read.version)

\* The signatures of k for this leaf that came with the PSBT.
Given(k) == {s.message : s \in {c \in inputs[1].sigs : c.key = k}}

\* The messages of the signatures the leaf gets, none if the call ends: a
\* claim has its signature already, a leaf of two keys that of the first, and
\* neither is verified.  Nor is the hash of the preimage.
Signatures(k, p) ==
  IF info.type = "v2_claim" THEN Given(info.key)
  ELSE IF \/ k # info.key
          \/ info.type = "claim" /\ Given(info.cosigner) = {}
          \/ info.type = "hashlock" /\ p = "none"
       THEN {}
  ELSE IF info.type = "claim" THEN {Message} \cup Given(info.cosigner)
  ELSE {Message}

Sign(k, p) ==
  /\ pc = "sign" /\ myKey' = k /\ preimage' = p
  /\ IF Signatures(k, p) = {} THEN pc' = "over" /\ UNCHANGED witness
     ELSE /\ witness' = [script |-> Read.script, header |-> Read.header,
                         key |-> info.key, signs |-> Signatures(k, p)]
          /\ pc' = "send"
  /\ UNCHANGED <<given, file, inputs, info, sentAt, accepted>>

-----------------------------------------------------------------------------
(* The chain.                                                              *)

\* BIP-341 and BIP-342, for the leaf the header and the script name.
WitnessIsValid ==
  /\ witness.script = Script /\ witness.header = LeafVersion
  /\ witness.key = leaf.key /\ witness.signs = {ChainMessage}
  /\ TypeOfLeaf = "hashlock" => preimage = "right"

\* BIP-65.  The inputs have sequence 0xFFFFFFFE.
LockTimePasses ==
  LET n == StackNumber(Script)
  IN  n \in 0..file.locktime /\ (n < Threshold <=> file.locktime < Threshold)

IsFinal(at) ==
  IF file.locktime < Threshold THEN file.locktime < at.height
                               ELSE file.locktime < at.time

Broadcast(at) ==
  /\ pc = "send" /\ sentAt' = at /\ pc' = "over"
  /\ accepted' = /\ WitnessIsValid /\ IsFinal(at)
                 /\ Timelocked => LockTimePasses
  /\ UNCHANGED <<given, file, inputs, info, person, witness>>

Around == {leaf.timeout - 1, leaf.timeout, leaf.timeout + 1}

Moments ==
  [height : BlockHeights \cup (Around \cap 0..(Threshold - 1)),
   time : BlockTimes \cup {t \in Around : t >= Threshold}]

Outputs   == {"true", "wrong", "missing"}
Preimages == {"none", "right", "wrong"}

Next ==
  \/ BuildRefundPsbt \/ BuildClaimPsbt \/ ParsePsbt \/ Review
  \/ pc = "write" /\ foreign /\ \E version \in {0, 2}, whole, prev, cosigned \in BOOLEAN,
       locktime \in {0, leaf.timeout}, l \in LeafEntries,
       utxos \in {<<o>> : o \in Outputs} \cup (Outputs \X Outputs) :
       ForeignPsbt(version, whole, locktime, l, utxos, prev, cosigned)
  \/ pc = "sign" /\ \E k \in Keys, p \in Preimages : Sign(k, p)
  \/ pc = "send" /\ \E at \in Moments : Broadcast(at)

Spec == Init /\ [][Next]_vars

-----------------------------------------------------------------------------
(* Properties                                                              *)

Passed ==
  IF leaf.timeout < Threshold THEN sentAt.height > leaf.timeout
                              ELSE sentAt.time > leaf.timeout

\* The pattern analyze_script looks for begins inside the timeout's own push.
Hidden ==
  Timelocked /\ \E i \in 0..(Len(PushInt(leaf.timeout)) - 1) : TimelockAt(Script, i)

\* The script written, the number in it, the transaction's lock time and the
\* chain's rule agree at every size a timeout can have: nothing spends a
\* timelocked leaf before its timeout, and the refund the signer builds does
\* from then on, if the leaf's own key is given.  The exceptions are a timeout
\* of 0, for which no refund is built, and the timeout that hides the key; a
\* timeout of 500000000 or more is a time, and passes with the clock and not
\* with the height.
OpensOnTime ==
  /\ accepted /\ Timelocked => Passed /\ ~Hidden
  /\ pc = "over" /\ ~foreign /\ Timelocked =>
       IF leaf.timeout = 0 \/ Hidden THEN ~accepted
       ELSE myKey \in {<<>>, leaf.key} =>
              witness # NoWitness /\ (accepted <=> Passed)

\* Whichever builder wrote the leaf, the signer names its type, its key and
\* its timeout, except that it shows 0 for a height up to 16; and the lending
\* package finds the hash in any hashlock leaf.
LeafIsReadBack ==
  info.type # "unknown" /\ Read.script = Script =>
    /\ info.type = TypeOfLeaf
    /\ info.key = leaf.key <=> ~Hidden
    /\ Timelocked /\ ~Hidden =>
         info.locktime = IF leaf.timeout <= 16 THEN 0 ELSE leaf.timeout
    /\ info.type = "hashlock" => Commitment(Script) = {leaf.other}

AsAgreed(l) == l = [header |-> LeafVersion, value |-> Script \o <<LeafVersion>>]

\* The two parsers read the same from a PSBT that has every output and whose
\* leaf is written as BIP-371 says: which of them runs makes no difference to
\* what is signed.
ParsersAgree ==
  /\ MinimalReads(file)
  /\ \A i \in DOMAIN file.ins :
       /\ file.ins[i].utxo # "missing"
       /\ ~foreign \/ \A k \in DOMAIN file.ins[i].leaves : AsAgreed(file.ins[i].leaves[k])
  => ParseMinimal(file) = ParseViaEmbit(file)

\* The output of an input is in the PSBT, where the parser that reads it looks.
Known(e) ==
  \/ e.utxo = "true"
  \/ e.utxo = "missing" /\ e.prev /\ ~MinimalReads(file)

\* The signatures that came with the PSBT are for what the chain will see.
Cosigned == \A c \in file.ins[1].sigs : c.message = ChainMessage

\* What the tool signs is worth something only if what it has not verified is
\* right: the outputs of all inputs, those it does not sign included, unless
\* the leaf is a version 2 claim, whose signature was there before; that
\* signature, and the co-signer's of a claim; the preimage of a hashlock.  A
\* header of another version gets through only where embit has read the PSBT.
\* And a key that its timeout hides is not the one the signature is for.
SignatureCounts ==
  witness # NoWitness =>
    /\ WitnessIsValid <=>
         /\ witness.header = LeafVersion
         /\ info.type = "v2_claim" \/ \A i \in DOMAIN file.ins : Known(file.ins[i])
         /\ info.type \in {"v2_claim", "claim"} => Cosigned
         /\ info.type = "hashlock" => preimage = "right"
         /\ ~Hidden
    /\ witness.header # LeafVersion => ~MinimalReads(file)

=============================================================================
