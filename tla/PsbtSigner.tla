----------------------------- MODULE PsbtSigner -----------------------------
(***************************************************************************)
(* Signing a PSBT: sign_and_finalize, the loop over inputs and, inside it, *)
(* over the tapleaves of an input, and finalize_presigned_v2_psbt, the     *)
(* shorter loop the v2 claim path uses.  The two run side by side over the *)
(* same PSBT, so that their results can be compared.                       *)
(*                                                                         *)
(* A key is a model value; a leaf is what analyze_script and verify_leaf   *)
(* say of it; a signature is known by whose it is and by the message it is *)
(* over, and a message by what it says of the outputs it commits to.  The  *)
(* replay-protected message of BCH and XEC key paths is left out.          *)
(***************************************************************************)
EXTENDS Integers, Sequences

CONSTANTS
  Keys,       \* private keys
  NoKey,      \* no key given
  Preimages,  \* 32-byte preimages
  NoPreimage, \* no preimage given
  Psbts       \* the PSBTs offered: sequences of inputs

LeafType == {"v2_claim", "claim", "hashlock", "timelocked", "unknown"}
OutputKind == {"p2wpkh", "p2tr_tweaked", "p2tr_untweaked", "other"}

(* type    - what analyze_script makes of the script                       *)
(* key     - the receiver, lender or sender key in it                      *)
(* cosigner- the first key of a dual-signature leaf                        *)
(* commits - verify_leaf: control block and script give the output key     *)
(* sig     - the tap-script signature the PSBT has for the leaf, of the    *)
(*           key for v2_claim and of the cosigner for a dual-signature     *)
(*           leaf: over the transaction's message or over another          *)
(* hash    - the preimage whose hash a hashlock leaf has                   *)
Leaf == [type : LeafType, key : Keys, cosigner : Keys, commits : BOOLEAN,
         sig : {"none", "right", "wrong"}, hash : Preimages]

(* output - the shape of the spent output, owner - the key that controls   *)
(* it, utxo - the witness_utxo the PSBT has for it: the output the chain   *)
(* has, one of another amount, or none                                     *)
Utxo  == {"true", "wrong", "missing"}
Input == [output : OutputKind, owner : Keys, utxo : Utxo, leaves : Seq(Leaf)]

ASSUME PsbtAssumption ==
  /\ NoKey \notin Keys /\ NoPreimage \notin Preimages
  /\ \A psbt \in Psbts : psbt \in Seq(Input) /\ Len(psbt) > 0

VARIABLES
  psbt,        \* the PSBT
  key,         \* the private key given
  adaptorKey,  \* the adaptor secret given, as a key, or NoKey
  preimage,    \* the 32-byte preimage given, or NoPreimage
  pc,          \* "input" | "leaf" | "ok" | "error"
  idx,         \* the input being worked on
  leaf,        \* the leaf of it
  witnesses    \* what goes into each input: NoWitness until it is signed

vars == <<psbt, key, adaptorKey, preimage, pc, idx, leaf, witnesses>>

Inputs  == 1..Len(psbt)
This    == psbt[idx]
ThisLeaf == This.leaves[leaf]

(* A message says of each output it commits to what the signer took it    *)
(* for, and nothing of the others.                                         *)
Message      == [Inputs -> Utxo \cup {"any"}]
AsPsbt(J)    == [j \in Inputs |-> IF j \in J THEN psbt[j].utxo ELSE "any"]
AsChain(J)   == [j \in Inputs |-> IF j \in J THEN "true" ELSE "any"]
OtherMessage == [j \in Inputs |-> "any"]

Signature    == [by : Keys, over : Message]
SignOver(k, J) == [by |-> k, over |-> AsPsbt(J)]

\* The signature of k that came with the PSBT for leaf l.
Stored(l, k) == [by |-> k, over |-> IF l.sig = "right" THEN AsChain(Inputs)
                                                       ELSE OtherMessage]

(* leaf is 0 for a key-path or P2WPKH witness                              *)
Witness(l, sigs, p) == [leaf |-> l, sigs |-> sigs, preimage |-> p]
NoWitness           == Witness(-1, {}, NoPreimage)

Signed == {i \in Inputs : witnesses[i] # NoWitness}

TypeOK ==
  /\ key \in Keys /\ adaptorKey \in Keys \cup {NoKey}
  /\ preimage \in Preimages \cup {NoPreimage}
  /\ pc \in {"input", "leaf", "ok", "error"}
  /\ idx \in 1..(Len(psbt) + 1)
  /\ pc = "leaf" => idx \in Inputs /\ leaf \in 1..(Len(This.leaves) + 1)
  /\ witnesses \in [Inputs -> [leaf : Int, sigs : SUBSET Signature,
                               preimage : Preimages \cup {NoPreimage}]]

Init ==
  /\ psbt \in Psbts
  /\ key \in Keys /\ adaptorKey \in Keys \cup {NoKey}
  /\ preimage \in Preimages \cup {NoPreimage}
  /\ pc = "input" /\ idx = 1 /\ leaf = 0
  /\ witnesses = [i \in Inputs |-> NoWitness]

given == <<psbt, key, adaptorKey, preimage>>

-----------------------------------------------------------------------------
(* Ways to leave an input                                                  *)

NextInput ==
  /\ idx' = idx + 1 /\ leaf' = 0 /\ pc' = "input"
  /\ UNCHANGED given

SkipInput == NextInput /\ UNCHANGED witnesses

SignInput(w) == NextInput /\ witnesses' = [witnesses EXCEPT ![idx] = w]

Fail ==
  /\ pc' = "error"
  /\ UNCHANGED <<given, idx, leaf, witnesses>>

\* An input without leaves whose output has the shape of one of kinds.
AtInput(kinds) ==
  /\ pc = "input" /\ idx \in Inputs
  /\ This.leaves = <<>>
  /\ IF This.utxo = "missing" THEN "other" \in kinds ELSE This.output \in kinds

P2wpkh ==
  /\ AtInput({"p2wpkh"})
  /\ IF This.owner = key
     THEN SignInput(Witness(0, {SignOver(key, {idx})}, NoPreimage))
     ELSE SkipInput

\* The Taproot sighash commits to every input: all must carry their output.
TaprootKeyPath ==
  /\ AtInput({"p2tr_tweaked", "p2tr_untweaked"})
  /\ IF This.owner # key THEN SkipInput
     ELSE IF \A i \in Inputs : psbt[i].utxo # "missing"
          THEN SignInput(Witness(0, {SignOver(key, Inputs)}, NoPreimage))
          ELSE Fail

NotSignable == AtInput({"other"}) /\ SkipInput

EnterLeaves ==
  /\ pc = "input" /\ idx \in Inputs
  /\ This.leaves # <<>>
  /\ pc' = "leaf" /\ leaf' = 1
  /\ UNCHANGED <<given, idx, witnesses>>

-----------------------------------------------------------------------------
(* The leaf loop: break signs the input, continue goes to the next leaf,   *)
(* return ends the whole call.                                             *)

\* Mutant: the loop goes on two leaves at a time.
SkipLeaf ==
  /\ leaf' = leaf + 2
  /\ UNCHANGED <<given, pc, idx, witnesses>>

NextLeaf ==
  /\ leaf' = leaf + 1
  /\ UNCHANGED <<given, pc, idx, witnesses>>

\* Mutant: any leaf of an input with its output is taken.
AnyLeaf(l) == This.utxo # "missing"

VerifyLeaf(l) == This.utxo # "missing" /\ l.commits

AtLeaf(type) ==
  /\ pc = "leaf" /\ leaf \in 1..Len(This.leaves)
  /\ ThisLeaf.type = type
  /\ VerifyLeaf(ThisLeaf)

RefuseLeaf ==
  /\ pc = "leaf" /\ leaf \in 1..Len(This.leaves)
  /\ ~VerifyLeaf(ThisLeaf)
  /\ NextLeaf

\* Mutant: the receiver's key is asked for before the signature is looked at.
V2ClaimByKey ==
  /\ AtLeaf("v2_claim")
  /\ IF ThisLeaf.sig # "none" /\ key = ThisLeaf.key
     THEN SignInput(Witness(leaf, {Stored(ThisLeaf, ThisLeaf.key)}, NoPreimage))
     ELSE Fail

\* The signature that came with the PSBT is taken as it is, whoever runs the
\* tool; without one the call fails, for the receiver's key as well.
V2Claim ==
  /\ AtLeaf("v2_claim")
  /\ IF ThisLeaf.sig # "none"
     THEN SignInput(Witness(leaf, {Stored(ThisLeaf, ThisLeaf.key)}, NoPreimage))
     ELSE Fail

CosignerSig ==
  IF ThisLeaf.sig # "none" THEN Stored(ThisLeaf, ThisLeaf.cosigner)
                           ELSE SignOver(ThisLeaf.cosigner, Inputs)

DualSig ==
  /\ AtLeaf("claim")
  /\ IF /\ ThisLeaf.sig # "none" \/ adaptorKey = ThisLeaf.cosigner
        /\ key = ThisLeaf.key
     THEN SignInput(Witness(leaf, {SignOver(key, Inputs), CosignerSig}, NoPreimage))
     ELSE Fail

\* Only the preimage's length is looked at.
Hashlock ==
  /\ AtLeaf("hashlock")
  /\ IF preimage # NoPreimage /\ key = ThisLeaf.key
     THEN SignInput(Witness(leaf, {SignOver(key, Inputs)}, preimage))
     ELSE Fail

\* Mutant: a timelocked leaf of another key is passed over.
TimelockedLenient ==
  /\ AtLeaf("timelocked")
  /\ IF key = ThisLeaf.key
     THEN SignInput(Witness(leaf, {SignOver(key, Inputs)}, NoPreimage))
     ELSE SkipInput

Timelocked ==
  /\ AtLeaf("timelocked")
  /\ IF key = ThisLeaf.key
     THEN SignInput(Witness(leaf, {SignOver(key, Inputs)}, NoPreimage))
     ELSE Fail

UnknownLeaf == AtLeaf("unknown") /\ NextLeaf

LeavesExhausted ==
  /\ pc = "leaf" /\ leaf > Len(This.leaves)
  /\ SkipInput

\* One signed input is enough for a result.
Finish ==
  /\ pc = "input" /\ idx > Len(psbt)
  /\ pc' = IF Signed = {} THEN "error" ELSE "ok"
  /\ UNCHANGED <<given, idx, leaf, witnesses>>

-----------------------------------------------------------------------------
Next ==
  \/ P2wpkh \/ TaprootKeyPath \/ NotSignable \/ EnterLeaves
  \/ RefuseLeaf \/ V2Claim \/ DualSig \/ Hashlock \/ Timelocked \/ UnknownLeaf
  \/ LeavesExhausted \/ Finish

Spec == Init /\ [][Next]_vars

Returned == pc \in {"ok", "error"}

-----------------------------------------------------------------------------
(* finalize_presigned_v2_psbt: the first v2 leaf of each input, with the   *)
(* signature the PSBT has for it, and no look at the control block.        *)

V2Leaves(i) == {l \in DOMAIN psbt[i].leaves : psbt[i].leaves[l].type = "v2_claim"}
FirstV2(i)  == CHOOSE l \in V2Leaves(i) : \A m \in V2Leaves(i) : l <= m
WithV2      == {i \in Inputs : V2Leaves(i) # {}}

PresignedFinalizes ==
  /\ WithV2 # {}
  /\ \A i \in WithV2 : psbt[i].leaves[FirstV2(i)].sig # "none"

PresignedWitnesses ==
  [i \in Inputs |->
    IF i \in WithV2
    THEN LET l == psbt[i].leaves[FirstV2(i)]
         IN  Witness(FirstV2(i), {Stored(l, l.key)}, NoPreimage)
    ELSE NoWitness]

-----------------------------------------------------------------------------
(* Properties                                                              *)

LeafOf(i) == psbt[i].leaves[witnesses[i].leaf]

\* The outputs the message of input i's signatures commits to.
Commits(i) == IF witnesses[i].leaf = 0 /\ psbt[i].output = "p2wpkh" THEN {i}
                                                                  ELSE Inputs

\* Whose signatures the spent output asks for.
Asked(i) ==
  IF witnesses[i].leaf = 0 THEN {psbt[i].owner}
  ELSE {LeafOf(i).key} \cup
       (IF LeafOf(i).type = "claim" THEN {LeafOf(i).cosigner} ELSE {})

\* What the chain asks of input i's witness: the output's shape, or a leaf it
\* commits to, the signatures asked for, each over the outputs as they are on
\* the chain, and the preimage of the leaf's hash.  (Locktimes are LeafSpend's.)
SatisfiesOutput(i) ==
  /\ witnesses[i].sigs = {[by |-> k, over |-> AsChain(Commits(i))] : k \in Asked(i)}
  /\ IF witnesses[i].leaf = 0 THEN psbt[i].output # "other"
     ELSE /\ LeafOf(i).commits /\ LeafOf(i).type # "unknown"
          /\ LeafOf(i).type = "hashlock" => witnesses[i].preimage = LeafOf(i).hash

\* What sign_and_finalize takes as it is given: the outputs it signs over, a
\* signature that came with the PSBT, the preimage of a hashlock.
GivenRight(i) ==
  LET leafType == IF witnesses[i].leaf = 0 THEN "none" ELSE LeafOf(i).type
  IN  /\ leafType # "v2_claim" => \A j \in Commits(i) : psbt[j].utxo = "true"
      /\ leafType \in {"v2_claim", "claim"} => LeafOf(i).sig # "wrong"
      /\ leafType = "hashlock" => preimage = LeafOf(i).hash

\* Whatever order leaves come in and whatever key is given, the chain accepts
\* an input's witness exactly when what the signer never checks is right: the
\* leaf, the keys and the number of signatures are never the reason for a
\* refusal, and nothing else than the three parts of GivenRight is.
WitnessesAreValid == \A i \in Signed : SatisfiesOutput(i) <=> GivenRight(i)

\* A leaf that could have been signed is never passed over: the witness uses
\* the first committed leaf of a known type, and a result leaves no such leaf
\* of any input without one.
Signable(i, l) == /\ psbt[i].utxo # "missing" /\ psbt[i].leaves[l].commits
                  /\ psbt[i].leaves[l].type # "unknown"

NoLeafPassedOver ==
  /\ \A i \in Signed : \A l \in 1..(witnesses[i].leaf - 1) : ~Signable(i, l)
  /\ pc = "ok" => \A i \in Inputs \ Signed :
                    \A l \in DOMAIN psbt[i].leaves : ~Signable(i, l)

\* On the PSBTs build_v2_claim_psbt makes, one leaf an input, the two
\* finalizers return the same: no key is needed and none changes the result.
BuiltForV2 ==
  \A i \in Inputs : /\ Len(psbt[i].leaves) = 1 /\ WithV2 = Inputs
                    /\ Signable(i, 1)

FinalizersAgree ==
  BuiltForV2 /\ Returned =>
    /\ pc = "ok" <=> PresignedFinalizes
    /\ pc = "ok" => witnesses = PresignedWitnesses

=============================================================================
