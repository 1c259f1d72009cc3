-------------------------- MODULE PsbtSignerProofs --------------------------
(***************************************************************************)
(* Whatever PSBT and keys sign_and_finalize is given, of any number of     *)
(* inputs and leaves: its witnesses are valid and no leaf is passed over.  *)
(***************************************************************************)
EXTENDS PsbtSigner, TLAPS

\* The outputs the signature of a key-path or P2WPKH input commits to.
Covered(i) == IF psbt[i].output = "p2wpkh" THEN {i} ELSE Inputs

\* The signatures that go into the witness of leaf l.
LeafSigs(l) ==
  CASE l.type = "v2_claim" -> {Stored(l, l.key)}
    [] l.type = "claim"    -> {SignOver(l.key, Inputs),
                               IF l.sig # "none" THEN Stored(l, l.cosigner)
                               ELSE SignOver(l.cosigner, Inputs)}
    [] OTHER               -> {SignOver(l.key, Inputs)}

\* What the loops put into a witness of input i.
Valid(i, w) ==
  IF w.leaf = 0
  THEN psbt[i].output # "other" /\ w.sigs = {SignOver(psbt[i].owner, Covered(i))}
  ELSE LET l == psbt[i].leaves[w.leaf]
       IN  /\ w.leaf \in DOMAIN psbt[i].leaves
           /\ l.commits /\ l.type # "unknown"
           /\ l.type = "v2_claim" => l.sig # "none"
           /\ w.sigs = LeafSigs(l)
           /\ l.type = "hashlock" => w.preimage = preimage

WitnessSet == [leaf : Int, sigs : SUBSET Signature,
               preimage : Preimages \cup {NoPreimage}]

NoneBefore(i, n) == \A l \in 1..(n - 1) : ~Signable(i, l)
NoneAt(i)        == \A l \in DOMAIN psbt[i].leaves : ~Signable(i, l)

\* What is known of input i once the loop is past it.
Dealt(i) ==
  IF witnesses[i] = NoWitness THEN NoneAt(i)
  ELSE Valid(i, witnesses[i]) /\ NoneBefore(i, witnesses[i].leaf)

\* The inputs before idx are dealt with, those from idx on have no witness,
\* and no leaf before the current one could have been signed.
PsbtInv ==
  /\ psbt \in Seq(Input)
  /\ TypeOK
  /\ \A i \in Inputs : IF i < idx THEN Dealt(i) ELSE witnesses[i] = NoWitness
  /\ pc = "leaf" => NoneBefore(idx, leaf)
  /\ pc = "ok" => idx > Len(psbt)

LEMMA InputShape ==
  ASSUME PsbtInv, NEW i \in Inputs
  PROVE  psbt[i].leaves \in Seq(Leaf) /\ i \in Nat /\ Len(psbt) \in Nat
<1>1. Len(psbt) \in Nat /\ psbt \in [1..Len(psbt) -> Input]
  BY DEF PsbtInv
<1>2. psbt[i] \in Input
  BY <1>1 DEF Inputs
<1> QED
  BY <1>1, <1>2 DEF Input, Inputs

\* The signatures the call makes, and the ones it is given, are signatures.
LEMMA SignatureTypes ==
  ASSUME PsbtInv
  PROVE  /\ \A k \in Keys, J \in SUBSET Inputs : SignOver(k, J) \in Signature
         /\ \A k \in Keys : \A l : Stored(l, k) \in Signature
<1>1. \A i \in Inputs : psbt[i].utxo \in Utxo
  <2>1. Len(psbt) \in Nat /\ psbt \in [1..Len(psbt) -> Input]
    BY DEF PsbtInv
  <2> QED
    BY <2>1 DEF Inputs, Input
<1>2. \A J \in SUBSET Inputs : AsPsbt(J) \in Message
  BY <1>1 DEF AsPsbt, Message
<1>3. AsChain(Inputs) \in Message /\ OtherMessage \in Message
  BY DEF AsChain, OtherMessage, Message, Utxo
<1> QED
  BY <1>2, <1>3 DEF SignOver, Stored, Signature

\* While the PSBT and the preimage stay, what is known of an input depends on
\* its witness alone.
LEMMA DealtAt ==
  ASSUME psbt' = psbt, preimage' = preimage, NEW i, NEW w, witnesses'[i] = w
  PROVE  Dealt(i)' <=> IF w = NoWitness THEN NoneAt(i)
                       ELSE Valid(i, w) /\ NoneBefore(i, w.leaf)
BY DEF Dealt, Valid, LeafSigs, Covered, Stored, SignOver, AsPsbt, AsChain,
   OtherMessage, Inputs, NoneAt, NoneBefore, Signable, NoWitness, Witness

LEMMA DealtSame ==
  ASSUME psbt' = psbt, preimage' = preimage, witnesses' = witnesses, NEW i
  PROVE  Dealt(i)' <=> Dealt(i)
<1>1. witnesses'[i] = witnesses[i]
  OBVIOUS
<1> QED
  BY <1>1, DealtAt DEF Dealt

LEMMA SameSets ==
  ASSUME psbt' = psbt
  PROVE  Inputs' = Inputs /\ Signature' = Signature /\ WitnessSet' = WitnessSet
BY DEF Inputs, Signature, Message, WitnessSet

LEMMA InitInv == Init => PsbtInv
<1> SUFFICES ASSUME Init PROVE PsbtInv
  OBVIOUS
<1>1. psbt \in Seq(Input) /\ Len(psbt) \in Nat /\ Len(psbt) > 0
  BY PsbtAssumption DEF Init, PsbtAssumption
<1>2. NoWitness \in WitnessSet
  BY DEF NoWitness, Witness, WitnessSet
<1>3. witnesses \in [Inputs -> WitnessSet]
  BY <1>2 DEF Init
<1>4. \A i \in Inputs : ~(i < idx) /\ witnesses[i] = NoWitness
  BY <1>1 DEF Init, Inputs
<1> QED
  BY <1>1, <1>3, <1>4 DEF Init, PsbtInv, TypeOK, WitnessSet

\* Leaving an input without a witness: none of its leaves could be signed.
LEMMA SkipStep ==
  ASSUME PsbtInv, idx \in Inputs, SkipInput, NoneAt(idx)
  PROVE  PsbtInv'
<1>1. /\ psbt' = psbt /\ idx' = idx + 1 /\ pc' = "input"
      /\ witnesses' = witnesses
      /\ key' = key /\ adaptorKey' = adaptorKey /\ preimage' = preimage
  BY DEF SkipInput, NextInput, given
<1>2. Len(psbt) \in Nat /\ idx \in Nat
  BY DEF PsbtInv, Inputs
<1>3. TypeOK'
  <2>1. witnesses' \in [Inputs' -> WitnessSet']
    BY <1>1, SameSets DEF PsbtInv, TypeOK, WitnessSet
  <2>2. idx' \in 1..(Len(psbt') + 1)
    BY <1>1, <1>2 DEF Inputs
  <2> QED
    BY <1>1, <2>1, <2>2 DEF PsbtInv, TypeOK, WitnessSet
<1>4. ASSUME NEW i \in Inputs
      PROVE  IF i < idx' THEN Dealt(i)' ELSE witnesses'[i] = NoWitness
  <2>1. i \in Nat
    BY <1>2 DEF Inputs
  <2>2. Dealt(i)' <=> Dealt(i)
    BY <1>1, DealtSame
  <2>3. i = idx => Dealt(i)
    BY <1>2, <2>1 DEF PsbtInv, Dealt
  <2> QED
    BY <1>1, <1>2, <2>1, <2>2, <2>3 DEF PsbtInv
<1> QED
  BY <1>1, <1>3, <1>4 DEF PsbtInv, Inputs

\* Leaving an input with a witness that is valid for it.
LEMMA SignStep ==
  ASSUME PsbtInv, idx \in Inputs,
         NEW w \in WitnessSet, w # NoWitness, SignInput(w),
         Valid(idx, w), NoneBefore(idx, w.leaf)
  PROVE  PsbtInv'
<1>1. /\ psbt' = psbt /\ idx' = idx + 1 /\ pc' = "input"
      /\ witnesses' = [witnesses EXCEPT ![idx] = w]
      /\ key' = key /\ adaptorKey' = adaptorKey /\ preimage' = preimage
  BY DEF SignInput, NextInput, given
<1>2. Len(psbt) \in Nat /\ idx \in Nat /\ witnesses \in [Inputs -> WitnessSet]
  BY DEF PsbtInv, Inputs, TypeOK, WitnessSet
<1>3. TypeOK'
  <2>1. witnesses' \in [Inputs' -> WitnessSet']
    BY <1>1, <1>2, SameSets
  <2>2. idx' \in 1..(Len(psbt') + 1)
    BY <1>1, <1>2 DEF Inputs
  <2> QED
    BY <1>1, <2>1, <2>2 DEF PsbtInv, TypeOK, WitnessSet
<1>4. ASSUME NEW i \in Inputs
      PROVE  IF i < idx' THEN Dealt(i)' ELSE witnesses'[i] = NoWitness
  <2>1. i \in Nat
    BY <1>2 DEF Inputs
  <2>2. CASE i = idx
    <3>1. witnesses'[i] = w
      BY <1>1, <1>2, <2>2
    <3>2. Dealt(i)'
      BY <1>1, <2>2, <3>1, DealtAt
    <3> QED
      BY <1>1, <1>2, <2>2, <3>2
  <2>3. CASE i # idx
    <3>1. witnesses'[i] = witnesses[i]
      BY <1>1, <1>2, <2>3
    <3>2. Dealt(i)' <=> Dealt(i)
      BY <1>1, <3>1, DealtAt DEF Dealt
    <3> QED
      BY <1>1, <1>2, <2>1, <2>3, <3>1, <3>2 DEF PsbtInv
  <2> QED
    BY <2>2, <2>3
<1> QED
  BY <1>1, <1>3, <1>4 DEF PsbtInv, Inputs

\* Going on to the next leaf: the current one could not be signed.
LEMMA NextLeafStep ==
  ASSUME PsbtInv, pc = "leaf", leaf \in 1..Len(This.leaves), NextLeaf,
         ~Signable(idx, leaf)
  PROVE  PsbtInv'
<1>1. UNCHANGED <<psbt, key, adaptorKey, preimage, pc, idx, witnesses>>
      /\ leaf' = leaf + 1
  BY DEF NextLeaf, given
<1>2. idx \in Inputs /\ This.leaves \in Seq(Leaf) /\ leaf \in Nat
  <2>1. idx \in Inputs
    BY DEF PsbtInv, TypeOK
  <2>2. psbt[idx].leaves \in Seq(Leaf)
    BY <2>1, InputShape
  <2> QED
    BY <2>1, <2>2 DEF This
<1>3. TypeOK'
  <2>1. witnesses' \in [Inputs' -> WitnessSet']
    BY <1>1, SameSets DEF PsbtInv, TypeOK, WitnessSet
  <2>2. idx' \in 1..(Len(psbt') + 1)
    BY <1>1 DEF PsbtInv, TypeOK
  <2>3. pc' = "leaf" => idx' \in Inputs' /\ leaf' \in 1..(Len(This.leaves)' + 1)
    BY <1>1, <1>2, SameSets DEF This
  <2> QED
    BY <1>1, <2>1, <2>2, <2>3 DEF PsbtInv, TypeOK, WitnessSet
<1>4. NoneBefore(idx, leaf + 1)
  BY <1>2 DEF PsbtInv, NoneBefore
<1>5. \A i \in Inputs : Dealt(i)' <=> Dealt(i)
  BY <1>1, DealtSame
<1> QED
  BY <1>1, <1>3, <1>4, <1>5 DEF PsbtInv, Inputs, NoneBefore, Signable

\* Steps that touch neither witnesses nor the place among the inputs.
LEMMA StayStep ==
  ASSUME PsbtInv, UNCHANGED <<psbt, key, adaptorKey, preimage, idx, witnesses>>,
         pc' \in {"error", "ok"}, pc' = "ok" => idx > Len(psbt)
  PROVE  PsbtInv'
<1>1. TypeOK'
  BY SameSets DEF PsbtInv, TypeOK
<1>2. \A i \in Inputs : Dealt(i)' <=> Dealt(i)
  BY DealtSame
<1> QED
  BY <1>1, <1>2 DEF PsbtInv, Inputs

\* A leaf is signed: the witness has the signatures its script asks for.
LEMMA LeafStep ==
  ASSUME PsbtInv, NEW type \in LeafType, AtLeaf(type), type # "unknown",
         type = "v2_claim" => ThisLeaf.sig # "none",
         NEW sigs, sigs = LeafSigs(ThisLeaf),
         NEW p, p \in {preimage, NoPreimage}, type = "hashlock" => p = preimage,
         SignInput(Witness(leaf, sigs, p))
  PROVE  PsbtInv'
<1> DEFINE w == Witness(leaf, sigs, p)
<1>1. idx \in Inputs /\ leaf \in 1..Len(This.leaves) /\ pc = "leaf"
  BY DEF AtLeaf, PsbtInv, TypeOK
<1>2. This.leaves \in Seq(Leaf)
  BY <1>1, InputShape DEF This
<1>3. leaf \in Nat /\ leaf > 0 /\ leaf \in DOMAIN psbt[idx].leaves
  BY <1>1, <1>2 DEF This
<1>8. sigs \in SUBSET Signature
  <2>1. ThisLeaf \in Leaf
    BY <1>1, <1>2 DEF ThisLeaf
  <2>2. ThisLeaf.key \in Keys /\ ThisLeaf.cosigner \in Keys
    BY <2>1 DEF Leaf
  <2> QED
    BY <2>2, SignatureTypes DEF LeafSigs
<1>9. p \in Preimages \cup {NoPreimage}
  BY DEF PsbtInv, TypeOK
<1>4. w \in WitnessSet /\ w # NoWitness
  BY <1>3, <1>8, <1>9 DEF WitnessSet, Witness, NoWitness
<1>5. w.leaf = leaf /\ w.sigs = sigs /\ w.preimage = p
  BY DEF Witness
<1> HIDE DEF w
<1>6. Valid(idx, w)
  BY <1>3, <1>5 DEF Valid, AtLeaf, VerifyLeaf, ThisLeaf, This
<1>7. NoneBefore(idx, w.leaf)
  BY <1>1, <1>5 DEF PsbtInv
<1> QED
  BY <1>1, <1>4, <1>6, <1>7, SignStep DEF w

LEMMA FailStep == ASSUME PsbtInv, Fail PROVE PsbtInv'
BY StayStep DEF Fail, given

\* An input without leaves: signed with the key that owns it, or skipped.
LEMMA PlainStep ==
  ASSUME PsbtInv, NEW kinds, AtInput(kinds),
         SkipInput \/ /\ SignInput(Witness(0, {SignOver(key, Covered(idx))}, NoPreimage))
                      /\ This.owner = key /\ "other" \notin kinds
  PROVE  PsbtInv'
<1> DEFINE w == Witness(0, {SignOver(key, Covered(idx))}, NoPreimage)
<1>1. idx \in Inputs /\ psbt[idx].leaves = <<>>
  BY DEF AtInput, This
<1>2. NoneAt(idx)
  BY <1>1 DEF NoneAt
<1>3. CASE SkipInput
  BY <1>1, <1>2, <1>3, SkipStep
<1>4. CASE SignInput(w) /\ This.owner = key /\ "other" \notin kinds
  <2>5. SignOver(key, Covered(idx)) \in Signature
    BY <1>1, SignatureTypes DEF Covered, PsbtInv, TypeOK
  <2>1. w \in WitnessSet /\ w # NoWitness
    BY <2>5 DEF WitnessSet, Witness, NoWitness
  <2>2. w.leaf = 0 /\ w.sigs = {SignOver(key, Covered(idx))}
    BY DEF Witness
  <2> HIDE DEF w
  <2>3. psbt[idx].owner = key /\ psbt[idx].output # "other"
    BY <1>4 DEF AtInput, This
  <2>4. Valid(idx, w) /\ NoneBefore(idx, w.leaf)
    BY <2>2, <2>3 DEF Valid, NoneBefore
  <2> QED
    BY <1>1, <1>4, <2>1, <2>4, SignStep
<1> QED
  BY <1>3, <1>4

\* Every step of the two loops keeps the invariant.
LEMMA PsbtStep ==
  ASSUME PsbtInv, [Next]_vars
  PROVE  PsbtInv'
<1>1. CASE P2wpkh
  <2>1. "other" \notin {"p2wpkh"}
    OBVIOUS
  <2>2. Covered(idx) = {idx}
    BY <1>1 DEF P2wpkh, AtInput, This, Covered
  <2> QED
    BY <1>1, <2>1, <2>2, PlainStep DEF P2wpkh
<1>2. CASE TaprootKeyPath
  <2>1. "other" \notin {"p2tr_tweaked", "p2tr_untweaked"}
    OBVIOUS
  <2>2. Covered(idx) = Inputs
    BY <1>2 DEF TaprootKeyPath, AtInput, This, Covered
  <2> QED
    BY <1>2, <2>1, <2>2, PlainStep, FailStep DEF TaprootKeyPath
<1>3. CASE NotSignable
  BY <1>3, PlainStep DEF NotSignable
<1>4. CASE EnterLeaves
  <2>1. UNCHANGED <<psbt, key, adaptorKey, preimage, idx, witnesses>>
    BY <1>4 DEF EnterLeaves, given
  <2>2. pc' = "leaf" /\ leaf' = 1 /\ idx \in Inputs
    BY <1>4 DEF EnterLeaves
  <2>3. psbt[idx].leaves \in Seq(Leaf)
    BY <2>2, InputShape
  <2>4. TypeOK'
    <3>1. idx' \in Inputs' /\ leaf' \in 1..(Len(This.leaves)' + 1)
      BY <2>1, <2>2, <2>3, SameSets DEF This
    <3>2. witnesses' \in [Inputs' -> WitnessSet']
      BY <2>1, SameSets DEF PsbtInv, TypeOK, WitnessSet
    <3> QED
      BY <2>1, <2>2, <3>1, <3>2 DEF PsbtInv, TypeOK, WitnessSet
  <2>5. \A i \in Inputs : Dealt(i)' <=> Dealt(i)
    BY <2>1, DealtSame
  <2>6. NoneBefore(idx, leaf)'
    BY <2>2 DEF NoneBefore
  <2> QED
    BY <2>1, <2>2, <2>4, <2>5, <2>6 DEF PsbtInv, Inputs
<1>5. CASE RefuseLeaf
  BY <1>5, NextLeafStep DEF RefuseLeaf, VerifyLeaf, Signable, ThisLeaf, This
<1>6. CASE V2Claim
  <2>1. AtLeaf("v2_claim") => LeafSigs(ThisLeaf) = {Stored(ThisLeaf, ThisLeaf.key)}
    BY DEF AtLeaf, LeafSigs
  <2> QED
    BY <1>6, <2>1, LeafStep, FailStep DEF V2Claim, LeafType
<1>7. CASE DualSig
  <2>1. AtLeaf("claim") => LeafSigs(ThisLeaf) =
                             {SignOver(ThisLeaf.key, Inputs), CosignerSig}
    BY DEF AtLeaf, LeafSigs, CosignerSig
  <2> QED
    BY <1>7, <2>1, LeafStep, FailStep DEF DualSig, LeafType
<1>8. CASE Hashlock
  <2>1. AtLeaf("hashlock") => LeafSigs(ThisLeaf) = {SignOver(ThisLeaf.key, Inputs)}
    BY DEF AtLeaf, LeafSigs
  <2> QED
    BY <1>8, <2>1, LeafStep, FailStep DEF Hashlock, LeafType
<1>9. CASE Timelocked
  <2>1. AtLeaf("timelocked") => LeafSigs(ThisLeaf) = {SignOver(ThisLeaf.key, Inputs)}
    BY DEF AtLeaf, LeafSigs
  <2> QED
    BY <1>9, <2>1, LeafStep, FailStep DEF Timelocked, LeafType
<1>10. CASE UnknownLeaf
  BY <1>10, NextLeafStep DEF UnknownLeaf, AtLeaf, Signable, ThisLeaf, This
<1>11. CASE LeavesExhausted
  <2>1. idx \in Inputs
    BY <1>11 DEF LeavesExhausted, PsbtInv, TypeOK
  <2>4. psbt[idx].leaves \in Seq(Leaf)
    BY <2>1, InputShape
  <2>2. NoneBefore(idx, leaf) /\ leaf > Len(psbt[idx].leaves)
        /\ leaf \in 1..(Len(psbt[idx].leaves) + 1)
    BY <1>11 DEF LeavesExhausted, PsbtInv, TypeOK, This
  <2>3. NoneAt(idx)
    BY <2>2, <2>4 DEF NoneAt, NoneBefore
  <2> QED
    BY <1>11, <2>1, <2>3, SkipStep DEF LeavesExhausted
<1>12. CASE Finish
  BY <1>12, StayStep DEF Finish, given
<1>13. CASE UNCHANGED vars
  <2>1. UNCHANGED <<psbt, key, adaptorKey, preimage, pc, idx, leaf, witnesses>>
    BY <1>13 DEF vars
  <2>2. TypeOK'
    BY <2>1, SameSets DEF PsbtInv, TypeOK, This
  <2>3. \A i \in Inputs : Dealt(i)' <=> Dealt(i)
    BY <2>1, DealtSame
  <2> QED
    BY <2>1, <2>2, <2>3 DEF PsbtInv, Inputs, NoneBefore, Signable
<1> QED
  BY <1>1, <1>2, <1>3, <1>4, <1>5, <1>6, <1>7, <1>8, <1>9, <1>10, <1>11,
     <1>12, <1>13 DEF Next

\* The invariant of the two loops holds throughout every call.
THEOREM PsbtInvariant == Spec => []PsbtInv
BY InitInv, PsbtStep, PTL DEF Spec

\* Types: the loops stay inside the inputs and the leaves of the PSBT.
THEOREM SignerTypeOK == Spec => []TypeOK
<1>1. PsbtInv => TypeOK
  BY DEF PsbtInv
<1> QED
  BY <1>1, PsbtInvariant, PTL

\* A message is the chain's exactly when the PSBT has every output it commits
\* to as the chain has it; a signature over another message never is.
LEMMA MessageTrue ==
  ASSUME NEW J \in SUBSET Inputs
  PROVE  AsPsbt(J) = AsChain(J) <=> \A j \in J : psbt[j].utxo = "true"
<1>1. ASSUME AsPsbt(J) = AsChain(J), NEW j \in J PROVE psbt[j].utxo = "true"
  <2>1. AsPsbt(J)[j] = AsChain(J)[j]
    BY <1>1
  <2> QED
    BY <2>1 DEF AsPsbt, AsChain
<1>2. ASSUME \A j \in J : psbt[j].utxo = "true" PROVE AsPsbt(J) = AsChain(J)
  BY <1>2 DEF AsPsbt, AsChain
<1> QED
  BY <1>1, <1>2

LEMMA StoredTrue ==
  ASSUME NEW i \in Inputs, NEW l \in Leaf, NEW k, l.sig # "none"
  PROVE  Stored(l, k) = [by |-> k, over |-> AsChain(Inputs)] <=> l.sig # "wrong"
<1>1. OtherMessage[i] # AsChain(Inputs)[i]
  BY DEF OtherMessage, AsChain
<1>2. OtherMessage # AsChain(Inputs)
  BY <1>1
<1>3. l.sig = "right" <=> l.sig # "wrong"
  BY DEF Leaf
<1> QED
  BY <1>2, <1>3 DEF Stored

\* The chain accepts an input's witness exactly when the outputs signed over,
\* the signature that came with the PSBT and the preimage are right: the leaf,
\* the keys and the signatures the signer chooses are never wrong.
THEOREM WitnessTheorem == Spec => []WitnessesAreValid
<1>1. ASSUME PsbtInv PROVE WitnessesAreValid
  <2> SUFFICES ASSUME NEW i \in Signed PROVE SatisfiesOutput(i) <=> GivenRight(i)
    BY DEF WitnessesAreValid
  <2>2. i \in Inputs /\ witnesses[i] # NoWitness
    BY DEF Signed
  <2>3. Valid(i, witnesses[i])
    BY <1>1, <2>2 DEF PsbtInv, Dealt
  <2> DEFINE w == witnesses[i]
             true == \A j \in Inputs : psbt[j].utxo = "true"
             Right(k) == [by |-> k, over |-> AsChain(Inputs)]
  <2>4. \A k : SignOver(k, Inputs) = Right(k) <=> true
    BY MessageTrue DEF SignOver
  <2>5. \A k, m : (SignOver(k, Inputs).by = k) /\ (Right(m).by = m)
    BY DEF SignOver
  <2>6. CASE w.leaf = 0
    <3>1. w.sigs = {SignOver(psbt[i].owner, Covered(i))} /\ psbt[i].output # "other"
      BY <2>3, <2>6 DEF Valid
    <3>2. Commits(i) = Covered(i) /\ Asked(i) = {psbt[i].owner}
      BY <2>6 DEF Commits, Covered, Asked
    <3>3. SatisfiesOutput(i) <=> AsPsbt(Covered(i)) = AsChain(Covered(i))
      <4> DEFINE k == psbt[i].owner
      <4>1. SatisfiesOutput(i) <=>
              {SignOver(k, Covered(i))} = {[by |-> k, over |-> AsChain(Covered(i))]}
        <5>1. {[by |-> m, over |-> AsChain(Covered(i))] : m \in {k}} =
                {[by |-> k, over |-> AsChain(Covered(i))]}
          OBVIOUS
        <5> HIDE DEF k
        <5> QED
          BY <2>6, <3>1, <3>2, <5>1 DEF SatisfiesOutput, k
      <4>2. \A a, b : [by |-> k, over |-> a] = [by |-> k, over |-> b] <=> a = b
        <5> SUFFICES ASSUME NEW a, NEW b,
                            [by |-> k, over |-> a] = [by |-> k, over |-> b]
                     PROVE  a = b
          OBVIOUS
        <5>1. [by |-> k, over |-> a].over = [by |-> k, over |-> b].over
          OBVIOUS
        <5> QED
          BY <5>1
      <4>3. SignOver(k, Covered(i)) = [by |-> k, over |-> AsPsbt(Covered(i))]
        BY DEF SignOver
      <4> HIDE DEF k
      <4>4. \A a, b : {a} = {b} <=> a = b
        OBVIOUS
      <4> QED
        BY <4>1, <4>2, <4>3, <4>4, Zenon
    <3>4. Covered(i) \in SUBSET Inputs
      BY <2>2 DEF Covered
    <3>5. GivenRight(i) <=> \A j \in Covered(i) : psbt[j].utxo = "true"
      BY <2>6, <3>2 DEF GivenRight
    <3> QED
      BY <3>3, <3>4, <3>5, MessageTrue
  <2>7. CASE w.leaf # 0
    <3> DEFINE l == LeafOf(i)
    <3>1. /\ w.leaf \in DOMAIN psbt[i].leaves
          /\ l.commits /\ l.type # "unknown"
          /\ l.type = "v2_claim" => l.sig # "none"
          /\ w.sigs = LeafSigs(l)
          /\ l.type = "hashlock" => w.preimage = preimage
      BY <2>3, <2>7 DEF Valid, LeafOf
    <3>2. l \in Leaf
      BY <1>1, <2>2, <3>1, InputShape DEF LeafOf
    <3>3. Commits(i) = Inputs
      BY <2>7 DEF Commits
    <3>4. SatisfiesOutput(i) <=> /\ w.sigs = {Right(k) : k \in Asked(i)}
                                 /\ l.type = "hashlock" => preimage = l.hash
      BY <2>7, <3>1, <3>3 DEF SatisfiesOutput
    <3>5. GivenRight(i) <=> /\ l.type # "v2_claim" => true
                            /\ l.type \in {"v2_claim", "claim"} => l.sig # "wrong"
                            /\ l.type = "hashlock" => preimage = l.hash
      BY <2>7, <3>3 DEF GivenRight
    <3> HIDE DEF l, w, true
    <3>6. CASE l.type = "v2_claim"
      <4>1. Asked(i) = {l.key}
        BY <2>7, <3>6 DEF Asked, l, w
      <4>2. w.sigs = {Stored(l, l.key)}
        BY <3>1, <3>6 DEF LeafSigs
      <4>3. Stored(l, l.key) = Right(l.key) <=> l.sig # "wrong"
        BY <2>2, <3>1, <3>2, <3>6, StoredTrue
      <4> QED
        BY <3>4, <3>5, <3>6, <4>1, <4>2, <4>3
    <3>7. CASE l.type = "claim"
      <4>1. Asked(i) = {l.key, l.cosigner}
        BY <2>7, <3>7 DEF Asked, l, w
      <4> DEFINE co == IF l.sig # "none" THEN Stored(l, l.cosigner)
                       ELSE SignOver(l.cosigner, Inputs)
      <4>2. w.sigs = {SignOver(l.key, Inputs), co}
        BY <3>1, <3>7 DEF LeafSigs
      <4>3. l.sig # "none" => (co = Right(l.cosigner) <=> l.sig # "wrong")
        BY <2>2, <3>2, StoredTrue
      <4>4. l.sig = "none" => (co = Right(l.cosigner) <=> true) /\ l.sig # "wrong"
        BY <2>4
      <4>5. SignOver(l.key, Inputs) = Right(l.key) <=> true
        BY <2>4
      <4>6. w.sigs = {Right(l.key), Right(l.cosigner)} <=>
              SignOver(l.key, Inputs) = Right(l.key) /\ co = Right(l.cosigner)
        <5>1. co.by = l.cosigner
          BY DEF Stored, SignOver
        <5>2. SignOver(l.key, Inputs).by = l.key
          BY <2>5
        <5>3. \A k : Right(k).by = k
          OBVIOUS
        <5> HIDE DEF co, Right
        <5>4. ASSUME w.sigs = {Right(l.key), Right(l.cosigner)}
              PROVE  SignOver(l.key, Inputs) = Right(l.key) /\ co = Right(l.cosigner)
          BY <4>2, <5>1, <5>2, <5>3, <5>4
        <5> QED
          BY <4>2, <5>4
      <4> HIDE DEF co
      <4> QED
        BY <3>4, <3>5, <3>7, <4>1, <4>3, <4>4, <4>5, <4>6
    <3>8. CASE l.type \notin {"v2_claim", "claim"}
      <4>1. Asked(i) = {l.key}
        BY <2>7, <3>8 DEF Asked, l, w
      <4>2. w.sigs = {SignOver(l.key, Inputs)}
        BY <3>1, <3>8 DEF LeafSigs
      <4> QED
        BY <2>4, <3>4, <3>5, <3>8, <4>1, <4>2
    <3> QED
      BY <3>6, <3>7, <3>8
  <2> QED
    BY <2>6, <2>7
<1> QED
  BY <1>1, PsbtInvariant, PTL

\* A leaf that could have been signed is never passed over.
THEOREM NoLeafTheorem == Spec => []NoLeafPassedOver
<1>1. ASSUME PsbtInv PROVE NoLeafPassedOver
  <2>1. ASSUME NEW i \in Signed PROVE NoneBefore(i, witnesses[i].leaf)
    BY <1>1 DEF Signed, PsbtInv, Dealt
  <2>2. ASSUME pc = "ok", NEW i \in Inputs \ Signed PROVE NoneAt(i)
    <3>1. i < idx
      BY <1>1, <2>2 DEF PsbtInv, Inputs, TypeOK
    <3> QED
      BY <1>1, <2>2, <3>1 DEF PsbtInv, Dealt, Signed
  <2> QED
    BY <2>1, <2>2 DEF NoLeafPassedOver, NoneBefore, NoneAt
<1> QED
  BY <1>1, PsbtInvariant, PTL

-----------------------------------------------------------------------------
(* The two finalizers.                                                     *)

V2Witness(i) ==
  LET l == psbt[i].leaves[1] IN Witness(1, {Stored(l, l.key)}, NoPreimage)

\* On a PSBT of version 2 claims every input has its one leaf signed by the
\* signature that came with it, and a missing one ends the call.
V2Inv ==
  /\ psbt \in Psbts
  /\ BuiltForV2 =>
       /\ pc = "leaf" => leaf = 1
       /\ \A i \in Inputs :
            i < idx => psbt[i].leaves[1].sig # "none" /\ witnesses[i] = V2Witness(i)
       /\ pc = "error" => \E i \in Inputs : psbt[i].leaves[1].sig = "none"

\* The first version 2 leaf of such an input is its only one.
LEMMA OneV2Leaf ==
  ASSUME PsbtInv, BuiltForV2, NEW i \in Inputs
  PROVE  /\ psbt[i].leaves # <<>> /\ Len(psbt[i].leaves) = 1
         /\ psbt[i].leaves[1].type = "v2_claim"
         /\ Signable(i, 1) /\ i \in WithV2 /\ FirstV2(i) = 1
<1>1. Len(psbt[i].leaves) = 1 /\ i \in WithV2 /\ Signable(i, 1)
  BY DEF BuiltForV2
<1>2. DOMAIN psbt[i].leaves = {1}
  <2>1. psbt[i].leaves \in Seq(Leaf)
    BY InputShape
  <2>2. DOMAIN psbt[i].leaves = 1..1
    BY <1>1, <2>1
  <2>3. 1..1 = {1}
    OBVIOUS
  <2> QED
    BY <2>2, <2>3, Zenon
<1>5. psbt[i].leaves # <<>>
  <2>1. Len(<<>>) = 0
    OBVIOUS
  <2>2. Len(psbt[i].leaves) = 1 /\ 0 # 1
    BY <1>1
  <2> QED
    BY <2>1, <2>2, Zenon
<1>3. V2Leaves(i) = {1}
  BY <1>1, <1>2 DEF WithV2, V2Leaves
<1>4. FirstV2(i) = 1
  BY <1>3 DEF FirstV2
<1> QED
  BY <1>1, <1>3, <1>4, <1>5 DEF V2Leaves

\* Every step of the two loops keeps V2Inv.
LEMMA V2Step ==
  ASSUME PsbtInv, V2Inv, [Next]_vars
  PROVE  V2Inv'
<1>1. psbt' = psbt
  BY DEF Next, vars, given, P2wpkh, TaprootKeyPath, NotSignable, EnterLeaves,
     RefuseLeaf, V2Claim, DualSig, Hashlock, Timelocked, UnknownLeaf,
     LeavesExhausted, Finish, SignInput, SkipInput, NextInput, NextLeaf, Fail
<1>2. (BuiltForV2' <=> BuiltForV2) /\ Inputs' = Inputs
  BY <1>1 DEF BuiltForV2, Inputs, Signable, WithV2, V2Leaves
<1> SUFFICES ASSUME BuiltForV2
             PROVE  /\ pc' = "leaf" => leaf' = 1
                    /\ \A i \in Inputs : i < idx' =>
                         psbt[i].leaves[1].sig # "none" /\ witnesses'[i] = V2Witness(i)
                    /\ pc' = "error" => \E i \in Inputs : psbt[i].leaves[1].sig = "none"
  <2>1. \A i : V2Witness(i)' = V2Witness(i)
    BY <1>1 DEF V2Witness, Stored, AsChain, OtherMessage, Inputs, Witness
  <2> QED
    BY <1>1, <1>2, <2>1 DEF V2Inv
<1>3. /\ Len(psbt) \in Nat /\ idx \in Nat /\ witnesses \in [Inputs -> WitnessSet]
      /\ pc = "leaf" => idx \in Inputs /\ leaf = 1
  BY DEF PsbtInv, TypeOK, Inputs, WitnessSet, V2Inv
<1>4. ASSUME pc = "leaf"
      PROVE  /\ ThisLeaf = psbt[idx].leaves[1] /\ Len(This.leaves) = 1
             /\ ThisLeaf.type = "v2_claim" /\ VerifyLeaf(ThisLeaf)
  BY <1>3, <1>4, OneV2Leaf DEF ThisLeaf, This, VerifyLeaf, Signable
<1>5. ~AtInput({"p2wpkh"}) /\ ~AtInput({"other"})
      /\ ~AtInput({"p2tr_tweaked", "p2tr_untweaked"})
  BY OneV2Leaf DEF AtInput, This
<1>6. CASE EnterLeaves
  BY <1>6 DEF EnterLeaves, V2Inv, given
<1>7. CASE V2Claim
  <2>1. pc = "leaf" /\ idx \in Inputs
    BY <1>3, <1>7 DEF V2Claim, AtLeaf
  <2>2. CASE ThisLeaf.sig # "none"
    <3>1. /\ idx' = idx + 1 /\ pc' = "input"
          /\ witnesses' = [witnesses EXCEPT ![idx] = V2Witness(idx)]
      BY <1>3, <1>4, <1>7, <2>1, <2>2
         DEF V2Claim, SignInput, NextInput, V2Witness
    <3>2. ASSUME NEW i \in Inputs, i < idx'
          PROVE  psbt[i].leaves[1].sig # "none" /\ witnesses'[i] = V2Witness(i)
      <4>1. CASE i = idx
        BY <1>3, <1>4, <2>1, <2>2, <3>1, <4>1
      <4>2. CASE i # idx
        <5>1. i \in Nat /\ i < idx
          BY <1>3, <3>1, <3>2, <4>2 DEF Inputs
        <5>2. witnesses'[i] = witnesses[i]
          BY <1>3, <3>1, <4>2
        <5> QED
          BY <5>1, <5>2 DEF V2Inv
      <4> QED
        BY <4>1, <4>2
    <3> QED
      BY <3>1, <3>2
  <2>3. CASE ThisLeaf.sig = "none"
    <3>1. pc' = "error" /\ idx' = idx /\ witnesses' = witnesses
      BY <1>7, <2>3 DEF V2Claim, Fail
    <3>2. psbt[idx].leaves[1].sig = "none"
      BY <1>4, <2>1, <2>3
    <3> QED
      BY <2>1, <3>1, <3>2 DEF V2Inv
  <2> QED
    BY <2>2, <2>3
<1>8. ~RefuseLeaf /\ ~DualSig /\ ~Hashlock /\ ~Timelocked /\ ~UnknownLeaf
      /\ ~LeavesExhausted
  <2>1. ~AtLeaf("claim") /\ ~AtLeaf("hashlock") /\ ~AtLeaf("timelocked")
        /\ ~AtLeaf("unknown")
    BY <1>4 DEF AtLeaf
  <2>2. ~RefuseLeaf
    BY <1>4 DEF RefuseLeaf
  <2>3. ~LeavesExhausted
    <3> SUFFICES ASSUME pc = "leaf", leaf > Len(This.leaves) PROVE FALSE
      BY DEF LeavesExhausted
    <3>1. leaf = 1 /\ Len(This.leaves) = 1
      BY <1>3, <1>4
    <3> QED
      BY <3>1
  <2> QED
    BY <2>1, <2>2, <2>3 DEF DualSig, Hashlock, Timelocked, UnknownLeaf
<1>9. CASE Finish
  <2>1. Len(psbt) > 0 /\ idx > Len(psbt)
    BY <1>9, PsbtAssumption DEF Finish, V2Inv, PsbtAssumption
  <2>2. 1 \in Inputs /\ 1 < idx
    BY <1>3, <2>1 DEF Inputs
  <2>3. witnesses[1] = V2Witness(1)
    BY <2>2 DEF V2Inv
  <2>4. 1 \in Signed
    BY <2>2, <2>3 DEF Signed, V2Witness, Witness, NoWitness
  <2>5. pc' = "ok" /\ UNCHANGED <<idx, witnesses>>
    BY <1>9, <2>4 DEF Finish
  <2> QED
    BY <2>5 DEF V2Inv
<1>10. CASE UNCHANGED vars
  BY <1>10 DEF vars, V2Inv
<1> QED
  BY <1>5, <1>6, <1>7, <1>8, <1>9, <1>10
     DEF Next, P2wpkh, TaprootKeyPath, NotSignable

\* sign_and_finalize and finalize_presigned_v2_psbt return the same for every
\* PSBT of version 2 claims, whatever key the first is given.
THEOREM FinalizersTheorem == Spec => []FinalizersAgree
<1>1. Init => V2Inv
  <2> SUFFICES ASSUME Init PROVE V2Inv
    OBVIOUS
  <2>1. Len(psbt) \in Nat
    BY PsbtAssumption DEF Init, PsbtAssumption
  <2>2. \A i \in Inputs : ~(i < idx)
    BY <2>1 DEF Init, Inputs
  <2> QED
    BY <2>2 DEF Init, V2Inv
<1>2. ASSUME PsbtInv, V2Inv PROVE FinalizersAgree
  <2> SUFFICES ASSUME BuiltForV2, Returned
               PROVE  /\ pc = "ok" <=> PresignedFinalizes
                      /\ pc = "ok" => witnesses = PresignedWitnesses
    BY DEF FinalizersAgree
  <2>1. Len(psbt) > 0 /\ Len(psbt) \in Nat /\ idx \in Nat
    BY <1>2, PsbtAssumption DEF V2Inv, PsbtInv, PsbtAssumption, TypeOK
  <2>2. 1 \in Inputs
    BY <2>1 DEF Inputs
  <2>3. WithV2 = Inputs
    BY DEF BuiltForV2, WithV2
  <2>4. \A i \in Inputs : FirstV2(i) = 1
    BY <1>2, OneV2Leaf
  <2>5. PresignedFinalizes <=> \A i \in Inputs : psbt[i].leaves[1].sig # "none"
    BY <2>2, <2>3, <2>4 DEF PresignedFinalizes
  <2>6. CASE pc = "ok"
    <3>1. \A i \in Inputs : i < idx
      BY <1>2, <2>1, <2>6 DEF PsbtInv, Inputs
    <3>2. \A i \in Inputs :
            psbt[i].leaves[1].sig # "none" /\ witnesses[i] = V2Witness(i)
      BY <1>2, <3>1 DEF V2Inv
    <3>3. witnesses = [i \in Inputs |-> witnesses[i]]
      BY <1>2 DEF PsbtInv, TypeOK
    <3>4. witnesses = PresignedWitnesses
      BY <2>3, <2>4, <3>2, <3>3 DEF PresignedWitnesses, V2Witness
    <3> QED
      BY <2>5, <2>6, <3>2, <3>4
  <2>7. CASE pc = "error"
    <3>1. ~PresignedFinalizes
      BY <1>2, <2>5, <2>7 DEF V2Inv
    <3> QED
      BY <2>7, <3>1
  <2> QED
    BY <2>6, <2>7 DEF Returned
<1> QED
  BY <1>1, <1>2, V2Step, PsbtInvariant, PTL DEF Spec

=============================================================================
