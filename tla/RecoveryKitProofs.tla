------------------------- MODULE RecoveryKitProofs --------------------------
(***************************************************************************)
(* For every kit, rate, size and dust limit: a transaction the signer      *)
(* builds is sound, a leg is stranded only by its own value, and the menu  *)
(* and the builders agree on the kits that are what the manual says.       *)
(***************************************************************************)
EXTENDS RecoveryKit, TLAPS

\* A transaction at a rate of 1 or more costs at least its size.
LEMMA RateCosts ==
  ASSUME NEW size \in Nat \ {0}, NEW r \in Nat \ {0}
  PROVE  size * r \in Nat /\ size <= size * r
<1>1. PICK n \in Nat : r = n + 1
  BY r - 1 \in Nat
<1>2. size * n \in Nat /\ size * (n + 1) = size * n + size
  BY Z3
<1> QED
  BY <1>1, <1>2

\* The fee of a Taproot spend: enough is left, the rate is respected, and
\* there is none only for a leg that no rate could move.
LEMMA TaprootFeeSound ==
  ASSUME NEW value \in Nat, NEW r \in Nat \ {0}
  PROVE  LET fee == TaprootFee(value, r)
         IN  IF fee = NoFee THEN value < VSize + Dust
             ELSE fee \in Int /\ VSize <= fee /\ fee <= VSize * r /\ value - fee >= Dust
<1>1. VSize * r \in Nat /\ VSize <= VSize * r
  BY RateCosts, KitAssumption DEF KitAssumption
<1> QED
  BY <1>1, KitAssumption DEF KitAssumption, TaprootFee, NoFee

\* The same for the refund of a P2SH leg, which has one try.
LEMMA P2shFeeSound ==
  ASSUME NEW value \in Nat, NEW r \in Nat \ {0}, P2shFee(value, r) # NoFee
  PROVE  LET fee == P2shFee(value, r)
         IN  fee \in Int /\ P2shVSize <= fee /\ fee <= P2shVSize * r
               /\ value - fee >= P2shDust
<1>1. P2shVSize * r \in Nat /\ P2shVSize <= P2shVSize * r
  BY RateCosts, KitAssumption DEF KitAssumption
<1> QED
  BY <1>1, KitAssumption DEF KitAssumption, P2shFee, NoFee

\* With what the manual says it has, an offered leg has all its builder reads.
LEMMA OfferedSuffices ==
  ASSUME kit \in Kit, NEW a \in {"R", "C"}, Documented(LegOf(a)),
         a = "R" => CanRefund, a = "C" => CanClaim
  PROVE  KitSuffices(a)
<1>1. CASE a = "R"
  <2>1. \A f \in {"txid", "descriptor", "tree", "value", "address"} :
          f \notin kit.lacks["a"]
    BY <1>1 DEF LegOf, Documented, CanRefund, Has
  <2> QED
    BY <1>1, <2>1 DEF LegOf, Documented, KitSuffices, RefundKit, P2shRefundKit, Has
<1>2. CASE a = "C"
  <2>1. \A f \in Field : f \notin kit.lacks["b"]
    BY <1>2 DEF LegOf, Documented, CanClaim, Has, Field
  <2>2. \A fields \in SUBSET Field : Has("b", fields)
    BY <2>1 DEF Has
  <2>3. CASE kit.version = 2
    BY <1>2, <2>2, <2>3
    DEF LegOf, Documented, CanClaim, KitSuffices, V2ClaimKit, IsV2, Field
  <2>4. CASE kit.version = 1
    BY <1>2, <2>2, <2>4
    DEF LegOf, Documented, CanClaim, KitSuffices, ClaimKit, IsV2, Field
  <2> QED
    BY <2>3, <2>4 DEF Kit
<1> QED
  BY <1>1, <1>2

\* What a builder would take is offered.
LEMMA SufficientIsOffered ==
  ASSUME kit \in Kit, Coherent(kit), NEW a \in {"R", "C"}, KitSuffices(a)
  PROVE  a \in Options
<1>1. CASE a = "R"
  <2>1. "txid" \notin kit.lacks["a"] /\ "tree" \notin kit.lacks["a"]
    BY <1>1 DEF KitSuffices, RefundKit, P2shRefundKit, Has
  <2>2. "descriptor" \notin kit.lacks["a"]
    BY <2>1 DEF Coherent, Leg
  <2> QED
    BY <1>1, <2>1, <2>2 DEF Options, CanRefund, Has
<1>2. CASE a = "C"
  <2>1. "txid" \notin kit.lacks["b"] /\ "tree" \notin kit.lacks["b"]
    BY <1>2 DEF KitSuffices, ClaimKit, V2ClaimKit, Has
  <2>2. "descriptor" \notin kit.lacks["b"]
    BY <2>1 DEF Coherent, Leg
  <2>3. IF IsV2 THEN kit.secret # "none" ELSE kit.secret = "adaptor"
    BY <1>2 DEF KitSuffices, ClaimKit, V2ClaimKit
  <2>4. CanClaim
    BY <2>1, <2>2, <2>3 DEF CanClaim, Has
  <2> QED
    BY <1>2, <2>4 DEF Options
<1> QED
  BY <1>1, <1>2

\* What is said of the kit stays said of it.
LEMMA KitStays ==
  ASSUME kit' = kit
  PROVE  /\ CanRefund' <=> CanRefund
         /\ CanClaim' <=> CanClaim
         /\ IsV2' <=> IsV2
         /\ Has("b", {"receiver"})' <=> Has("b", {"receiver"})
         /\ \A leg : Documented(leg)' <=> Documented(leg)
         /\ \A a : KitSuffices(a)' <=> KitSuffices(a)
<1> USE DEF Has, IsV2, TimeoutKnown
<1>1. (CanRefund' <=> CanRefund) /\ (CanClaim' <=> CanClaim)
  BY DEF CanRefund, CanClaim
<1>2. \A leg : Documented(leg)' <=> Documented(leg)
  BY DEF Documented
<1>3. /\ RefundKit' <=> RefundKit
      /\ P2shRefundKit' <=> P2shRefundKit
      /\ ClaimKit' <=> ClaimKit
      /\ V2ClaimKit' <=> V2ClaimKit
  BY DEF RefundKit, P2shRefundKit, ClaimKit, V2ClaimKit
<1>4. \A a : KitSuffices(a)' <=> KitSuffices(a)
  BY <1>3 DEF KitSuffices
<1>5. (IsV2' <=> IsV2) /\ (Has("b", {"receiver"})' <=> Has("b", {"receiver"}))
  OBVIOUS
<1> QED
  BY <1>1, <1>2, <1>4, <1>5

\* What the prompts are about was offered by the menu.
Offered ==
  \/ action = "R" /\ CanRefund
  \/ action = "C" /\ CanClaim

\* Until a transaction is built there is none, and what is about to be built
\* was offered.
KitInv ==
  /\ kit \in Kit /\ Coherent(kit) /\ rate \in Nat \ {0}
  /\ pc \in {"summary", "menu", "claimkey", "rate", "build"}
       => tx.kind = "none" /\ reason = "none"
  /\ pc \in {"claimkey", "rate", "build"} => Offered
  /\ pc \in {"key", "signed", "done", "nothing", "crashed"} => reason = "none"
  /\ KitIsEnough /\ SpendIsSound /\ OnlyDustIsStranded

\* What the builder makes of an offered action is sound, and what it refuses
\* lacks something.
LEMMA BuildIsSound ==
  ASSUME KitInv, Build
  PROVE  KitInv'
<1> DEFINE value == kit.value[LegOf(action)]
<1>1. kit \in Kit /\ value \in Nat /\ rate \in Nat \ {0}
  <2>1. kit \in Kit /\ rate \in Nat \ {0}
    BY DEF KitInv
  <2>2. value \in Values
    BY <2>1 DEF Kit, LegOf, Leg
  <2> QED
    BY <2>1, <2>2, KitAssumption DEF KitAssumption
<1>2. Offered /\ action \in {"R", "C"} /\ tx.kind = "none"
  BY DEF KitInv, Build, Offered
<1>3. UNCHANGED <<kit, action, rate>> /\ (ByScriptHash' <=> ByScriptHash)
  BY DEF Build, ByScriptHash
<1>4. Coherent(kit)' /\ kit' \in Kit /\ rate' \in Nat \ {0}
  BY <1>3 DEF KitInv
<1>5. CASE ~KitSuffices(action)
  <2>1. pc' = "failed" /\ reason' = "kit" /\ tx' = tx
    BY <1>5 DEF Build, Fail
  <2>2. ~Documented(LegOf(action))
    BY <1>1, <1>2, <1>5, OfferedSuffices DEF Offered
  <2>3. KitIsEnough'
    BY <1>3, <2>1, <2>2, KitStays DEF KitIsEnough, LegOf
  <2> QED
    BY <1>2, <1>4, <2>1, <2>3 DEF KitInv, SpendIsSound, OnlyDustIsStranded
<1>6. CASE KitSuffices(action) /\ FeeOf(value) = NoFee
  <2>1. pc' = "failed" /\ reason' = "value" /\ tx' = tx
    BY <1>6 DEF Build, Fail
  <2>2. ~ByScriptHash => value < VSize + Dust
    BY <1>1, <1>6, TaprootFeeSound DEF FeeOf
  <2> QED
    BY <1>2, <1>3, <1>4, <2>1, <2>2
    DEF KitInv, KitIsEnough, SpendIsSound, OnlyDustIsStranded
<1>7. CASE KitSuffices(action) /\ FeeOf(value) # NoFee
  <2>1. /\ tx' = Spend(FeeOf(value)) /\ reason' = "none"
        /\ pc' \in {"signed", "key"}
    BY <1>7 DEF Build, KitInv
  <2>2. /\ tx'.kind = "built" /\ tx'.fee = FeeOf(value)
        /\ tx'.out = value - FeeOf(value)
    BY <2>1 DEF Spend
  <2>3. SpendIsSound'
    <3>1. CASE ByScriptHash
      BY <1>1, <1>3, <1>7, <2>2, <3>1, P2shFeeSound DEF SpendIsSound, FeeOf
    <3>2. CASE ~ByScriptHash
      BY <1>1, <1>3, <1>7, <2>2, <3>2, TaprootFeeSound DEF SpendIsSound, FeeOf
    <3> QED
      BY <3>1, <3>2
  <2> QED
    BY <1>3, <1>4, <2>1, <2>3 DEF KitInv, KitIsEnough, OnlyDustIsStranded
<1> QED
  BY <1>5, <1>6, <1>7

\* What the menu takes was offered, and what it refuses no builder would take.
LEMMA ChoiceIsSound ==
  ASSUME KitInv, NEW a \in Action, Choose(a)
  PROVE  KitInv'
<1>1. /\ pc = "menu" /\ kit' = kit /\ rate' = rate /\ action' = a
      /\ tx.kind = "none" /\ reason = "none"
  BY DEF Choose, KitInv
<1>2. kit \in Kit /\ Coherent(kit) /\ rate \in Nat \ {0}
  BY DEF KitInv
<1>3. CASE a \notin Options
  <2>1. pc' = "failed" /\ reason' = "choice" /\ tx' = tx
    BY <1>3 DEF Choose, Fail
  <2>2. a \in {"R", "C"} => ~KitSuffices(a)
    BY <1>2, <1>3, SufficientIsOffered
  <2>3. KitIsEnough'
    BY <1>1, <2>1, <2>2, KitStays DEF KitIsEnough
  <2> QED
    BY <1>1, <1>2, <2>1, <2>3 DEF KitInv, SpendIsSound, OnlyDustIsStranded
<1>4. CASE a \in Options /\ a = "C" /\ IsV2 /\ ~Has("b", {"receiver"})
  <2>1. pc' = "failed" /\ reason' = "kit" /\ tx' = tx
    BY <1>4 DEF Choose, Fail
  <2>2. ~Documented("b")
    BY <1>4 DEF Documented, Has
  <2>3. LegOf("C") = "b"
    BY DEF LegOf
  <2>4. Documented("b")' <=> Documented("b")
    BY <1>1, KitStays
  <2>5. KitIsEnough'
    BY <1>1, <1>4, <2>1, <2>2, <2>4 DEF KitIsEnough, LegOf
  <2> QED
    BY <1>1, <1>2, <2>1, <2>5 DEF KitInv, SpendIsSound, OnlyDustIsStranded
<1>5. CASE a \in Options /\ ~(a = "C" /\ IsV2 /\ ~Has("b", {"receiver"}))
  <2>1. /\ reason' = "none"
        /\ tx' \in {NoTx, Prebuilt(a)}
        /\ pc' \in IF a \in {"SR", "SC"} THEN {"key"} ELSE {"claimkey", "rate"}
    <3>1. /\ pc' = CASE a \in {"SR", "SC"}       -> "key"
                     [] a = "C" /\ AsksClaimKey -> "claimkey"
                     [] OTHER                   -> "rate"
          /\ tx' = IF a \in {"SR", "SC"} THEN Prebuilt(a) ELSE NoTx
          /\ reason' = reason
      BY <1>5 DEF Choose
    <3> QED
      BY <1>1, <3>1
  <2>2. tx'.kind \in {"none", "prebuilt"} /\ (a \in {"R", "C"} => tx'.kind = "none")
    <3>1. tx' = IF a \in {"SR", "SC"} THEN Prebuilt(a) ELSE NoTx
      BY <1>5 DEF Choose
    <3> QED
      BY <3>1 DEF NoTx, Prebuilt
  <2>3. a \in {"R", "C"} => Offered'
    <3>1. a = "R" => CanRefund
      BY <1>2, <1>5 DEF Options, Kit
    <3>2. a = "C" => CanClaim
      BY <1>2, <1>5 DEF Options, Kit
    <3> QED
      BY <1>1, <3>1, <3>2, KitStays DEF Offered
  <2> QED
    BY <1>1, <1>2, <2>1, <2>2, <2>3
    DEF KitInv, KitIsEnough, SpendIsSound, OnlyDustIsStranded, Action
<1> QED
  BY <1>3, <1>4, <1>5

\* Every step of a sitting keeps the invariant.
LEMMA KitStep ==
  ASSUME KitInv, [Next]_vars
  PROVE  KitInv'
<1> SUFFICES ASSUME kit' = kit, ~Build, ~\E a \in Action : Choose(a)
             PROVE  KitInv'
  BY BuildIsSound, ChoiceIsSound
  DEF Next, vars, ShowSummary, Leave, EnterClaimKey, EnterKey, EnterRate, Finish
<1>1. /\ Offered' <=> (action' = "R" /\ CanRefund) \/ (action' = "C" /\ CanClaim)
      /\ kit' \in Kit /\ Coherent(kit)'
  BY KitStays DEF Offered, KitInv
<1>2. action' = action => (KitIsEnough' <=> (
        /\ reason' = "kit" => ~Documented(LegOf(action))
        /\ reason' = "choice" /\ action \in {"R", "C"} => ~KitSuffices(action)))
  BY KitStays DEF KitIsEnough, LegOf
<1> USE DEF KitInv, Offered, KitIsEnough, SpendIsSound, OnlyDustIsStranded,
            ByScriptHash, Fail
<1>3. CASE ShowSummary
  BY <1>1, <1>2, <1>3 DEF ShowSummary
<1>4. CASE Leave
  BY <1>1, <1>2, <1>4 DEF Leave
<1>5. ASSUME NEW k \in Keys, EnterClaimKey(k) PROVE KitInv'
  BY <1>1, <1>2, <1>5 DEF EnterClaimKey
<1>6. ASSUME NEW typed \in Rates \cup {0}, EnterRate(typed) PROVE KitInv'
  <2>1. rate' \in Nat \ {0}
    <3>1. typed > 0 => typed \in Nat \ {0}
      BY KitAssumption DEF KitAssumption
    <3>2. DefaultRate \in Nat \ {0} /\ rate' = RateOf(typed)
      BY <1>6, KitAssumption DEF EnterRate, KitAssumption
    <3> QED
      BY <3>1, <3>2 DEF RateOf
  <2> QED
    BY <1>1, <1>2, <1>6, <2>1 DEF EnterRate
<1>7. ASSUME NEW k \in Keys, EnterKey(k) PROVE KitInv'
  BY <1>1, <1>2, <1>7 DEF EnterKey, Refuses
<1>8. CASE Finish
  BY <1>1, <1>2, <1>8 DEF Finish
<1>9. CASE UNCHANGED vars
  BY <1>1, <1>2, <1>9 DEF vars
<1> QED
  BY <1>3, <1>4, <1>5, <1>6, <1>7, <1>8, <1>9 DEF Next

\* The invariant holds throughout every sitting.
THEOREM KitInvariant == Spec => []KitInv
<1>1. Init => KitInv
  BY KitAssumption DEF Init, KitInv, KitIsEnough, SpendIsSound,
     OnlyDustIsStranded, NoTx, KitAssumption
<1> QED
  BY <1>1, KitStep, PTL DEF Spec

\* Types: every way through the prompts stays among the modelled states, and
\* the rate that is used is one the user typed or the default.
THEOREM KitTypeOK == Spec => []TypeOK
<1>1. Init => TypeOK
  BY KitAssumption DEF Init, TypeOK, KitAssumption
<1>2. ASSUME TypeOK, [Next]_vars PROVE TypeOK'
  <2> USE <1>2 DEF TypeOK, Fail
  <2>1. CASE ShowSummary
    BY <2>1 DEF ShowSummary
  <2>2. CASE Leave
    BY <2>2 DEF Leave
  <2>3. ASSUME NEW a \in Action, Choose(a) PROVE TypeOK'
    <3>1. a \in Action /\ action' = a /\ UNCHANGED <<kit, rate>>
      BY <2>3 DEF Choose
    <3>2. pc' \in {"failed", "key", "claimkey", "rate"}
          /\ reason' \in {"choice", "kit", reason}
      BY <2>3 DEF Choose
    <3> QED
      BY <3>1, <3>2
  <2>4. ASSUME NEW k \in Keys, EnterClaimKey(k) PROVE TypeOK'
    BY <2>4 DEF EnterClaimKey
  <2>5. ASSUME NEW typed \in Rates \cup {0}, EnterRate(typed) PROVE TypeOK'
    <3>1. RateOf(typed) \in Rates \cup {DefaultRate}
      BY DEF RateOf
    <3> QED
      BY <2>5, <3>1 DEF EnterRate
  <2>6. CASE Build
    BY <2>6 DEF Build
  <2>7. ASSUME NEW k \in Keys, EnterKey(k) PROVE TypeOK'
    BY <2>7 DEF EnterKey, Refuses
  <2>8. CASE Finish
    BY <2>8 DEF Finish
  <2>9. CASE UNCHANGED vars
    BY <2>9 DEF vars
  <2> QED
    BY <2>1, <2>2, <2>3, <2>4, <2>5, <2>6, <2>7, <2>8, <2>9 DEF Next
<1> QED
  BY <1>1, <1>2, PTL DEF Spec

\* A builder refuses an offered leg for what the kit lacks only if that is
\* something the manual says every kit has; what the menu does not offer no
\* builder would take.
THEOREM MenuAgreesWithBuilders == Spec => []KitIsEnough
<1>1. KitInv => KitIsEnough
  BY DEF KitInv
<1> QED
  BY <1>1, KitInvariant, PTL

\* Every transaction built conserves the leg's value, leaves an output above
\* the dust limit and pays between the minimal and the asked rate.
THEOREM SpendTheorem == Spec => []SpendIsSound
<1>1. KitInv => SpendIsSound
  BY DEF KitInv
<1> QED
  BY <1>1, KitInvariant, PTL

\* No rate a user can type strands a Taproot leg that another would move.
THEOREM StrandedTheorem == Spec => []OnlyDustIsStranded
<1>1. KitInv => OnlyDustIsStranded
  BY DEF KitInv
<1> QED
  BY <1>1, KitInvariant, PTL

=============================================================================
