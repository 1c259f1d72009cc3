----------------------------- MODULE SwapProofs -----------------------------
(***************************************************************************)
(* Proofs about the swap for every timeout, gap, drift, delay and set of   *)
(* fee rates that SafeSetup admits.                                        *)
(***************************************************************************)
EXTENDS SafeSwap, TLAPS

\* The two roles, by case.
LEMMA OtherFacts ==
  /\ \A r \in Role : Other(r) \in Role /\ Other(Other(r)) = r /\ Other(r) # r
  /\ Other("holder") = "follower" /\ Other("follower") = "holder"
  /\ "holder" \in Role /\ "follower" \in Role /\ "holder" # "follower"
BY DEF Other, Role

\* What the assumptions on the constants say of the two timeouts.
LEMMA TimeoutFacts ==
  /\ Timeout["holder"] = HolderTimeout
  /\ Timeout["follower"] = FollowerTimeout
  /\ HolderTimeout \in Nat /\ FollowerTimeout \in Nat
  /\ \A r \in Role : Timeout[r] \in Nat
BY ConstantsAssumption DEF ConstantsAssumption, Timeout, Role

\* Every variable starts with its type.
LEMMA InitTypeOK == Init => TypeOK
<1> SUFFICES ASSUME Init PROVE TypeOK
  OBVIOUS
<1>1. NoSpend \in [kind : {"none", "refund", "claim"}, rate : FeeRates]
  BY ConstantsAssumption DEF ConstantsAssumption, NoSpend
<1>2. EmptyKit \in [own : BOOLEAN, incoming : BOOLEAN, secret : BOOLEAN]
  BY DEF EmptyKit
<1>3. /\ spend \in [Role -> [kind : {"none", "refund", "claim"}, rate : FeeRates]]
      /\ kit \in [Role -> [own : BOOLEAN, incoming : BOOLEAN, secret : BOOLEAN]]
  BY <1>1, <1>2 DEF Init
<1>4. /\ height \in [Role -> Nat]
      /\ funding \in [Role -> {"none", "mempool", "confirmed", "replaced"}]
      /\ signedClaim \in [Role -> SUBSET FeeRates]
      /\ seenAt \in Nat
  BY DEF Init
<1>5. /\ mined \in SUBSET Role /\ signedRefund \in SUBSET Role
      /\ presigned \in SUBSET Role
      /\ point \in BOOLEAN /\ revealed \in BOOLEAN
  BY DEF Init
<1> QED
  BY <1>3, <1>4, <1>5 DEF TypeOK

\* A saved kit is a record of three truth values.
LEMMA SavedKitType ==
  ASSUME TypeOK, NEW r \in Role
  PROVE  SavedKit(r) \in [own : BOOLEAN, incoming : BOOLEAN, secret : BOOLEAN]
<1>1. Funded(r) \in BOOLEAN /\ Funded(Other(r)) \in BOOLEAN
  BY DEF Funded
<1>2. SecretFor(r) \in BOOLEAN
  BY DEF SecretFor, TypeOK
<1> QED
  BY <1>1, <1>2 DEF SavedKit

\* Every step keeps the type of every variable.
LEMMA NextTypeOK == TypeOK /\ [Next]_vars => TypeOK'
<1> SUFFICES ASSUME TypeOK, [Next]_vars PROVE TypeOK'
  OBVIOUS
<1> USE ConstantsAssumption DEF ConstantsAssumption
<1>1. CASE UNCHANGED vars
  BY <1>1 DEF vars, TypeOK
<1>2. CASE PublishPoint
  BY <1>2 DEF PublishPoint, TypeOK
<1>3. CASE ExtractSecret
  BY <1>3 DEF ExtractSecret, TypeOK
<1>4. ASSUME NEW r \in Role, External(r) PROVE TypeOK'
  <2>1. CASE Fund(r)
    BY <2>1 DEF Fund, TypeOK
  <2>2. CASE ConfirmFunding(r)
    BY <2>2 DEF ConfirmFunding, TypeOK
  <2>3. CASE ReplaceFunding(r)
    BY <2>3 DEF ReplaceFunding, TypeOK, NoSpend
  <2>4. CASE SaveKit(r)
    BY <2>4, SavedKitType DEF SaveKit, TypeOK
  <2>5. CASE PublishPresignature(r)
    BY <2>5 DEF PublishPresignature, TypeOK
  <2>6. CASE Mine(r)
    BY <2>6 DEF Mine, TypeOK
  <2>7. CASE Tick(r)
    BY <2>7 DEF Tick, TypeOK
  <2> QED
    BY <1>4, <2>1, <2>2, <2>3, <2>4, <2>5, <2>6, <2>7 DEF External
<1>5. ASSUME NEW r \in Role, Signer(r) PROVE TypeOK'
  <2>1. CASE SignRefund(r)
    BY <2>1 DEF SignRefund, TypeOK
  <2>2. CASE BroadcastRefund(r)
    BY <2>2 DEF BroadcastRefund, TypeOK, Refund
  <2>3. ASSUME NEW rate \in FeeRates, SignClaim(r, rate) PROVE TypeOK'
    BY <2>3, OtherFacts DEF SignClaim, TypeOK
  <2>4. ASSUME NEW rate \in FeeRates, BroadcastClaim(r, rate) PROVE TypeOK'
    <3>1. seenAt' \in Nat
      BY <2>4, OtherFacts DEF BroadcastClaim, TypeOK
    <3> QED
      BY <3>1, <2>4, OtherFacts DEF BroadcastClaim, TypeOK, Claim
  <2> QED
    BY <1>5, <2>1, <2>2, <2>3, <2>4 DEF Signer
<1> QED
  BY <1>1, <1>2, <1>3, <1>4, <1>5 DEF Next

\* Every variable of the swap keeps its type.
THEOREM SwapTypeOK == SafeSpec => []TypeOK
<1>1. Init => TypeOK
  BY InitTypeOK
<1>2. TypeOK /\ [Next]_vars => TypeOK'
  BY NextTypeOK
<1> QED
  BY <1>1, <1>2, PTL DEF SafeSpec

-----------------------------------------------------------------------------
\* The invariant holds before anything is funded, claimed or signed.
LEMMA InitCore == Init => Core
<1> SUFFICES ASSUME Init PROVE Core
  OBVIOUS
<1> USE OtherFacts, TimeoutFacts, ConstantsAssumption
    DEF ConstantsAssumption, Init, Spent, Unspent, NoSpend, EmptyKit
<1>1. HolderSecretIsGated /\ ClaimIsExtractable /\ FollowerSecretIsExtracted
  BY DEF HolderSecretIsGated, ClaimIsExtractable, FollowerSecretIsExtracted
<1>2. HeightsAreClose
  BY DEF HeightsAreClose
<1>3. FollowerIsInTime /\ HolderTimeoutIsAhead
  BY DEF FollowerIsInTime, HolderTimeoutIsAhead, Accepts, Replaceable, Funded
<1>4. RefundIsDue /\ SpendsNeedFunding
  BY DEF RefundIsDue, SpendsNeedFunding
<1> QED
  BY <1>1, <1>2, <1>3, <1>4 DEF Core

\* The invariant through the steps of the relay, the chains and the clock.
LEMMA ExternalCore ==
  ASSUME TypeOK, Core, NEW r \in Role, External(r)
  PROVE  Core'
<1> USE OtherFacts, TimeoutFacts, ConstantsAssumption, SafeSetup
    DEF ConstantsAssumption, TypeOK, Core, Spent, Unspent, Funded, Accepts,
        Replaceable, Eligible, BothConfirmed, HolderSecretIsGated, ClaimIsExtractable,
        FollowerSecretIsExtracted, HeightsAreClose, FollowerIsInTime,
        HolderTimeoutIsAhead, RefundIsDue, SpendsNeedFunding
<1>1. CASE Fund(r)
  BY <1>1 DEF Fund
<1>2. CASE ConfirmFunding(r)
  BY <1>2 DEF ConfirmFunding
<1>3. CASE ReplaceFunding(r)
  BY <1>3 DEF ReplaceFunding, NoSpend
<1>4. CASE SaveKit(r)
  BY <1>4 DEF SaveKit, SavedKit, SecretFor
<1>5. CASE PublishPresignature(r)
  BY <1>5 DEF PublishPresignature
<1>6. CASE Mine(r)
  BY <1>6 DEF Mine
<1>7. CASE Tick(r)
  BY <1>7 DEF Tick, RefundOverdue, ClaimOverdue, Extractable
<1> QED
  BY <1>1, <1>2, <1>3, <1>4, <1>5, <1>6, <1>7 DEF External

\* The invariant through what the parties sign and broadcast.
LEMMA SignerCore ==
  ASSUME TypeOK, Core, NEW r \in Role, Signer(r)
  PROVE  Core'
<1> USE OtherFacts, TimeoutFacts, ConstantsAssumption, SafeSetup
    DEF ConstantsAssumption, TypeOK, Core, Spent, Unspent, Funded, Accepts,
        Replaceable, Eligible, BothConfirmed, HolderSecretIsGated, ClaimIsExtractable,
        FollowerSecretIsExtracted, HeightsAreClose, FollowerIsInTime,
        HolderTimeoutIsAhead, RefundIsDue, SpendsNeedFunding
<1>1. CASE SignRefund(r)
  BY <1>1 DEF SignRefund
<1>2. CASE BroadcastRefund(r)
  <2>1. CASE r = "holder"
    \* The timeout has passed, so the follower's leg is not claimed.
    <3>1. ~Spent("follower", "claim")
      BY <1>2, <2>1 DEF BroadcastRefund
    <3> QED
      BY <1>2, <2>1, <3>1 DEF BroadcastRefund, Refund
  <2>2. CASE r = "follower"
    BY <1>2, <2>2 DEF BroadcastRefund, Refund
  <2> QED
    BY <2>1, <2>2 DEF Role
<1>3. ASSUME NEW rate \in FeeRates, SignClaim(r, rate) PROVE Core'
  BY <1>3 DEF SignClaim, CanClaim, ClaimRates
<1>4. ASSUME NEW rate \in FeeRates, BroadcastClaim(r, rate) PROVE Core'
  <2>1. CASE r = "holder"
    \* The follower's leg is open, hence its timeout fresh, hence the
    \* holder's own leg not yet refundable, let alone refunded.
    <3>1. rate = RelayFeeRate /\ Eligible
      BY <1>4, <2>1 DEF BroadcastClaim
    <3>2. height["holder"] <= FollowerTimeout + Delay + MaxDrift
      BY <1>4, <2>1 DEF BroadcastClaim
    <3>3. ~Spent("holder", "refund") /\ ~Spent("holder", "claim")
      BY <1>4, <2>1, <3>2 DEF BroadcastClaim
    <3> QED
      BY <1>4, <2>1, <3>1, <3>2, <3>3 DEF BroadcastClaim, Claim
  <2>2. CASE r = "follower"
    <3>1. revealed /\ Spent("follower", "claim")
      BY <1>4, <2>2 DEF BroadcastClaim
    <3> QED
      BY <1>4, <2>2, <3>1 DEF BroadcastClaim, Claim
  <2> QED
    BY <2>1, <2>2 DEF Role
<1> QED
  BY <1>1, <1>2, <1>3, <1>4 DEF Signer

\* The invariant is inductive.
LEMMA NextCore == TypeOK /\ Core /\ [Next]_vars => Core'
<1> SUFFICES ASSUME TypeOK, Core, [Next]_vars PROVE Core'
  OBVIOUS
<1> USE DEF TypeOK, Core, Spent, Unspent, Funded, Accepts, Replaceable, Eligible,
            BothConfirmed, HolderSecretIsGated, ClaimIsExtractable,
            FollowerSecretIsExtracted, HeightsAreClose, FollowerIsInTime,
            HolderTimeoutIsAhead, RefundIsDue, SpendsNeedFunding
<1>1. CASE UNCHANGED vars
  BY <1>1 DEF vars
<1>2. CASE PublishPoint
  BY <1>2 DEF PublishPoint
<1>3. CASE ExtractSecret
  BY <1>3 DEF ExtractSecret, Extractable
<1> QED
  BY <1>1, <1>2, <1>3, ExternalCore, SignerCore DEF Next

\* IInv holds in every reachable state: it is inductive.
THEOREM SwapInvariant == SafeSpec => []IInv
<1>1. Init => IInv
  BY InitTypeOK, InitCore DEF IInv
<1>2. IInv /\ [Next]_vars => IInv'
  BY NextTypeOK, NextCore DEF IInv
<1> QED
  BY <1>1, <1>2, PTL DEF SafeSpec

-----------------------------------------------------------------------------
\* No party ends with both legs, for every setup SafeSetup admits.
THEOREM SwapAtomicity == SafeSpec => []Atomicity
<1>1. IInv => Atomicity
  BY OtherFacts
     DEF IInv, Core, Atomicity, Role, FollowerSecretIsExtracted,
         HolderTimeoutIsAhead, Spent
<1> QED
  BY <1>1, SwapInvariant, PTL

\* The follower's claim never comes before the holder's.
THEOREM SwapHolderClaimsFirst == SafeSpec => []HolderClaimsFirst
<1>1. IInv => HolderClaimsFirst
  BY DEF IInv, Core, FollowerSecretIsExtracted, HolderClaimsFirst
<1> QED
  BY <1>1, SwapInvariant, PTL

\* Every accepted claim of the holder gives the follower t.
THEOREM SwapClaimRevealsSecret == SafeSpec => []ClaimRevealsSecret
<1>1. IInv => ClaimRevealsSecret
  BY OtherFacts
     DEF IInv, Core, ClaimIsExtractable, ClaimRevealsSecret, Extractable, Eligible
<1> QED
  BY <1>1, SwapInvariant, PTL

\* No claim rests on a funding that is not confirmed.
THEOREM SwapConfirmationGate == SafeSpec => []ConfirmationGate
<1>1. IInv => ConfirmationGate
  BY DEF IInv, Core, ClaimIsExtractable, FollowerSecretIsExtracted, Eligible,
         ConfirmationGate, Role
<1> QED
  BY <1>1, SwapInvariant, PTL

\* An accepted claim is never displaced, nor is anything that is mined.
THEOREM SwapSpendsAreFinal == SafeSpec => SpendsAreFinal
<1> DEFINE Final == \A r \in Role : Spent(r, "claim") \/ r \in mined
                                     => spend'[r] = spend[r]
<1>1. IInv /\ [Next]_vars => [Final]_vars
  <2> SUFFICES ASSUME IInv, Next, NEW q \in Role, Spent(q, "claim") \/ q \in mined
               PROVE  spend'[q] = spend[q]
    OBVIOUS
  <2>1. funding[q] = "confirmed" /\ ~Unspent(q)
    BY OtherFacts
       DEF IInv, Core, ClaimIsExtractable, FollowerSecretIsExtracted, Role,
           SpendsNeedFunding, Eligible, BothConfirmed, Spent, Unspent
  <2> USE OtherFacts DEF IInv, TypeOK
  <2>2. CASE PublishPoint \/ ExtractSecret
    BY <2>2 DEF PublishPoint, ExtractSecret
  <2>3. ASSUME NEW r \in Role, External(r) PROVE spend'[q] = spend[q]
    BY <2>1, <2>3 DEF External, Fund, ConfirmFunding, ReplaceFunding, SaveKit,
                      PublishPresignature, Mine, Tick
  <2>4. ASSUME NEW r \in Role, Signer(r) PROVE spend'[q] = spend[q]
    BY <2>1, <2>4 DEF Signer, SignRefund, SignClaim, BroadcastRefund,
                      BroadcastClaim, Accepts, Replaceable
  <2> QED
    BY <2>2, <2>3, <2>4 DEF Next
<1> QED
  BY <1>1, SwapInvariant, PTL DEF SafeSpec, SpendsAreFinal

-----------------------------------------------------------------------------
(* The swap implements the exchange (its safety part).                     *)

\* How the abstract state of a leg follows from its funding and its spend.
LEMMA ExchangeStates ==
  ASSUME TypeOK, NEW r \in Role
  PROVE  /\ ExchangeLeg[r] = ExchangeState(r)
         /\ ExchangeState(r) = "absent" <=> funding[r] = "none"
         /\ ExchangeState(r) = "locked" <=> Accepts(r)
         /\ Funded(r) => (ExchangeState(r) = "claimed" <=> Spent(r, "claim"))
         /\ Funded(r) => (ExchangeState(r) = "refunded" <=> Spent(r, "refund"))
         /\ funding[r] = "replaced" => ExchangeState(r) = "refunded"
BY DEF ExchangeLeg, ExchangeState, TypeOK, Accepts, Replaceable, Funded, Unspent,
       Spent

\* A step that moves no funding and no spend is a stutter of the exchange.
LEMMA ExchangeUnchanged ==
  UNCHANGED <<funding, spend>> => UNCHANGED ExchangeLeg
BY DEF ExchangeLeg, ExchangeState, Spent

\* A step that touches one leg only changes that leg's state.
LEMMA ExchangeOneLeg ==
  ASSUME TypeOK, NEW r \in Role,
         \A q \in Role \ {r} : funding'[q] = funding[q] /\ spend'[q] = spend[q]
  PROVE  /\ ExchangeLeg' = [ExchangeLeg EXCEPT ![r] = ExchangeState(r)']
         /\ ExchangeState(r)' = ExchangeState(r) => UNCHANGED ExchangeLeg
<1>1. ExchangeLeg' = [ExchangeLeg EXCEPT ![r] = ExchangeState(r)']
  <2>1. \A q \in Role \ {r} : ExchangeState(q)' = ExchangeState(q)
    BY DEF ExchangeState, Spent
  <2>2. /\ ExchangeLeg = [q \in Role |-> ExchangeState(q)]
        /\ ExchangeLeg' = [q \in Role |-> ExchangeState(q)']
    BY DEF ExchangeLeg, ExchangeState, Spent
  <2> QED
    BY <2>1, <2>2
<1>2. ASSUME ExchangeState(r)' = ExchangeState(r) PROVE ExchangeLeg' = ExchangeLeg
  <2>1. \A q \in Role : ExchangeState(q)' = ExchangeState(q)
    BY <1>2 DEF ExchangeState, Spent
  <2> QED
    BY <2>1 DEF ExchangeLeg
<1> QED
  BY <1>1, <1>2

\* Every step of the swap maps to a step of the exchange or to a stutter.
LEMMA ExchangeStep == IInv /\ [Next]_vars => [Exchange!Next]_ExchangeLeg
<1> SUFFICES ASSUME IInv, [Next]_vars
             PROVE  Exchange!Next \/ UNCHANGED ExchangeLeg
  BY Zenon
<1> USE OtherFacts, ExchangeStates DEF IInv
<1>r. Exchange!Role = Role
  BY DEF Exchange!Role, Role
<1>1. CASE UNCHANGED vars \/ PublishPoint \/ ExtractSecret
  BY <1>1, ExchangeUnchanged DEF vars, PublishPoint, ExtractSecret
<1>2. ASSUME NEW r \in Role, External(r)
      PROVE  Exchange!Next \/ UNCHANGED ExchangeLeg
  <2>1. CASE Fund(r)
    <3>1. ExchangeLeg' = [ExchangeLeg EXCEPT ![r] = ExchangeState(r)']
      BY <2>1, ExchangeOneLeg DEF Fund, TypeOK
    <3>2. ExchangeState(r)' = "locked"
      BY <2>1 DEF Fund, ExchangeState, TypeOK, Core, SpendsNeedFunding, Spent, Unspent
    <3>3. Exchange!Lock(r)
      BY <2>1, <3>1, <3>2 DEF Exchange!Lock, Fund, Accepts, Replaceable
    <3> QED
      BY <3>3, <1>r DEF Exchange!Next
  <2>2. CASE ConfirmFunding(r)
    <3>1. ExchangeState(r)' = ExchangeState(r)
      BY <2>2 DEF ConfirmFunding, ExchangeState, TypeOK, Spent
    <3> QED
      BY <2>2, <3>1, ExchangeOneLeg DEF ConfirmFunding, TypeOK
  <2>3. CASE ReplaceFunding(r)
    <3>1. ExchangeLeg' = [ExchangeLeg EXCEPT ![r] = ExchangeState(r)']
      BY <2>3, ExchangeOneLeg DEF ReplaceFunding, TypeOK
    <3>2. ExchangeState(r)' = "refunded"
      BY <2>3 DEF ReplaceFunding, ExchangeState, TypeOK
    \* Nothing is claimed while a funding can still be replaced.
    <3>3. /\ ~Spent("follower", "claim")
          /\ ExchangeState(r) \in {"locked", "refunded"}
      BY <2>3 DEF ReplaceFunding, Core, ClaimIsExtractable, Eligible, BothConfirmed,
                  FollowerSecretIsExtracted, TypeOK, ExchangeState, Spent, Role
    <3>4. ~Exchange!Committed
      BY <3>3 DEF Exchange!Committed, ExchangeState, ExchangeLeg
    <3>5. CASE ExchangeState(r) = "locked"
      BY <3>1, <3>2, <3>4, <3>5, <1>r DEF Exchange!Withdraw, Exchange!Next
    <3>6. CASE ExchangeState(r) = "refunded"
      BY <2>3, <3>2, <3>6, ExchangeOneLeg DEF ReplaceFunding, TypeOK
    <3> QED
      BY <3>3, <3>5, <3>6
  <2>4. CASE SaveKit(r) \/ PublishPresignature(r) \/ Mine(r) \/ Tick(r)
    BY <2>4, ExchangeUnchanged DEF SaveKit, PublishPresignature, Mine, Tick
  <2> QED
    BY <1>2, <2>1, <2>2, <2>3, <2>4 DEF External
<1>3. ASSUME NEW r \in Role, Signer(r)
      PROVE  Exchange!Next \/ UNCHANGED ExchangeLeg
  <2>1. CASE SignRefund(r)
    BY <2>1, ExchangeUnchanged DEF SignRefund
  <2>2. ASSUME NEW rate \in FeeRates, SignClaim(r, rate)
        PROVE  UNCHANGED ExchangeLeg
    BY <2>2, ExchangeUnchanged DEF SignClaim
  <2>3. CASE BroadcastRefund(r)
    <3>1. ExchangeLeg' = [ExchangeLeg EXCEPT ![r] = ExchangeState(r)']
      BY <2>3, ExchangeOneLeg DEF BroadcastRefund, TypeOK
    <3>2. ExchangeState(r)' = "refunded"
      BY <2>3 DEF BroadcastRefund, Accepts, Replaceable, Funded,
            ExchangeState, TypeOK, Spent,
                  Refund
    <3>3. ~Spent("follower", "claim")
      <4>1. CASE r = "follower"
        BY <2>3, <4>1 DEF BroadcastRefund, Accepts, Replaceable, Spent, Unspent
      <4>2. CASE r = "holder"
        BY <2>3, <4>2, SafeSetup, ConstantsAssumption, TimeoutFacts
           DEF ConstantsAssumption, BroadcastRefund, TypeOK, Core,
               HolderTimeoutIsAhead
      <4> QED
        BY <4>1, <4>2 DEF Role
    <3>4. ~Exchange!Committed
      BY <3>3 DEF Exchange!Committed, ExchangeState, ExchangeLeg
    <3>5. ExchangeLeg[r] = "locked"
      BY <2>3 DEF BroadcastRefund
    <3> QED
      BY <3>1, <3>2, <3>4, <3>5, <1>r DEF Exchange!Withdraw, Exchange!Next
  <2>4. ASSUME NEW rate \in FeeRates, BroadcastClaim(r, rate)
        PROVE  Exchange!Next
    <3>1. ExchangeLeg' = [ExchangeLeg EXCEPT ![Other(r)] = ExchangeState(Other(r))']
      BY <2>4, ExchangeOneLeg DEF BroadcastClaim, TypeOK
    <3>2. ExchangeState(Other(r))' = "claimed"
      BY <2>4 DEF BroadcastClaim, Accepts, Replaceable, Funded,
            ExchangeState, TypeOK, Spent, Claim
    <3>3. ExchangeLeg[Other(r)] = "locked"
      BY <2>4 DEF BroadcastClaim
    <3>4. CASE r = "holder"
      \* The commit: the holder's own leg is still locked.
      <4>1. Funded("holder") /\ Accepts("follower")
        BY <2>4, <3>4 DEF BroadcastClaim, Core, HolderSecretIsGated, Eligible,
                          BothConfirmed, Funded
      <4>2. ~Spent("holder", "claim")
        BY <4>1 DEF Core, FollowerSecretIsExtracted, Accepts, Replaceable,
              Spent, Unspent
      <4>3. ~Spent("holder", "refund")
        BY <4>1, SafeSetup, ConstantsAssumption, TimeoutFacts
           DEF ConstantsAssumption, TypeOK, Core, RefundIsDue, FollowerIsInTime,
               HeightsAreClose
      <4>4. Accepts("holder")
        BY <4>1, <4>2, <4>3 DEF Accepts, Replaceable, Unspent, Spent, TypeOK
      <4>5. ExchangeLeg = [q \in Role |-> "locked"]
        BY <3>3, <3>4, <4>4 DEF ExchangeLeg, Role
      <4> QED
        BY <3>1, <3>2, <3>4, <4>5, <1>r DEF Exchange!Commit, Exchange!Next
    <3>5. CASE r = "follower"
      <4>1. Spent("follower", "claim") /\ Eligible
        BY <2>4, <3>5 DEF BroadcastClaim, Core, FollowerSecretIsExtracted,
                          ClaimIsExtractable
      <4>2. Exchange!Committed
        BY <4>1 DEF Exchange!Committed, Eligible, BothConfirmed, Funded
      <4> QED
        BY <3>1, <3>2, <3>3, <3>5, <4>2 DEF Exchange!Complete, Exchange!Next
    <3> QED
      BY <3>4, <3>5 DEF Role
  <2> QED
    BY <1>3, <2>1, <2>2, <2>3, <2>4 DEF Signer
<1> QED
  BY <1>1, <1>2, <1>3 DEF Next

\* Every step of the swap is a step of the abstract exchange or leaves it as
\* it was; the promise to complete, a liveness property, is left to TLC.
THEOREM SwapImplementsExchange == SafeSpec => ImplementsExchangeSafe
<1>1. Init => Exchange!Init
  BY DEF Init, Exchange!Init, Exchange!Role, Role, ExchangeLeg, ExchangeState
<1> QED
  BY <1>1, ExchangeStep, SwapInvariant, PTL
     DEF SafeSpec, ImplementsExchangeSafe, Exchange!SafeSpec

=============================================================================
