-------------------------- MODULE CollateralProofs --------------------------
(***************************************************************************)
(* The deadlines of the collateral, for every gap, delay and timeout.      *)
(***************************************************************************)
EXTENDS CollateralDlc, TLAPS

\* Heights and timeouts are integers.
LEMMA IntegerTerms ==
  ASSUME TypeOK
  PROVE  /\ asked.cltv \in Int /\ asked.cltv >= 0 /\ asked.safety \in Int
         /\ height \in Int /\ releasedAt \in Int
<1>1. asked.cltv \in Heights /\ asked.safety \in Heights
  BY DEF TypeOK, Args
<1>2. height \in 0 .. MaxHeight /\ releasedAt \in 0 .. MaxHeight \cup {-1}
  BY DEF TypeOK, NotYet
<1>3. MaxHeight \in Nat /\ Heights \subseteq 0 .. MaxHeight
  BY CollateralAssumption DEF CollateralAssumption
<1>4. asked.cltv \in 0 .. MaxHeight /\ asked.safety \in 0 .. MaxHeight
  BY <1>1, <1>3
<1> QED BY <1>2, <1>3, <1>4

\* No party is late: the spend of one that acts is in a block by its deadline.
LEMMA BlockInTime ==
  ASSUME IInv, NEW leaf \in Leaf \cup {None}, Block(leaf), spent' = None
  PROVE  /\ lenderActs /\ FixedTerm => height' < asked.cltv + Delay
         /\ releasedAt # NotYet /\ ~keyLost => height' < releasedAt + Delay
<1>1. leaf = None /\ ~Overdue(height')
  BY DEF Block, None
<1>2. height' \in Int /\ asked.cltv \in Int /\ releasedAt \in Int /\ Delay \in Int
  BY IntegerTerms, CollateralAssumption DEF CollateralAssumption, IInv, Block
<1> QED BY <1>1, <1>2 DEF Overdue

\* Every step keeps the variables in their sets.
LEMMA TypeStep == ASSUME TypeOK, [Next]_vars PROVE TypeOK'
<1> USE CollateralAssumption DEF CollateralAssumption, TypeOK
<1>1. CASE Build
  BY <1>1 DEF Build, party
<1>2. CASE Release
  BY <1>2 DEF Release
<1>3. CASE Attest
  BY <1>3 DEF Attest
<1>4. CASE LoseKey
  BY <1>4 DEF LoseKey
<1>5. ASSUME NEW leaf \in Leaf, Publish(leaf) PROVE TypeOK'
  BY <1>5 DEF Publish, party
<1>6. ASSUME NEW leaf \in Leaf \cup {None}, Block(leaf) PROVE TypeOK'
  BY <1>6 DEF Block, party
<1>7. CASE UNCHANGED vars
  BY <1>7 DEF vars, party
<1> QED BY <1>1, <1>2, <1>3, <1>4, <1>5, <1>6, <1>7 DEF Next

LEMMA InitIInv == Init => IInv
<1> SUFFICES ASSUME Init PROVE IInv
  OBVIOUS
<1>1. TypeOK
  <2>1. height \in 0 .. MaxHeight
    BY CollateralAssumption DEF CollateralAssumption, Init
  <2> QED BY <2>1 DEF Init, TypeOK
<1> QED BY <1>1, CollateralAssumption
        DEF CollateralAssumption, Init, IInv, Deadlines, LenderBeforeSafety,
            RepaidInTime, None, NotYet

\* The deadlines hold after every step.
LEMMA DeadlinesStep == ASSUME IInv, [Next]_vars PROVE Deadlines'
<1>0. TypeOK /\ TypeOK' /\ Deadlines
  BY TypeStep DEF IInv
<1>1. /\ asked.cltv \in Int /\ asked.safety \in Int /\ asked.cltv >= 0
      /\ height \in Int /\ releasedAt \in Int
  BY <1>0, IntegerTerms
<1>2. Delay \in Nat \ {0} /\ MinGap \in Nat
  BY CollateralAssumption DEF CollateralAssumption
<1>3. CASE Build
  BY <1>0, <1>1, <1>2, <1>3
     DEF Build, party, Deadlines, FixedTerm, Accepts, Required, NotYet, None
<1>4. CASE Release
  BY <1>0, <1>1, <1>2, <1>4
     DEF Release, Deadlines, FixedTerm, Accepts, Required, NotYet
<1>5. CASE Attest
  BY <1>0, <1>5 DEF Attest, Deadlines, FixedTerm, Accepts, Required
<1>6. CASE LoseKey
  BY <1>0, <1>6 DEF LoseKey, Deadlines, FixedTerm, Accepts, Required
<1>7. ASSUME NEW leaf \in Leaf, Publish(leaf) PROVE Deadlines'
  BY <1>0, <1>1, <1>2, <1>7
     DEF Publish, party, Deadlines, FixedTerm, Accepts, Required, CanSpend, Lock,
         Leaf, None
<1>8. ASSUME NEW leaf \in Leaf \cup {None}, Block(leaf) PROVE Deadlines'
  <2>1. /\ spent' = None /\ lenderActs /\ FixedTerm
             => height' < asked.cltv + Delay
        /\ spent' = None /\ releasedAt # NotYet /\ ~keyLost
             => height' < releasedAt + Delay
    BY <1>8, BlockInTime
  <2>2. height <= height' /\ height' \in Int
    BY <1>1, <1>8, CollateralAssumption DEF CollateralAssumption, Block
  <2>3. /\ UNCHANGED <<asked, result, lenderActs, party>> /\ pending' \subseteq pending
        /\ result = "built" /\ spent = None
        /\ spent' = None \/ spent' \in pending
    BY <1>8 DEF Block
  <2> QED BY <1>0, <1>1, <1>2, <2>1, <2>2, <2>3
          DEF Deadlines, party, FixedTerm, Accepts, Required
<1>9. CASE UNCHANGED vars
  BY <1>0, <1>9 DEF vars, party, Deadlines, FixedTerm, Accepts, Required
<1> QED BY <1>3, <1>4, <1>5, <1>6, <1>7, <1>8, <1>9 DEF Next

\* A spend enters a block only when its lock is open, and then no party that
\* acts has been waiting for its own.
LEMMA BlockKeepsPromises ==
  ASSUME IInv, NEW leaf \in Leaf \cup {None}, Block(leaf)
  PROVE  LenderBeforeSafety' /\ RepaidInTime'
<1>1. /\ asked.cltv \in Int /\ asked.safety \in Int /\ height \in Int
      /\ releasedAt \in Int /\ Delay \in Int /\ MinGap \in Int
  BY IntegerTerms, CollateralAssumption DEF CollateralAssumption, IInv
<1>2. /\ spent = None /\ result = "built" /\ spent' = leaf
      /\ leaf \in pending \cup {None}
      /\ UNCHANGED <<asked, lenderActs, keyLost, releasedAt>>
  BY DEF Block, party
<1>3. ASSUME lenderActs, FixedTerm, leaf = "safety" PROVE FALSE
  <2>1. asked.safety <= height /\ height < asked.cltv + Delay
    BY <1>2, <1>3 DEF IInv, Deadlines, None
  <2>2. asked.safety > asked.cltv + MinGap
    BY <1>2, <1>3 DEF IInv, Deadlines, Accepts, FixedTerm
  <2> QED BY <1>1, <2>1, <2>2, CollateralAssumption DEF CollateralAssumption
<1>4. ASSUME FixedTerm, ~keyLost, releasedAt # NotYet,
             releasedAt + Delay <= asked.cltv, leaf = "claim"
      PROVE  FALSE
  <2>1. asked.cltv <= height /\ height < releasedAt + Delay
    BY <1>2, <1>4 DEF IInv, Deadlines, None
  <2> QED BY <1>1, <1>4, <2>1
<1> QED BY <1>2, <1>3, <1>4 DEF LenderBeforeSafety, RepaidInTime, FixedTerm

LEMMA IInvStep == IInv /\ [Next]_vars => IInv'
<1> SUFFICES ASSUME IInv, [Next]_vars PROVE IInv'
  OBVIOUS
<1>1. TypeOK' /\ Deadlines'
  BY TypeStep, DeadlinesStep DEF IInv
<1>2. CASE Release
  <2>1. /\ UNCHANGED <<asked, lenderActs, spent, keyLost, height>>
        /\ releasedAt' = height
    BY <1>2 DEF Release
  <2>2. spent = "claim" /\ FixedTerm => asked.cltv <= height
    BY DEF IInv, Deadlines
  <2>3. height \in Int /\ asked.cltv \in Int /\ Delay \in Nat \ {0}
    BY IntegerTerms, CollateralAssumption DEF CollateralAssumption, IInv
  <2>4. RepaidInTime'
    BY <2>1, <2>2, <2>3 DEF RepaidInTime, FixedTerm
  <2> QED BY <1>1, <2>1, <2>4 DEF IInv, LenderBeforeSafety, FixedTerm
<1>3. CASE Build \/ Attest \/ LoseKey \/ UNCHANGED vars
  <2>1. /\ UNCHANGED <<asked, lenderActs, spent, releasedAt>>
        /\ ~keyLost' => ~keyLost
    BY <1>3 DEF Build, Attest, LoseKey, vars, party
  <2>2. RepaidInTime'
    BY <2>1 DEF IInv, RepaidInTime, FixedTerm
  <2> QED BY <1>1, <2>1, <2>2 DEF IInv, LenderBeforeSafety, FixedTerm
<1>4. ASSUME NEW leaf \in Leaf, Publish(leaf)
      PROVE  LenderBeforeSafety' /\ RepaidInTime'
  BY <1>4 DEF Publish, party, IInv, LenderBeforeSafety, RepaidInTime, FixedTerm
<1> QED BY <1>1, <1>2, <1>3, <1>4, BlockKeepsPromises DEF Next, IInv

\* The deadlines, and with them both promises, hold in every reachable state.
THEOREM CollateralInvariant == Spec => []IInv
<1> QED BY InitIInv, IInvStep, PTL DEF Spec

\* The borrower's safety leaf is never used on a lender that claims when its
\* fixed term is over, whatever the gap, if it needs at most one block more.
THEOREM LenderTheorem == Spec => []LenderBeforeSafety
<1>1. IInv => LenderBeforeSafety
  BY DEF IInv
<1> QED BY CollateralInvariant, <1>1, PTL

\* A borrower that gets t in time does not lose what it has repaid.
THEOREM RepaidTheorem == Spec => []RepaidInTime
<1>1. IInv => RepaidInTime
  BY DEF IInv
<1> QED BY CollateralInvariant, <1>1, PTL

=============================================================================
