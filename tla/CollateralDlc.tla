--------------------------- MODULE CollateralDlc ----------------------------
(***************************************************************************)
(* The collateral of a loan: what build_collateral_dlc accepts, and what   *)
(* borrower, lender, server and oracle can do with the three leaves of the *)
(* contract it builds.  The chain, the server and the oracle are outside   *)
(* the repository.  `height' is the tip, counted from the funding of the   *)
(* contract; a transaction with lock time t can be in any block above t.   *)
(***************************************************************************)
EXTENDS Integers

CONSTANTS
  MinGap,       \* _MIN_SAFETY_GAP_BLOCKS
  Delay,        \* blocks in which a party that acts gets a spend confirmed
  Heights,      \* timeouts asked for
  MaxHeight     \* bound: the tip stays there

Mode == {"oracle", "fal", "fixed_term"}
Leaf == {"repay", "claim", "safety"}
None == "none"
NotYet == -1

\* Arguments of the builder: `repayKey' is the borrower's wallet key unless an
\* ephemeral one is given; keys and the hash are well formed when present.
Args == [mode : Mode, oracle : BOOLEAN, hash : BOOLEAN,
         safety : Heights, cltv : Heights, repayKey : {"wallet", "ephemeral"}]

ASSUME CollateralAssumption ==
  /\ MinGap \in Nat /\ Delay \in Nat \ {0} /\ MaxHeight \in Nat
  /\ Heights \subseteq 0 .. MaxHeight
  /\ Delay <= MinGap + 1

VARIABLES
  asked,        \* the arguments
  result,       \* "none" | "built" | "rejected"
  lenderActs,   \* the lender claims as soon as its fixed term is over
  height,       \* tip of the collateral's chain
  keyLost,      \* the ephemeral repay key is gone with its browser
  releasedAt,   \* height at which the server has released t
  attested,     \* the lender has the oracle's signature or the preimage
  pending,      \* the spend the nodes hold, at most one
  spent         \* the leaf that was used

party == <<keyLost, releasedAt, attested>>
vars  == <<asked, result, lenderActs, height, party, pending, spent>>

TypeOK ==
  /\ asked \in Args
  /\ result \in {"none", "built", "rejected"}
  /\ lenderActs \in BOOLEAN
  /\ height \in 0 .. MaxHeight
  /\ keyLost \in BOOLEAN /\ attested \in BOOLEAN
  /\ releasedAt \in 0 .. MaxHeight \cup {NotYet}
  /\ pending \in SUBSET Leaf
  /\ spent \in Leaf \cup {None}

Init ==
  /\ asked \in Args /\ result = "none" /\ lenderActs \in BOOLEAN
  /\ height = 0 /\ keyLost = FALSE /\ releasedAt = NotYet /\ attested = FALSE
  /\ pending = {} /\ spent = None

-----------------------------------------------------------------------------
(* build_collateral_dlc.                                                   *)

Required(a) ==
  /\ a.mode = "oracle" => a.oracle
  /\ a.mode = "fal" => a.hash
  /\ a.mode = "fixed_term" => a.cltv > 0

\* Mutants: the gap may be MinGap exactly; no gap at all.
AcceptsLax(a) ==
  /\ a.safety > 0 /\ Required(a)
  /\ a.mode = "fixed_term" => a.safety >= a.cltv + MinGap

AcceptsGapless(a) == a.safety > 0 /\ Required(a)

Accepts(a) ==
  /\ a.safety > 0 /\ Required(a)
  /\ a.mode = "fixed_term" => a.safety > a.cltv + MinGap

\* The contract is funded in the block in which it is built.
Build ==
  /\ result = "none"
  /\ result' = IF Accepts(asked) THEN "built" ELSE "rejected"
  /\ UNCHANGED <<asked, lenderActs, height, party, pending, spent>>

-----------------------------------------------------------------------------
(* The leaves.                                                             *)

FixedTerm == asked.mode = "fixed_term"

\* Mutant: the lender's term ends one block early.
LockEarly(leaf) ==
  IF leaf = "safety" THEN asked.safety
  ELSE IF leaf = "claim" /\ FixedTerm THEN asked.cltv - 1 ELSE 0

\* The height in front of OP_CHECKLOCKTIMEVERIFY, 0 where there is none.
Lock(leaf) ==
  IF leaf = "safety" THEN asked.safety
  ELSE IF leaf = "claim" /\ FixedTerm THEN asked.cltv ELSE 0

\* Mutant: the safety leaf takes the repay key.
KeyOfRepay(leaf) == IF leaf = "claim" THEN "lender" ELSE asked.repayKey

KeyOf(leaf) ==
  CASE leaf = "repay"  -> asked.repayKey
    [] leaf = "claim"  -> "lender"
    [] leaf = "safety" -> "wallet"

\* What a leaf takes beside its key: the oracle's signature or the preimage for
\* the lender's claim.  The repay leaf takes nothing: that its owner completes
\* a presignature with the server's t is policy, the script does not ask for it.
Gate(leaf) == leaf = "claim" => FixedTerm \/ attested

CanSpend(leaf) ==
  /\ Gate(leaf) /\ Lock(leaf) <= height
  /\ KeyOf(leaf) = "ephemeral" => ~keyLost

\* Nodes keep the first of two conflicting spends.
Publish(leaf) ==
  /\ result = "built" /\ spent = None /\ pending = {}
  /\ CanSpend(leaf)
  /\ pending' = {leaf}
  /\ UNCHANGED <<asked, result, lenderActs, height, party, spent>>

-----------------------------------------------------------------------------
(* The outside: server, oracle, the borrower's browser and the chain.      *)

\* The server has seen the loan repaid.
Release ==
  /\ result = "built" /\ releasedAt = NotYet
  /\ releasedAt' = height
  /\ UNCHANGED <<asked, result, lenderActs, height, keyLost, attested,
                 pending, spent>>

Attest ==
  /\ result = "built" /\ ~FixedTerm /\ ~attested
  /\ attested' = TRUE
  /\ UNCHANGED <<asked, result, lenderActs, height, keyLost, releasedAt,
                 pending, spent>>

LoseKey ==
  /\ result = "built" /\ asked.repayKey = "ephemeral" /\ ~keyLost
  /\ keyLost' = TRUE
  /\ UNCHANGED <<asked, result, lenderActs, height, releasedAt, attested,
                 pending, spent>>

\* A party that acts has its spend in a block by this height.
Overdue(h) ==
  \/ lenderActs /\ FixedTerm /\ h >= asked.cltv + Delay
  \/ releasedAt # NotYet /\ ~keyLost /\ h >= releasedAt + Delay

\* A block, with the pending spend or without.
Block(leaf) ==
  /\ result = "built" /\ spent = None
  /\ leaf \in pending \cup {None}
  /\ height' = IF height < MaxHeight THEN height + 1 ELSE height
  /\ leaf = None => ~Overdue(height')
  /\ spent' = leaf
  /\ pending' = pending \ {leaf}
  /\ UNCHANGED <<asked, result, lenderActs, party>>

Next ==
  \/ Build \/ Release \/ Attest \/ LoseKey
  \/ \E leaf \in Leaf : Publish(leaf)
  \/ \E leaf \in Leaf \cup {None} : Block(leaf)

\* Blocks are found and take what is pending.  The borrower completes its repay
\* presignature when it has t and uses the safety leaf when it is open; the
\* lender claims if it is one that acts.  Nobody needs to do more.
Fairness ==
  /\ WF_vars(Build)
  /\ WF_vars(Block(None)) /\ WF_vars(\E leaf \in Leaf : Block(leaf))
  /\ WF_vars(releasedAt # NotYet /\ Publish("repay"))
  /\ WF_vars(Publish("safety"))
  /\ WF_vars(lenderActs /\ Publish("claim"))

Spec     == Init /\ [][Next]_vars
FairSpec == Spec /\ Fairness

-----------------------------------------------------------------------------
(* Properties                                                              *)

\* A lender that acts has its collateral, or the loan, before the borrower's
\* safety leaf opens: that leaf is never used on it.
LenderBeforeSafety == lenderActs /\ FixedTerm => spent # "safety"

\* A borrower that gets t early enough before the lender's term ends, and
\* still has its key, does not lose the collateral it has repaid.
RepaidInTime ==
  FixedTerm /\ ~keyLost /\ releasedAt # NotYet /\ releasedAt + Delay <= asked.cltv
    => spent # "claim"

\* Whatever server, oracle and lender fail to do, and even when the ephemeral
\* key is lost, the collateral of a contract that was built can be moved.
NothingIsStranded == result = "built" ~> spent # None

\* Why LenderBeforeSafety and RepaidInTime hold: the tip does not pass a
\* deadline while the collateral is there, nor before a lock opens.
Deadlines ==
  /\ result = "built" => Accepts(asked)
  /\ result # "built" => height = 0 /\ releasedAt = NotYet
  /\ spent # None \/ pending # {} => result = "built"
  /\ result = "built" /\ spent = None /\ lenderActs /\ FixedTerm
       => height < asked.cltv + Delay
  /\ releasedAt # NotYet => releasedAt <= height
  /\ releasedAt # NotYet /\ ~keyLost /\ spent = None
       => height < releasedAt + Delay
  /\ "claim" \in pending \cup {spent} /\ FixedTerm => asked.cltv <= height
  /\ "safety" \in pending => asked.safety <= height

\* The inductive invariant: no party that acts misses its deadline, and no spend
\* is in the nodes before its lock is open, whatever server and oracle do.
IInv == TypeOK /\ Deadlines /\ LenderBeforeSafety /\ RepaidInTime

=============================================================================
