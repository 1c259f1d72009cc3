----------------------------- MODULE AtomicSwap -----------------------------
(***************************************************************************)
(* A cross-chain swap carried out with the operations of this repository:  *)
(* build_dlc makes the two contracts, adaptor_presign / adaptor_extract    *)
(* tie them together, and each party runs the recovery-kit mode of the     *)
(* offline signer ([R] refund, [C] claim), in any order, as often as it    *)
(* likes, signing now and broadcasting later.                              *)
(*                                                                         *)
(* Roles name the parties: the holder knows the adaptor secret t, the      *)
(* follower learns it from the holder's on-chain claim.  A leg is named    *)
(* after the role that funds it: leg "holder" is claimed by the follower.  *)
(* Each leg lives on a chain of its own with its own height; the heights   *)
(* are normalised to a common unit and differ by at most MaxDrift.         *)
(*                                                                         *)
(* The relay, the chains and the clock are not in the repository.  They    *)
(* are modelled from how the signer uses them and marked "external".       *)
(***************************************************************************)
EXTENDS Integers

CONSTANTS
  HolderTimeout,     \* refund height of the leg the holder funds
  FollowerTimeout,   \* refund height of the leg the follower funds
  FeeRates,          \* the rates a user may type, one claim each
  HolderFeeRates,    \* those the holder types for its claim
  RelayFeeRate,      \* the rate of the claim the relay has presigned
  KitGated,          \* the holder saves its kit only once the swap is eligible
  MaxDrift,          \* bound on the difference of the two heights
  Delay,             \* blocks a diligent follower may need for a step
  MaxHeight          \* bound of the model: heights stop there

Role     == {"holder", "follower"}
Other(r) == IF r = "holder" THEN "follower" ELSE "holder"

\* Mutants: both contracts built with one timeout, or with each other's.
SameTimeout     == [r \in Role |-> FollowerTimeout]
SwappedTimeouts == [r \in Role |-> IF r = "holder" THEN FollowerTimeout
                                                   ELSE HolderTimeout]

Timeout  == [r \in Role |-> IF r = "holder" THEN HolderTimeout
                                            ELSE FollowerTimeout]

\* build_dlc accepts timeout 0, but build_refund_psbt then refuses to refund:
\* a leg of this module has a timeout that can be refunded.
ASSUME ConstantsAssumption ==
  /\ HolderTimeout \in Nat \ {0}
  /\ FollowerTimeout \in Nat \ {0}
  /\ RelayFeeRate \in FeeRates
  /\ HolderFeeRates \subseteq FeeRates
  /\ KitGated \in BOOLEAN
  /\ MaxDrift \in Nat /\ Delay \in Nat /\ MaxHeight \in Nat

VARIABLES
  height,        \* height of the chain of each leg
  funding,       \* state of each leg's funding transaction
  spend,         \* the spend of each leg the network has accepted, if any
  mined,         \* the legs whose spend is in a block
  kit,           \* the recovery kit each role last saved
  signedClaim,   \* rates of the claims signed, by the leg they spend
  signedRefund,  \* the legs with a signed refund
  point,         \* the holder has published T
  presigned,     \* the roles whose claim pre-signature the relay has
  revealed,      \* t has been extracted and the relay shows it
  seenAt         \* height of the holder's chain when the holder's claim appeared

vars == <<height, funding, spend, mined, kit, signedClaim, signedRefund,
          point, presigned, revealed, seenAt>>

NoSpend     == [kind |-> "none",   rate |-> RelayFeeRate]
Refund      == [kind |-> "refund", rate |-> RelayFeeRate]
Claim(rate) == [kind |-> "claim",  rate |-> rate]

EmptyKit == [own |-> FALSE, incoming |-> FALSE, secret |-> FALSE]

TypeOK ==
  /\ height \in [Role -> Nat]
  /\ funding \in [Role -> {"none", "mempool", "confirmed", "replaced"}]
  /\ spend \in [Role -> [kind : {"none", "refund", "claim"}, rate : FeeRates]]
  /\ mined \in SUBSET Role
  /\ kit \in [Role -> [own : BOOLEAN, incoming : BOOLEAN, secret : BOOLEAN]]
  /\ signedClaim \in [Role -> SUBSET FeeRates]
  /\ signedRefund \in SUBSET Role
  /\ point \in BOOLEAN
  /\ presigned \in SUBSET Role
  /\ revealed \in BOOLEAN
  /\ seenAt \in Nat

Init ==
  /\ height = [r \in Role |-> 0]
  /\ funding = [r \in Role |-> "none"]
  /\ spend = [r \in Role |-> NoSpend]
  /\ mined = {}
  /\ kit = [r \in Role |-> EmptyKit]
  /\ signedClaim = [r \in Role |-> {}]
  /\ signedRefund = {}
  /\ point = FALSE
  /\ presigned = {}
  /\ revealed = FALSE
  /\ seenAt = 0

Funded(r)     == funding[r] \in {"mempool", "confirmed"}
Unspent(r)    == spend[r].kind = "none"
Spent(r, how) == spend[r].kind = how
BothConfirmed == \A r \in Role : funding[r] = "confirmed"

\* READY_TO_CLAIM with the adaptor setup done: what the relay waits for.
Eligible == BothConfirmed /\ point /\ presigned = Role

-----------------------------------------------------------------------------
(* Funding (external): the transactions that pay to the contract addresses *)
(* build_dlc returned.  The holder funds first; nobody funds a leg that    *)
(* can already be refunded.                                                *)

Fund(r) ==
  /\ funding[r] = "none"
  /\ r = "follower" => Funded("holder") /\ Unspent("holder")
  /\ height[r] < Timeout[r]
  /\ funding' = [funding EXCEPT ![r] = "mempool"]
  /\ UNCHANGED <<height, spend, mined, kit, signedClaim, signedRefund,
                 point, presigned, revealed, seenAt>>

ConfirmFunding(r) ==
  /\ funding[r] = "mempool"
  /\ funding' = [funding EXCEPT ![r] = "confirmed"]
  /\ UNCHANGED <<height, spend, mined, kit, signedClaim, signedRefund,
                 point, presigned, revealed, seenAt>>

\* An unconfirmed funding transaction is replaced: what spent it goes with it.
ReplaceFunding(r) ==
  /\ funding[r] = "mempool"
  /\ funding' = [funding EXCEPT ![r] = "replaced"]
  /\ spend' = [spend EXCEPT ![r] = NoSpend]
  /\ UNCHANGED <<height, mined, kit, signedClaim, signedRefund,
                 point, presigned, revealed, seenAt>>

-----------------------------------------------------------------------------
(* Adaptor setup.  The nonce of adaptor_presign is a hash of key, sighash  *)
(* and T, so two presignatures of one role are equal exactly when they are *)
(* over the same transaction: a claim is known by its fee rate.            *)

PublishPoint ==
  /\ BothConfirmed /\ ~point
  /\ point' = TRUE
  /\ UNCHANGED <<height, funding, spend, mined, kit, signedClaim,
                 signedRefund, presigned, revealed, seenAt>>

\* A role presigns the relay's claim of the leg it is to receive.
PublishPresignature(r) ==
  /\ BothConfirmed /\ point
  /\ r \notin presigned
  /\ presigned' = presigned \cup {r}
  /\ UNCHANGED <<height, funding, spend, mined, kit, signedClaim,
                 signedRefund, point, revealed, seenAt>>

\* adaptor_extract returns t iff the signature on chain completes the very
\* presignature the relay shows: s - s' is t only over the same sighash.
Extractable ==
  /\ Spent("follower", "claim")
  /\ spend["follower"].rate = RelayFeeRate
  /\ "holder" \in presigned

ExtractSecret ==
  /\ Extractable /\ ~revealed
  /\ revealed' = TRUE
  /\ UNCHANGED <<height, funding, spend, mined, kit, signedClaim,
                 signedRefund, point, presigned, seenAt>>

-----------------------------------------------------------------------------
(* The recovery kit (external, as _load_kit reads it): a snapshot, which   *)
(* stays as it was saved while the swap moves on.                          *)

SecretFor(r) ==
  IF r = "holder" THEN KitGated => Eligible ELSE revealed

SavedKit(r) == [own      |-> Funded(r),
                incoming |-> Funded(Other(r)),
                secret   |-> SecretFor(r)]

SaveKit(r) ==
  /\ kit[r] # SavedKit(r)
  /\ kit' = [kit EXCEPT ![r] = SavedKit(r)]
  /\ UNCHANGED <<height, funding, spend, mined, signedClaim, signedRefund,
                 point, presigned, revealed, seenAt>>

-----------------------------------------------------------------------------
(* Recovery-kit mode: the menu's guards, then build, sign and, now or in a *)
(* later sitting, broadcast.  Neither [R] nor [C] looks at the chain.      *)

\* Mutants: the refund asks for both legs; the claim does not ask for t; t is
\* only looked for where the holder's kit has it.
CanRefundFull(r)    == kit[r].own /\ kit[r].incoming
CanClaimUnkeyed(r)  == kit[r].incoming
CanClaimAsHolder(r) == kit[r].incoming /\ kit[r].secret /\ r = "holder"

CanRefund(r) == kit[r].own
CanClaim(r)  == kit[r].incoming /\ kit[r].secret

\* Mutant: the holder claims at a rate of its own choice.
AnyRate(r) == FeeRates

ClaimRates(r) == IF r = "holder" THEN HolderFeeRates ELSE FeeRates

\* [C]: presign this user's own claim transaction, complete it with t.
SignClaim(r, rate) ==
  /\ CanClaim(r)
  /\ rate \in ClaimRates(r)
  /\ rate \notin signedClaim[Other(r)]
  /\ signedClaim' = [signedClaim EXCEPT ![Other(r)] = @ \cup {rate}]
  /\ UNCHANGED <<height, funding, spend, mined, kit, signedRefund,
                 point, presigned, revealed, seenAt>>

\* [R]: nLockTime is the timeout; it can be signed before the height.
SignRefund(r) ==
  /\ CanRefund(r)
  /\ r \notin signedRefund
  /\ signedRefund' = signedRefund \cup {r}
  /\ UNCHANGED <<height, funding, spend, mined, kit, signedClaim,
                 point, presigned, revealed, seenAt>>

\* Mutant: the next lower sequence number, which signals replacement.
ReplaceableAlways == TRUE

\* The sequence number of every transaction the signer builds enables
\* nLockTime and does not signal replacement.
Replaceable == FALSE

\* A node takes the first valid spend of a funded output, and another one
\* instead only if the first is replaceable and in no block.  A broadcast
\* that is refused leaves everything as it was.
Accepts(r) ==
  Funded(r) /\ (Unspent(r) \/ (Replaceable /\ r \notin mined))

BroadcastClaim(r, rate) ==
  /\ rate \in signedClaim[Other(r)]
  /\ Accepts(Other(r))
  /\ spend' = [spend EXCEPT ![Other(r)] = Claim(rate)]
  /\ seenAt' = IF r = "holder" THEN height["holder"] ELSE seenAt
  /\ UNCHANGED <<height, funding, mined, kit, signedClaim, signedRefund,
                 point, presigned, revealed>>

BroadcastRefund(r) ==
  /\ r \in signedRefund
  /\ Accepts(r)
  /\ height[r] >= Timeout[r]
  /\ spend' = [spend EXCEPT ![r] = Refund]
  /\ UNCHANGED <<height, funding, mined, kit, signedClaim, signedRefund,
                 point, presigned, revealed, seenAt>>

-----------------------------------------------------------------------------
(* The chains (external).                                                  *)

Mine(r) ==
  /\ funding[r] = "confirmed" /\ ~Unspent(r)
  /\ r \notin mined
  /\ mined' = mined \cup {r}
  /\ UNCHANGED <<height, funding, spend, kit, signedClaim, signedRefund,
                 point, presigned, revealed, seenAt>>

\* The follower is diligent: it gets its refund accepted within Delay blocks
\* of the timeout, and its claim within Delay blocks of the holder's.  The
\* holder owes nothing, it may be away for good.
RefundOverdue ==
  /\ Accepts("follower")
  /\ height["follower"] >= FollowerTimeout + Delay

ClaimOverdue ==
  /\ Extractable
  /\ Accepts("holder")
  /\ height["holder"] >= seenAt + Delay

Tick(r) ==
  /\ height[r] < MaxHeight
  /\ height[r] < height[Other(r)] + MaxDrift
  /\ IF r = "follower" THEN ~RefundOverdue ELSE ~ClaimOverdue
  /\ height' = [height EXCEPT ![r] = @ + 1]
  /\ UNCHANGED <<funding, spend, mined, kit, signedClaim, signedRefund,
                 point, presigned, revealed, seenAt>>

-----------------------------------------------------------------------------
External(r) ==
  Fund(r) \/ ConfirmFunding(r) \/ ReplaceFunding(r) \/ SaveKit(r)
    \/ PublishPresignature(r) \/ Mine(r) \/ Tick(r)

Signer(r) ==
  \/ SignRefund(r) \/ BroadcastRefund(r)
  \/ \E rate \in FeeRates : SignClaim(r, rate) \/ BroadcastClaim(r, rate)

Next ==
  PublishPoint \/ ExtractSecret \/ \E r \in Role : External(r) \/ Signer(r)

SafeSpec == Init /\ [][Next]_vars

\* Blocks are found, the network confirms what it accepted, and the follower
\* does what it can; nothing is assumed of the holder.
Fairness ==
  /\ WF_vars(ExtractSecret)
  /\ \A r \in Role : /\ WF_vars(Tick(r))
                    /\ WF_vars(Mine(r))
                    /\ WF_vars(ConfirmFunding(r) \/ ReplaceFunding(r))
  /\ WF_vars(SaveKit("follower"))
  /\ WF_vars(SignRefund("follower"))
  /\ WF_vars(BroadcastRefund("follower"))
  /\ WF_vars(SignClaim("follower", RelayFeeRate))
  /\ WF_vars(BroadcastClaim("follower", RelayFeeRate))

Spec == SafeSpec /\ Fairness

\* A holder that does not vanish but never claims: it refunds its leg.
HolderRefunds ==
  /\ WF_vars(SaveKit("holder"))
  /\ WF_vars(SignRefund("holder"))
  /\ WF_vars(BroadcastRefund("holder"))

-----------------------------------------------------------------------------
(* Properties                                                              *)

\* Atomicity: no party ends with both legs, the other's claimed and its own
\* refunded, whatever the order of claims, refunds and blocks.
Atomicity ==
  \A r \in Role : ~(Spent(Other(r), "claim") /\ Spent(r, "refund"))

\* The secret flows one way: the follower's claim is accepted only after
\* the holder's, from which alone the signer it uses can have t.
HolderClaimsFirst ==
  Spent("holder", "claim") => Spent("follower", "claim")

\* A claim of the holder that the network accepted reveals t to whoever has
\* the published presignature.
ClaimRevealsSecret == Spent("follower", "claim") => Extractable

\* Confirmation gate: no claim is accepted before both legs are confirmed,
\* so that no claim rests on a funding that can still be replaced.
ConfirmationGate ==
  \A r \in Role : Spent(r, "claim") => BothConfirmed

\* What the network accepted stays: a claim is never displaced, and a leg
\* whose claim or refund is in a block keeps it.
SpendsAreFinal ==
  [][\A r \in Role : Spent(r, "claim") \/ r \in mined
                        => spend'[r] = spend[r]]_vars

\* A funded follower gets its coins out: by the holder's claim or its refund.
FollowerSettles == funding["follower"] = "confirmed" ~> "follower" \in mined

\* A holder that keeps to its refund gets out too, even when the follower
\* never funds or goes away: no leg stays locked for ever.
HolderSettles ==
  HolderRefunds => (funding["holder"] = "confirmed" ~> "holder" \in mined)

\* The abstract exchange, and the state of each leg in its terms.
ExchangeState(r) ==
  CASE funding[r] = "none"     -> "absent"
    [] funding[r] = "replaced" -> "refunded"
    [] OTHER -> CASE Spent(r, "claim")  -> "claimed"
                  [] Spent(r, "refund") -> "refunded"
                  [] OTHER              -> "locked"

ExchangeLeg == [r \in Role |-> ExchangeState(r)]

Exchange == INSTANCE AtomicExchange WITH leg <- ExchangeLeg

\* The swap implements the exchange, its promise to complete included.
ImplementsExchange     == Exchange!Spec
ImplementsExchangeSafe == Exchange!SafeSpec

=============================================================================
