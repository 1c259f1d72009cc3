---------------------------- MODULE RecoveryKit -----------------------------
(***************************************************************************)
(* One sitting with the recovery-kit mode of the signer: the summary of    *)
(* the kit, the menu, and the four ways from a choice to a signed          *)
(* transaction, each with its own order of prompts and checks.             *)
(*                                                                         *)
(* A kit is a snapshot of the swap.  Leg "a" is the one its owner funded   *)
(* and may refund, leg "b" the one it may claim.                           *)
(***************************************************************************)
EXTENDS Integers

CONSTANTS
  VSize, Dust,           \* size of a Taproot spend; its smallest output
  P2shVSize, P2shDust,   \* the same for the refund of a P2SH leg
  Rates, DefaultRate,    \* rates a user may type; the one used otherwise
  Values,                \* values a leg may have
  Kits                   \* the kits of a run

Leg     == {"a", "b"}
Action  == {"R", "C", "SR", "SC"}
Keys    == {"wallet", "ephemeral", "malformed"}

NoTx        == [kind |-> "none", of |-> "none", fee |-> 0, out |-> 0]
Prebuilt(a) == [kind |-> "prebuilt", of |-> a, fee |-> 0, out |-> 0]

\* What a leg's part of the kit may lack.  tree: the script, control block and
\* the other fields its spend reads of the descriptor, the redeem script for a
\* P2SH leg; receiver: the key that claims leg "b".
Field == {"txid", "descriptor", "tree", "value", "address", "receiver"}

\* version: of the contract; protocol, mark: what the kit and the descriptor of
\* leg "b" say it is, 1 if they say nothing.  timeout: the kit itself has it, as
\* a positive number or as 0, or only the descriptor.  completed: the pre-built
\* claim has the signature that takes t.
Kit == [version   : {1, 2},
        protocol  : {1, 2},
        mark      : {1, 2},
        p2sh      : BOOLEAN,
        lacks     : [Leg -> SUBSET Field],
        value     : [Leg -> Values],
        timeout   : [Leg -> {"kit", "descriptor", "zero", "none"}],
        secret    : {"none", "adaptor", "revealed"},
        ephemeral : BOOLEAN,
        prebuilt  : SUBSET {"SR", "SC"},
        completed : BOOLEAN]

\* A leg without a descriptor lacks all that is read of one.
Coherent(k) ==
  /\ \A leg \in Leg : "descriptor" \in k.lacks[leg] => "tree" \in k.lacks[leg]
  /\ "descriptor" \in k.lacks["b"] => k.mark = 1

ASSUME KitAssumption ==
  /\ VSize \in Nat \ {0} /\ Dust \in Nat
  /\ P2shVSize \in Nat \ {0} /\ P2shDust \in Nat
  /\ Rates \subseteq Nat \ {0} /\ DefaultRate \in Nat \ {0}
  /\ Values \subseteq Nat \ {0}
  /\ \A k \in Kits : k \in Kit /\ Coherent(k)

VARIABLES kit, pc, action, rate, tx, reason

vars == <<kit, pc, action, rate, tx, reason>>

TypeOK ==
  /\ kit \in Kit
  /\ pc \in {"summary", "menu", "claimkey", "rate", "build", "key", "signed",
             "done", "nothing", "failed", "crashed"}
  /\ action \in Action \cup {"none"}
  /\ rate \in Rates \cup {DefaultRate}
  /\ reason \in {"none", "choice", "kit", "value", "key", "prebuilt"}

Init ==
  /\ kit \in Kits /\ pc = "summary" /\ action = "none"
  /\ rate = DefaultRate /\ tx = NoTx /\ reason = "none"

Has(leg, fields) == fields \cap kit.lacks[leg] = {}

\* What the signer takes the kit for: either mark is enough.
IsV2 == kit.protocol = 2 \/ kit.mark = 2

Fail(why) == pc' = "failed" /\ reason' = why /\ UNCHANGED tx

-----------------------------------------------------------------------------
(* Summary and menu.                                                       *)

\* The timeout is formatted with thousands separators, which the "?" that
\* stands for a missing one does not have; the descriptor's is not looked at.
SummaryFails ==
  \E leg \in Leg : Has(leg, {"txid"}) /\ kit.timeout[leg] \in {"descriptor", "none"}

ShowSummary ==
  /\ pc = "summary"
  /\ pc' = IF SummaryFails THEN "crashed" ELSE "menu"
  /\ UNCHANGED <<kit, action, rate, tx, reason>>

\* Mutant: a menu that takes any secret for any kit.
CanClaimAnySecret == Has("b", {"txid", "descriptor"}) /\ kit.secret # "none"

CanRefund == Has("a", {"txid", "descriptor"})
CanClaim  ==
  /\ Has("b", {"txid", "descriptor"})
  /\ IF IsV2 THEN kit.secret # "none" ELSE kit.secret = "adaptor"

Options ==
  (IF CanRefund THEN {"R"} ELSE {}) \cup (IF CanClaim THEN {"C"} ELSE {})
    \cup kit.prebuilt

Leave ==
  /\ pc = "menu" /\ Options = {}
  /\ pc' = "nothing"
  /\ UNCHANGED <<kit, action, rate, tx, reason>>

AsksClaimKey == IsV2 /\ ~kit.ephemeral

\* A pre-built transaction is the platform's: only its key is asked for.  A
\* version 2 claim stops before the first prompt if nothing says whose it is.
Choose(a) ==
  /\ pc = "menu" /\ Options # {}
  /\ action' = a
  /\ IF a \notin Options THEN Fail("choice")
     ELSE IF a = "C" /\ IsV2 /\ ~Has("b", {"receiver"}) THEN Fail("kit")
     ELSE /\ pc' = CASE a \in {"SR", "SC"}       -> "key"
                     [] a = "C" /\ AsksClaimKey -> "claimkey"
                     [] OTHER                   -> "rate"
          /\ tx' = IF a \in {"SR", "SC"} THEN Prebuilt(a) ELSE NoTx
          /\ UNCHANGED reason
  /\ UNCHANGED <<kit, rate>>

-----------------------------------------------------------------------------
(* The prompts.                                                            *)

\* The key each spend needs: the claim leaf of a version 2 contract is the
\* per-swap key's, all others the wallet's.
KeyFor(a) ==
  IF (a = "C" /\ IsV2) \/ (a = "SC" /\ kit.version = 2) THEN "ephemeral"
                                                      ELSE "wallet"

EnterClaimKey(k) ==
  /\ pc = "claimkey"
  /\ IF k = KeyFor("C") THEN pc' = "rate" /\ UNCHANGED <<tx, reason>>
                        ELSE Fail("key")
  /\ UNCHANGED <<kit, action, rate>>

\* Mutant: a rate of 0 is taken as it is.
RateOfRaw(typed) == typed

\* Anything but a positive number stands for the default.
RateOf(typed) == IF typed > 0 THEN typed ELSE DefaultRate

EnterRate(typed) ==
  /\ pc = "rate"
  /\ rate' = RateOf(typed) /\ pc' = "build"
  /\ UNCHANGED <<kit, action, tx, reason>>

-----------------------------------------------------------------------------
(* Building the transaction.                                               *)

LegOf(a) == IF a = "R" THEN "a" ELSE "b"

TimeoutKnown(leg) == kit.timeout[leg] \in {"kit", "descriptor"}

\* What each builder reads of the kit and refuses to go on without, whatever
\* the menu has looked at.  The script of a claim is that of the contract, and
\* each builder asks for its own.
RefundKit ==
  Has("a", {"txid", "descriptor", "value", "tree", "address"}) /\ TimeoutKnown("a")

P2shRefundKit ==
  Has("a", {"tree", "value", "txid", "address"}) /\ TimeoutKnown("a")

ClaimKit ==
  /\ Has("b", {"txid", "descriptor", "value", "tree", "address"})
  /\ kit.secret = "adaptor" /\ kit.version = 1

V2ClaimKit ==
  /\ Has("b", {"txid", "receiver", "tree", "value", "address"})
  /\ kit.mark = 2 /\ kit.secret # "none" /\ kit.version = 2

KitSuffices(a) ==
  IF a = "R" THEN IF kit.p2sh THEN P2shRefundKit ELSE RefundKit
             ELSE IF IsV2     THEN V2ClaimKit    ELSE ClaimKit

NoFee == -1

\* Mutants: no second try; a limit one too low.
TaprootFeeOnce(value, r) ==
  IF value - VSize * r >= Dust THEN VSize * r ELSE NoFee

TaprootFeeLax(value, r) ==
  IF value - VSize * r >= Dust - 1 THEN VSize * r
  ELSE IF value - VSize >= Dust THEN VSize ELSE NoFee

\* The rate falls back to 1 when the asked one leaves less than the dust
\* limit; the refund of a P2SH leg has no such second try.
TaprootFee(value, r) ==
  IF value - VSize * r >= Dust THEN VSize * r
  ELSE IF value - VSize >= Dust THEN VSize ELSE NoFee

P2shFee(value, r) ==
  IF value - P2shVSize * r >= P2shDust THEN P2shVSize * r ELSE NoFee

ByScriptHash == action = "R" /\ kit.p2sh

FeeOf(value) ==
  IF ByScriptHash THEN P2shFee(value, rate) ELSE TaprootFee(value, rate)

Spend(fee) == [kind |-> "built", of |-> action, fee |-> fee,
               out  |-> kit.value[LegOf(action)] - fee]

\* A version 2 claim is signed while it is built: presign, complete, embed.
Build ==
  /\ pc = "build"
  /\ LET fee == FeeOf(kit.value[LegOf(action)])
     IN  IF ~KitSuffices(action) THEN Fail("kit")
         ELSE IF fee = NoFee THEN Fail("value")
         ELSE /\ tx' = Spend(fee)
              /\ pc' = IF action = "C" /\ IsV2 THEN "signed" ELSE "key"
              /\ UNCHANGED reason
  /\ UNCHANGED <<kit, action, rate>>

\* sign_and_finalize makes the wallet's signature of a refund or of a version 1
\* claim, never the one that takes t: without it a claim is refused, and with
\* it a version 2 claim is finalized whatever the key.
NeedsCompletion == action = "SC" /\ ~kit.completed
AnyKeyFits      == action = "SC" /\ kit.version = 2 /\ kit.completed

\* Version 2 looks at the key before it misses the signature, version 1 after.
Refuses(k) ==
  IF k = "malformed" THEN "key"
  ELSE IF NeedsCompletion /\ (kit.version = 1 \/ k = KeyFor(action))
         THEN "prebuilt"
  ELSE IF k # KeyFor(action) /\ ~AnyKeyFits THEN "key" ELSE "none"

EnterKey(k) ==
  /\ pc = "key"
  /\ IF Refuses(k) # "none" THEN Fail(Refuses(k))
                           ELSE pc' = "signed" /\ UNCHANGED <<tx, reason>>
  /\ UNCHANGED <<kit, action, rate>>

\* The user broadcasts the transaction, or keeps it.
Finish ==
  /\ pc = "signed"
  /\ pc' = "done"
  /\ UNCHANGED <<kit, action, rate, tx, reason>>

Next ==
  \/ ShowSummary \/ Leave \/ Build \/ Finish
  \/ \E a \in Action : Choose(a)
  \/ \E k \in Keys : EnterClaimKey(k) \/ EnterKey(k)
  \/ \E typed \in Rates \cup {0} : EnterRate(typed)

Spec == Init /\ [][Next]_vars

-----------------------------------------------------------------------------
(* Properties                                                              *)

\* What the signer's manual says of every kit: complete descriptors, funding
\* values, addresses, block heights, and marks that say what the contract is.
\* It says nothing of how far the swap has come or of the secret.
Documented(leg) ==
  /\ Has(leg, {"tree", "value", "address", "receiver"})
  /\ leg = "a" => TimeoutKnown("a")
  /\ leg = "b" => IF kit.version = 2 THEN kit.mark = 2 ELSE ~IsV2

\* The menu and the builders agree on when a leg can be spent: what is offered
\* is never refused for something the kit lacks, unless it lacks what the
\* manual says it has, and no builder would have taken what is not offered.
KitIsEnough ==
  /\ reason = "kit" => ~Documented(LegOf(action))
  /\ reason = "choice" /\ action \in {"R", "C"} => ~KitSuffices(action)

\* A transaction spends the whole leg, leaves at least the dust limit, and
\* pays at most the rate the user asked for and at least the minimal one.
SpendIsSound ==
  tx.kind = "built" =>
    LET size == IF ByScriptHash THEN P2shVSize ELSE VSize
        dust == IF ByScriptHash THEN P2shDust  ELSE Dust
    IN  /\ tx.out + tx.fee = kit.value[LegOf(action)]
        /\ tx.out >= dust
        /\ tx.fee >= size /\ tx.fee <= size * rate

\* A Taproot leg is refused only if no rate would do: a high rate never
\* strands a leg that a low one could move.
OnlyDustIsStranded ==
  reason = "value" /\ ~ByScriptHash => kit.value[LegOf(action)] < VSize + Dust

\* The summary comes before the menu, and every kit gets through it.
SummaryCompletes == pc # "crashed"

=============================================================================
