------------------------------ MODULE SafeSwap ------------------------------
(***************************************************************************)
(* The conditions under which AtomicSwap is atomic, and the invariant that *)
(* makes it so.  The conditions are the README's role assignment with a    *)
(* gap between the two timeouts, a holder that claims with the very        *)
(* transaction it presigned, and a kit that shows t only when the swap is  *)
(* eligible.  None of them is checked by the signer.                       *)
(***************************************************************************)
EXTENDS AtomicSwap

ASSUME SafeSetup ==
  /\ HolderTimeout > FollowerTimeout + 2 * Delay + MaxDrift
  /\ HolderFeeRates = {RelayFeeRate}
  /\ KitGated

\* t is in the holder's kit, and a claim of the follower's leg is signed,
\* only after the adaptor setup, which nothing undoes.
HolderSecretIsGated ==
  /\ kit["holder"].secret => Eligible
  /\ \A rate \in signedClaim["follower"] : rate = RelayFeeRate /\ Eligible

\* Hence a claim of the follower's leg can be extracted from.
ClaimIsExtractable ==
  Spent("follower", "claim") => Eligible /\ spend["follower"].rate = RelayFeeRate

\* The follower's knowledge of t goes back to a claim of its own leg.
FollowerSecretIsExtracted ==
  /\ revealed => Spent("follower", "claim")
  /\ kit["follower"].secret => revealed
  /\ signedClaim["holder"] # {} => revealed
  /\ Spent("holder", "claim") => revealed

HeightsAreClose == \A r \in Role : height[r] <= height[Other(r)] + MaxDrift

\* While its leg is open the follower's timeout is at most Delay blocks old.
FollowerIsInTime ==
  Accepts("follower") => height["follower"] <= FollowerTimeout + Delay

\* From the holder's claim on, the holder's own timeout is still ahead for as
\* long as the follower has not claimed.
HolderTimeoutIsAhead ==
  Spent("follower", "claim") =>
    /\ seenAt <= FollowerTimeout + Delay + MaxDrift
    /\ Accepts("holder") => height["holder"] <= seenAt + Delay
    /\ ~Spent("holder", "refund")

RefundIsDue ==
  \A r \in Role : Spent(r, "refund") => height[r] >= Timeout[r]

SpendsNeedFunding ==
  \A r \in Role : /\ funding[r] = "none" => Unspent(r)
                  /\ r \in mined => funding[r] = "confirmed" /\ ~Unspent(r)

Core ==
  /\ HolderSecretIsGated /\ ClaimIsExtractable /\ FollowerSecretIsExtracted
  /\ HeightsAreClose /\ FollowerIsInTime /\ HolderTimeoutIsAhead
  /\ RefundIsDue /\ SpendsNeedFunding

\* The inductive invariant: every conjunct ties a claim, a refund or a copy of
\* t to what must have happened before it.
IInv == TypeOK /\ Core

=============================================================================
