----------------------------- MODULE AdaptorSig -----------------------------
(***************************************************************************)
(* The BIP-340 adaptor signature of one claim, from presignature to        *)
(* extraction: a receiver presigns, the relay hands the presignature on,   *)
(* anyone may verify it, a party completes it with the scalar in its kit,  *)
(* the chain checks the signature, and the counterparty extracts t.        *)
(*                                                                         *)
(* The curve is a group of prime order N written by discrete logarithm:    *)
(* the scalar k stands for the point kG, 0 for infinity.  P and -P have    *)
(* the same x-coordinate; Even is the set of points with an even Y.  The   *)
(* two hashes, nonce and challenge, are random oracles: a first question   *)
(* gets any answer, and the same question always the same one.             *)
(***************************************************************************)
EXTENDS Integers

CONSTANTS
  N,        \* order of the group
  Even,     \* the points with even Y
  Msgs,     \* sighashes
  Tries     \* nonces adaptor_presign tries (256 in the code)

ASSUME GroupAssumption ==
  /\ N \in Nat \ {0, 1, 2}
  /\ \A a, b \in 1..(N - 1) : (a * b) % N # 0
  /\ Even \subseteq 1..(N - 1)
  /\ \A p \in 1..(N - 1) : p \in Even <=> (N - p) \notin Even
  /\ Tries \in Nat \ {0}

Scalar   == 0..(N - 1)
Secret   == 1..(N - 1)
Point    == 0..(N - 1)
Infinity == 0
None     == -1

Add(p, q) == (p + q) % N
Neg(p)    == (N - p) % N
HasEvenY(p) == p \in Even

\* x-only encoding and lift_x: a finite point is known by the one of P and -P
\* that has an even Y.
LiftX(p) == IF HasEvenY(p) THEN p ELSE Neg(p)

\* Mutant: the key signs as it is.
SigningKeyRaw(d) == d

\* The key that signs is that of the even-Y representative.
SigningKey(d) == IF HasEvenY(d) THEN d ELSE Neg(d)

VARIABLES
  pc,          \* where the claim stands
  d0, t, msg,  \* the receiver's key, the adaptor secret, the sighash
  counter,     \* nonces tried
  challenge,   \* the challenge oracle's answers so far
  presig,      \* the presignature: [R |-> R', s |-> s']
  honest,      \* presig is the one adaptor_presign returned
  verified,    \* the answer of adaptor_verify
  used,        \* the scalar the presignature was completed with
  sig,         \* the signature: [r |-> x-coordinate, s |-> s]
  valid,       \* the answer of schnorr_verify
  extracted    \* the answer of adaptor_extract

vars == <<pc, d0, t, msg, counter, challenge, presig, honest, verified, used,
          sig, valid, extracted>>

T == t                    \* point_from_secret
P == LiftX(d0)            \* the point the x-only key lifts to

TypeOK ==
  /\ pc \in {"presign", "exhausted", "relay", "verify", "complete", "malformed",
             "broadcast", "mined", "done"}
  /\ d0 \in Secret /\ t \in Secret /\ msg \in Msgs
  /\ counter \in 0..Tries
  /\ challenge \in [DOMAIN challenge -> Scalar]
  /\ presig \in [R : Point, s : Scalar]
  /\ sig \in [r : Point, s : Scalar]
  /\ used \in Scalar
  /\ {honest, verified, valid} \subseteq BOOLEAN
  /\ extracted \in Scalar \cup {None}

Init ==
  /\ pc = "presign"
  /\ d0 \in Secret /\ t \in Secret /\ msg \in Msgs
  /\ counter = 0
  /\ challenge = [q \in {} |-> 0]
  /\ presig = [R |-> 0, s |-> 0]
  /\ sig = [r |-> 0, s |-> 0]
  /\ used = 0
  /\ honest = FALSE /\ verified = FALSE /\ valid = FALSE
  /\ extracted = None

\* The answer e of the oracle to question q.
Ask(q, e) ==
  IF q \in DOMAIN challenge
  THEN e = challenge[q] /\ UNCHANGED challenge
  ELSE challenge' = [x \in DOMAIN challenge \cup {q} |->
                       IF x = q THEN e ELSE challenge[x]]

\* BIP0340/challenge over the nonce's x, the key's x and the sighash.
Question(r) == <<r, P, msg>>

-----------------------------------------------------------------------------
(* adaptor_presign: one nonce per step.                                    *)

GoodNonce(k) == k # 0 /\ Add(k, T) # Infinity /\ HasEvenY(Add(k, T))

RetryNonce(k) ==
  /\ pc = "presign" /\ counter < Tries
  /\ ~GoodNonce(k)
  /\ counter' = counter + 1
  /\ UNCHANGED <<pc, d0, t, msg, challenge, presig, honest, verified, used,
                 sig, valid, extracted>>

\* Mutant: the sum is not reduced.
ResponseUnreduced(k, e) == k + e * SigningKey(d0)

Response(k, e) == (k + e * SigningKey(d0)) % N

Presign(k, e) ==
  /\ pc = "presign" /\ counter < Tries
  /\ GoodNonce(k)
  /\ Ask(Question(Add(k, T)), e)
  /\ presig' = [R |-> k, s |-> Response(k, e)]
  /\ honest' = TRUE
  /\ pc' = "relay"
  /\ UNCHANGED <<d0, t, msg, counter, verified, used, sig, valid, extracted>>

GiveUp ==
  /\ pc = "presign" /\ counter = Tries
  /\ pc' = "exhausted"
  /\ UNCHANGED <<d0, t, msg, counter, challenge, presig, honest, verified,
                 used, sig, valid, extracted>>

-----------------------------------------------------------------------------
(* The relay (external) hands on the presignature, or any other.           *)

Relay(ps) ==
  /\ pc = "relay"
  /\ presig' = ps
  /\ honest' = (ps = presig)
  /\ pc' = "verify"
  /\ UNCHANGED <<d0, t, msg, counter, challenge, verified, used, sig, valid,
                 extracted>>

-----------------------------------------------------------------------------
(* adaptor_verify: R' + T finite with even Y, and s'G = R' + eP.           *)

\* Mutant: the parity of the adapted nonce is not looked at.
AdaptedNonceFinite(R, u) == Add(R, u) # Infinity

AdaptedNonceOk(R, u) == Add(R, u) # Infinity /\ HasEvenY(Add(R, u))

Verify(e) ==
  /\ pc = "verify"
  /\ IF AdaptedNonceOk(presig.R, T)
     THEN /\ Ask(Question(Add(presig.R, T)), e)
          /\ verified' = (presig.s = Add(presig.R, e * P))
     ELSE /\ UNCHANGED challenge
          /\ verified' = FALSE
  /\ pc' = "complete"
  /\ UNCHANGED <<d0, t, msg, counter, presig, honest, used, sig, valid,
                 extracted>>

(* adaptor_complete with the scalar u in the kit; nobody checks uG = T.    *)
Complete(u) ==
  /\ pc = "complete"
  /\ used' = u
  /\ IF AdaptedNonceOk(presig.R, u)
     THEN /\ sig' = [r |-> LiftX(Add(presig.R, u)), s |-> (presig.s + u) % N]
          /\ pc' = "broadcast"
     ELSE /\ UNCHANGED sig
          /\ pc' = "malformed"
  /\ UNCHANGED <<d0, t, msg, counter, challenge, presig, honest, verified,
                 valid, extracted>>

(* schnorr_verify, as the chain does: R = sG - eP is even with x = r.      *)
\* Mutant: R is not compared with the signature's r.
NonceFinite(R) == R # Infinity /\ HasEvenY(R)

NonceMatches(R) == R # Infinity /\ HasEvenY(R) /\ LiftX(R) = sig.r

VerifySchnorr(e) ==
  /\ pc = "broadcast"
  /\ Ask(Question(sig.r), e)
  /\ valid' = NonceMatches(Add(sig.s, e * Neg(P)))
  /\ pc' = "mined"
  /\ UNCHANGED <<d0, t, msg, counter, presig, honest, verified, used, sig,
                 extracted>>

(* adaptor_extract: s - s', kept only when it is the logarithm of T.       *)
\* Mutant: the difference is taken the wrong way round.
DifferenceReversed == (presig.s + Neg(sig.s)) % N

Difference == (sig.s + Neg(presig.s)) % N

Extract ==
  /\ pc = "mined"
  /\ extracted' = IF Difference # 0 /\ Difference = T THEN Difference ELSE None
  /\ pc' = "done"
  /\ UNCHANGED <<d0, t, msg, counter, challenge, presig, honest, verified,
                 used, sig, valid>>

-----------------------------------------------------------------------------
Next ==
  \/ GiveUp \/ Extract
  \/ \E k \in Scalar : RetryNonce(k) \/ \E e \in Scalar : Presign(k, e)
  \/ \E R \in Secret, s \in Scalar : Relay([R |-> R, s |-> s])
  \/ \E u \in Secret : Complete(u)
  \/ \E e \in Scalar : Verify(e) \/ VerifySchnorr(e)

Spec == Init /\ [][Next]_vars

-----------------------------------------------------------------------------
(* Properties                                                              *)

\* What adaptor_presign returns, adaptor_verify accepts: for either parity of
\* the key and of T, and whichever nonce was the first good one.
PresignVerifies ==
  honest /\ pc \in {"complete", "malformed", "broadcast", "mined", "done"}
    => verified

\* A verified presignature, whoever made it, never fails the holder of t: its
\* completion does not raise and the chain accepts it.
VerifiedCompletes ==
  verified /\ used = t => /\ pc # "malformed"
                          /\ pc \in {"mined", "done"} => valid

\* A signature the chain accepts over the adapted nonce of a verified
\* presignature reveals t: with R fixed there is only one s.
AcceptedReveals ==
  pc = "done" /\ verified /\ valid /\ sig.r = LiftX(Add(presig.R, T))
    => extracted = t

\* A presignature alone is useless: completed with another scalar it is not a
\* signature, unless two different nonces have the same challenge.
WrongSecretIsUseless ==
  (pc \in {"mined", "done"} /\ verified /\ valid /\ used # t) =>
    \E q \in DOMAIN challenge :
      q # Question(sig.r) /\ challenge[q] = challenge[Question(sig.r)]

=============================================================================
