-------------------------- MODULE AdaptorSigProofs --------------------------
(***************************************************************************)
(* The adaptor signature in every group of prime order, for every key,     *)
(* secret, nonce, challenge and presignature: what presign makes verify    *)
(* accepts, what verify accepts can be completed with t and only with t,   *)
(* and the completion reveals t.                                           *)
(***************************************************************************)
EXTENDS AdaptorSig, TLAPS

-----------------------------------------------------------------------------
(* Arithmetic modulo N.                                                    *)

LEMMA NIsPositive == N \in Nat /\ N > 2
BY GroupAssumption DEF GroupAssumption

LEMMA Remainder ==
  ASSUME NEW a \in Int
  PROVE  a % N \in 0..(N - 1) /\ \E k \in Int : a = N * k + (a % N)
<1>1. a \div N \in Int /\ a = N * (a \div N) + (a % N) /\ a % N \in 0..(N - 1)
  BY NIsPositive
<1> QED
  BY <1>1

\* A multiple of N between -N and N is 0.
LEMMA SmallMultiple ==
  ASSUME NEW k \in Int, -N < N * k, N * k < N
  PROVE  k = 0
<1>1. CASE k >= 1
  <2>1. N * k >= N
    BY <1>1, NIsPositive, Z3
  <2> QED
    BY <2>1, NIsPositive
<1>2. CASE k <= -1
  <2>1. N * k <= -N
    BY <1>2, NIsPositive, Z3
  <2> QED
    BY <2>1, NIsPositive
<1> QED
  BY <1>1, <1>2

\* Numbers that differ by a multiple of N have the same remainder ...
LEMMA SameRemainder ==
  ASSUME NEW a \in Int, NEW b \in Int, NEW k \in Int, a = b + N * k
  PROVE  a % N = b % N
<1>1. PICK i \in Int : a = N * i + (a % N)
  BY Remainder
<1>2. PICK j \in Int : b = N * j + (b % N)
  BY Remainder
<1>3. a % N \in 0..(N - 1) /\ b % N \in 0..(N - 1)
  BY Remainder
<1>4. k + j - i \in Int /\ N * (k + j - i) = (a % N) - (b % N)
  BY <1>1, <1>2, <1>3, NIsPositive, Z3
<1>5. -N < N * (k + j - i) /\ N * (k + j - i) < N
  BY <1>3, <1>4, NIsPositive
<1>6. k + j - i = 0
  BY <1>4, <1>5, SmallMultiple
<1>7. N * (k + j - i) = 0
  BY <1>6, NIsPositive
<1> QED
  BY <1>3, <1>4, <1>7

\* ... and the other way round.
LEMMA SameClass ==
  ASSUME NEW a \in Int, NEW b \in Int, a % N = b % N
  PROVE  \E k \in Int : a = b + N * k
<1>1. PICK i \in Int : a = N * i + (a % N)
  BY Remainder
<1>2. PICK j \in Int : b = N * j + (b % N)
  BY Remainder
<1>3. a % N \in Int
  BY Remainder
<1>4. i - j \in Int /\ a = b + N * (i - j)
  BY <1>1, <1>2, <1>3, NIsPositive, Z3
<1> QED
  BY <1>4

\* A reduced term of a sum may as well not be.
LEMMA ReduceTerm ==
  ASSUME NEW a \in Int, NEW b \in Int
  PROVE  ((a % N) + b) % N = (a + b) % N
<1> DEFINE r == a % N
<1>1. PICK i \in Int : a = N * i + r
  BY Remainder
<1>2. r \in Int
  BY Remainder
<1> HIDE DEF r
<1>3. a + b \in Int /\ r + b \in Int /\ a + b = (r + b) + N * i
  BY <1>1, <1>2, NIsPositive
<1>4. (a + b) % N = (r + b) % N
  BY <1>3, SameRemainder
<1> QED
  BY <1>4 DEF r

LEMMA Small == ASSUME NEW a \in Scalar PROVE a % N = a
BY NIsPositive DEF Scalar

LEMMA NegOf ==
  ASSUME NEW p \in Secret
  PROVE  Neg(p) = N - p /\ Neg(p) \in Secret
<1>1. N - p \in Scalar /\ N - p \in Secret
  BY NIsPositive DEF Scalar, Secret
<1> QED
  BY <1>1, Small DEF Neg

\* The key that signs is that of the point the x-only key lifts to.
LEMMA KeyOfPoint ==
  ASSUME d0 \in Secret
  PROVE  SigningKey(d0) = P /\ P \in Secret
BY NegOf DEF SigningKey, P, LiftX

LEMMA AddIsPoint ==
  ASSUME NEW p \in Int, NEW q \in Int
  PROVE  Add(p, q) \in Point
<1>1. p + q \in Int
  OBVIOUS
<1> QED
  BY <1>1, Remainder DEF Add, Point

LEMMA LiftIsPoint ==
  ASSUME NEW p \in Point
  PROVE  LiftX(p) \in Point
<1>1. N - p \in Int
  BY NIsPositive DEF Point
<1> QED
  BY <1>1, Remainder DEF LiftX, Neg, Point

\* Two secrets take a nonce to two different points.
LEMMA AddIsInjective ==
  ASSUME NEW R \in Scalar, NEW u \in Scalar, NEW v \in Scalar,
         Add(R, u) = Add(R, v)
  PROVE  u = v
<1>1. R + u \in Int /\ R + v \in Int /\ u - v \in Int
  BY NIsPositive DEF Scalar
<1>2. PICK k \in Int : R + u = R + v + N * k
  BY <1>1, SameClass DEF Add
<1>3. N * k = u - v /\ -N < u - v /\ u - v < N
  BY <1>2, NIsPositive DEF Scalar
<1>4. k = 0
  BY <1>3, SmallMultiple
<1> QED
  BY <1>3, <1>4, NIsPositive DEF Scalar

-----------------------------------------------------------------------------
(* The three equations.                                                    *)

\* What the chain computes from a signature completed with u: the adapted
\* nonce, off by the difference of the two challenges times the key.
LEMMA CompletedNonce ==
  ASSUME NEW R \in Scalar, NEW e \in Scalar, NEW f \in Scalar,
         NEW u \in Scalar, NEW p \in Secret
  PROVE  Add(((Add(R, e * p) + u) % N), f * Neg(p))
           = (R + u + (e * p - f * p)) % N
<1>1. /\ R \in Int /\ u \in Int /\ p \in Int /\ e \in Int /\ f \in Int
      /\ e * p \in Int /\ f * p \in Int /\ f * (N - p) \in Int /\ N * f \in Int
      /\ N \in Int
  BY NIsPositive DEF Scalar, Secret
<1>2. f * (N - p) = N * f - f * p
  BY <1>1, Z3
<1> DEFINE s == (Add(R, e * p) + u) % N
<1>3. s = (R + e * p + u) % N
  <2> DEFINE x == R + e * p
  <2>1. x \in Int
    BY <1>1
  <2> HIDE DEF x
  <2>2. ((x % N) + u) % N = (x + u) % N
    BY <1>1, <2>1, ReduceTerm
  <2> QED
    BY <2>2 DEF x, Add
<1>4. (s + f * (N - p)) % N = ((R + e * p + u) + f * (N - p)) % N
  <2> DEFINE x == R + e * p + u
             y == f * (N - p)
  <2>1. x \in Int /\ y \in Int
    BY <1>1
  <2>2. s = x % N
    BY <1>3
  <2> HIDE DEF s, x, y
  <2>3. (s + y) % N = (x + y) % N
    BY <2>1, <2>2, ReduceTerm
  <2> QED
    BY <2>3 DEF x, y
<1>5. (R + e * p + u) + f * (N - p) = (R + u + (e * p - f * p)) + N * f
  BY <1>1, <1>2
<1>6. ((R + e * p + u) + f * (N - p)) % N = (R + u + (e * p - f * p)) % N
  <2> DEFINE a == (R + e * p + u) + f * (N - p)
             b == R + u + (e * p - f * p)
  <2>1. a \in Int /\ b \in Int /\ a = b + N * f
    BY <1>1, <1>5
  <2> HIDE DEF a, b
  <2>2. f \in Int
    BY <1>1
  <2>3. a % N = b % N
    BY <2>1, <2>2, SameRemainder
  <2> QED
    BY <2>3 DEF a, b
<1> QED
  BY <1>4, <1>6, NegOf DEF Add

\* With R and the challenge fixed there is one s, and it is t past s'.
LEMMA OneResponse ==
  ASSUME NEW R \in Scalar, NEW e \in Scalar, NEW u \in Scalar,
         NEW p \in Secret, NEW s \in Scalar,
         Add(s, e * Neg(p)) = Add(R, u)
  PROVE  (s + Neg(Add(R, e * p))) % N = u
<1>1. /\ R \in Int /\ u \in Int /\ p \in Int /\ e \in Int /\ s \in Int
      /\ e * p \in Int /\ e * (N - p) \in Int /\ N * e \in Int /\ N \in Int
  BY NIsPositive DEF Scalar, Secret
<1>2. e * (N - p) = N * e - e * p
  BY <1>1, Z3
<1>3. (s + e * (N - p)) % N = (R + u) % N
  BY NegOf DEF Add
<1>4. PICK k \in Int : s + e * (N - p) = R + u + N * k
  <2> DEFINE a == s + e * (N - p)
             b == R + u
  <2>1. a \in Int /\ b \in Int /\ a % N = b % N
    BY <1>1, <1>3
  <2> HIDE DEF a, b
  <2>2. \E k \in Int : a = b + N * k
    BY <2>1, SameClass
  <2> QED
    BY <2>2 DEF a, b
<1> DEFINE x == R + e * p
           m == x % N
<1>5a. x \in Int
  BY <1>1
<1> HIDE DEF x
<1>5b. PICK j \in Int : x = N * j + m
  BY <1>5a, Remainder
<1>5. R + e * p = N * j + m
  BY <1>5b DEF x
<1>6. m \in Int
  BY <1>5a, Remainder
<1>7. Neg(m) = (N - m) % N
  BY DEF Neg
<1> HIDE DEF m
<1>8. (s + ((N - m) % N)) % N = (s + (N - m)) % N
  <2>1. (((N - m) % N) + s) % N = ((N - m) + s) % N
    BY <1>1, <1>6, ReduceTerm
  <2>2. (N - m) % N \in Int /\ N - m \in Int
    BY <1>1, <1>6, Remainder
  <2>3. ((N - m) % N) + s = s + ((N - m) % N) /\ (N - m) + s = s + (N - m)
    BY <1>1, <2>2
  <2> QED
    BY <2>1, <2>3
<1>9. s + (N - m) = u + N * (k - e + j + 1)
  <2>1. N * (k - e + j + 1) = N * k - N * e + N * j + N
    BY <1>1, Z3
  <2>2. N * k \in Int /\ N * j \in Int
    BY <1>1
  <2> QED
    BY <1>1, <1>2, <1>4, <1>5, <1>6, <2>1, <2>2
<1>10. (s + (N - m)) % N = u % N
  <2> DEFINE a == s + (N - m)
             i == k - e + j + 1
  <2>1. a \in Int /\ i \in Int /\ a = u + N * i
    BY <1>1, <1>6, <1>9
  <2> HIDE DEF a, i
  <2>2. a % N = u % N
    BY <1>1, <2>1, SameRemainder
  <2> QED
    BY <2>2 DEF a
<1> QED
  BY <1>7, <1>8, <1>10, Small DEF Add, m, x

\* Two challenges that act alike on a key are the same: the order is prime.
LEMMA SameChallenge ==
  ASSUME NEW c \in Int, NEW e \in Scalar, NEW f \in Scalar, NEW p \in Secret,
         (c + (e * p - f * p)) % N = c % N
  PROVE  e = f
<1>1. p \in Int /\ e \in Int /\ f \in Int /\ e * p \in Int /\ f * p \in Int
  BY NIsPositive DEF Scalar, Secret
<1>2. PICK k \in Int : c + (e * p - f * p) = c + N * k
  BY <1>1, SameClass
<1>3. ASSUME NEW g \in Scalar, NEW h \in Scalar, NEW i \in Int,
             g * p - h * p = N * i, g > h
      PROVE  FALSE
  <2>1. g - h \in 1..(N - 1) /\ p \in 1..(N - 1) /\ g \in Int /\ h \in Int
    BY <1>3, NIsPositive DEF Scalar, Secret
  <2>2. (g - h) * p = g * p - h * p
    BY <1>1, <2>1, Z3
  <2>3. (g - h) * p = 0 + N * i /\ (g - h) * p \in Int
    BY <1>1, <1>3, <2>1, <2>2, NIsPositive
  <2>4. ((g - h) * p) % N = 0 % N
    BY <2>3, SameRemainder
  <2>5. 0 % N = 0
    BY Small, NIsPositive DEF Scalar
  <2> QED
    BY <2>1, <2>4, <2>5, GroupAssumption DEF GroupAssumption
<1>4. e * p - f * p = N * k /\ N * k \in Int
  BY <1>1, <1>2, NIsPositive
<1>5. f * p - e * p = N * (-k)
  BY <1>1, <1>4, NIsPositive, Z3
<1> QED
  BY <1>1, <1>3, <1>4, <1>5, -k \in Int

-----------------------------------------------------------------------------
(* The steps.                                                              *)

Types ==
  /\ d0 \in Secret /\ t \in Secret /\ msg \in Msgs
  /\ counter \in 0..Tries
  /\ challenge \in [DOMAIN challenge -> Scalar]
  /\ presig \in [R : Point, s : Scalar]
  /\ sig \in [r : Point, s : Scalar]
  /\ used \in Scalar
  /\ honest \in BOOLEAN /\ verified \in BOOLEAN /\ valid \in BOOLEAN

Adapted == Question(Add(presig.R, T))

\* The presignature satisfies the equation adaptor_verify looks at.
Vouched ==
  /\ AdaptedNonceOk(presig.R, T)
  /\ Adapted \in DOMAIN challenge
  /\ presig.s = Add(presig.R, challenge[Adapted] * P)

Completed ==
  /\ AdaptedNonceOk(presig.R, used)
  /\ sig = [r |-> LiftX(Add(presig.R, used)), s |-> (presig.s + used) % N]

Checked ==
  /\ Question(sig.r) \in DOMAIN challenge
  /\ valid = NonceMatches(Add(sig.s, challenge[Question(sig.r)] * Neg(P)))

\* What each stage has established of the presignature and the signature.
AdaptorInv ==
  /\ Types
  /\ pc \in {"presign", "exhausted", "relay", "verify", "complete", "malformed",
             "broadcast", "mined", "done"}
  /\ pc = "relay" => honest
  /\ honest => Vouched /\ pc \notin {"presign", "exhausted"}
  /\ verified => Vouched
  /\ verified => pc \in {"complete", "malformed", "broadcast", "mined", "done"}
  /\ honest /\ pc \in {"complete", "malformed", "broadcast", "mined", "done"}
       => verified
  /\ pc = "malformed" => ~AdaptedNonceOk(presig.R, used)
  /\ pc \in {"broadcast", "mined", "done"} => Completed
  /\ pc \in {"mined", "done"} => Checked
  /\ extracted \in Scalar \cup {None}
  /\ pc = "done" =>
       extracted = IF Difference # 0 /\ Difference = T THEN Difference ELSE None

\* The oracle: the answer is kept, and older answers stay.
LEMMA AskKeeps ==
  ASSUME challenge \in [DOMAIN challenge -> Scalar],
         NEW q, NEW e \in Scalar, Ask(q, e)
  PROVE  /\ challenge' \in [DOMAIN challenge' -> Scalar]
         /\ q \in DOMAIN challenge' /\ challenge'[q] = e
         /\ \A x \in DOMAIN challenge :
              x \in DOMAIN challenge' /\ challenge'[x] = challenge[x]
<1>1. CASE q \in DOMAIN challenge
  BY <1>1 DEF Ask
<1>2. CASE q \notin DOMAIN challenge
  <2>1. challenge' = [x \in DOMAIN challenge \cup {q} |->
                        IF x = q THEN e ELSE challenge[x]]
    BY <1>2 DEF Ask
  <2> QED
    BY <1>2, <2>1
<1> QED
  BY <1>1, <1>2

LEMMA PresignStep ==
  ASSUME AdaptorInv, NEW k \in Scalar, NEW e \in Scalar, Presign(k, e)
  PROVE  AdaptorInv'
<1>1. /\ pc = "presign" /\ pc' = "relay" /\ honest' = TRUE
      /\ presig' = [R |-> k, s |-> Response(k, e)]
      /\ UNCHANGED <<d0, t, msg, counter, verified, used, sig, valid, extracted>>
      /\ GoodNonce(k) /\ Ask(Question(Add(k, T)), e)
  BY DEF Presign
<1>2. /\ challenge' \in [DOMAIN challenge' -> Scalar]
      /\ Question(Add(k, T)) \in DOMAIN challenge'
      /\ challenge'[Question(Add(k, T))] = e
  BY <1>1, AskKeeps DEF AdaptorInv, Types
<1>3. SigningKey(d0) = P /\ P \in Secret
  BY KeyOfPoint DEF AdaptorInv, Types
<1>4. Response(k, e) = Add(k, e * P) /\ Response(k, e) \in Scalar
  <2> DEFINE x == e * P
  <2>1. x \in Int /\ k \in Int
    BY <1>3, NIsPositive DEF Scalar, Secret
  <2> HIDE DEF x
  <2>2. Add(k, x) \in Scalar
    BY <2>1, AddIsPoint DEF Point, Scalar
  <2> QED
    BY <1>3, <2>2 DEF Response, Add, x
<1>5. presig'.R = k /\ presig'.s = Response(k, e) /\ Types'
  BY <1>1, <1>2, <1>4 DEF AdaptorInv, Types, Point, Scalar
<1>6. Vouched'
  BY <1>1, <1>2, <1>4, <1>5
  DEF Vouched, Adapted, Question, P, T, AdaptedNonceOk, GoodNonce
<1>7. ~verified
  BY <1>1 DEF AdaptorInv
<1> QED
  BY <1>1, <1>5, <1>6, <1>7 DEF AdaptorInv

LEMMA RelayStep ==
  ASSUME AdaptorInv, NEW ps \in [R : Secret, s : Scalar], Relay(ps)
  PROVE  AdaptorInv'
<1>1. /\ pc = "relay" /\ pc' = "verify" /\ presig' = ps /\ honest' = (ps = presig)
      /\ UNCHANGED <<d0, t, msg, counter, challenge, verified, used, sig, valid,
                     extracted>>
  BY DEF Relay
<1>2. Types'
  <2>1. presig' \in [R : Point, s : Scalar]
    BY <1>1 DEF Secret, Point
  <2> QED
    BY <1>1, <2>1 DEF AdaptorInv, Types
<1>3. honest' => Vouched'
  BY <1>1 DEF AdaptorInv, Vouched, Adapted, Question, P, T
<1>4. ~verified
  BY <1>1 DEF AdaptorInv
<1> QED
  BY <1>1, <1>2, <1>3, <1>4 DEF AdaptorInv

LEMMA VerifyStep ==
  ASSUME AdaptorInv, NEW e \in Scalar, Verify(e)
  PROVE  AdaptorInv'
<1>1. /\ pc = "verify" /\ pc' = "complete"
      /\ UNCHANGED <<d0, t, msg, counter, presig, honest, used, sig, valid,
                     extracted>>
  BY DEF Verify
<1>2. UNCHANGED <<Adapted, P, T, AdaptedNonceOk(presig.R, T)>>
  BY <1>1 DEF Adapted, Question, P, T
<1>3. CASE AdaptedNonceOk(presig.R, T)
  <2>1. Ask(Adapted, e) /\ verified' = (presig.s = Add(presig.R, e * P))
    BY <1>3 DEF Verify, Adapted
  <2>2. /\ challenge' \in [DOMAIN challenge' -> Scalar]
        /\ Adapted \in DOMAIN challenge' /\ challenge'[Adapted] = e
        /\ \A x \in DOMAIN challenge :
             x \in DOMAIN challenge' /\ challenge'[x] = challenge[x]
    BY <2>1, AskKeeps DEF AdaptorInv, Types
  <2>3. verified' \in BOOLEAN /\ (verified' <=> presig.s = Add(presig.R, e * P))
    BY <2>1
  <2>4. Vouched' <=> verified'
    BY <1>1, <1>2, <1>3, <2>2, <2>3 DEF Vouched
  <2>5. Vouched => Vouched'
    BY <1>1, <1>2, <2>2 DEF Vouched
  <2>6. Types'
    BY <1>1, <2>2, <2>3 DEF AdaptorInv, Types
  <2> QED
    BY <1>1, <2>4, <2>5, <2>6 DEF AdaptorInv
<1>4. CASE ~AdaptedNonceOk(presig.R, T)
  <2>1. challenge' = challenge /\ verified' = FALSE /\ ~Vouched
    BY <1>4 DEF Verify, Vouched
  <2>2. Types'
    BY <1>1, <2>1 DEF AdaptorInv, Types
  <2> QED
    BY <1>1, <2>1, <2>2 DEF AdaptorInv
<1> QED
  BY <1>3, <1>4

LEMMA CompleteStep ==
  ASSUME AdaptorInv, NEW u \in Secret, Complete(u)
  PROVE  AdaptorInv'
<1>1. /\ pc = "complete" /\ used' = u
      /\ UNCHANGED <<d0, t, msg, counter, challenge, presig, honest, verified,
                     valid, extracted>>
  BY DEF Complete
<1>2. u \in Scalar /\ u \in Int /\ presig.R \in Int /\ presig.s \in Int
  BY NIsPositive DEF Secret, Scalar, Point, AdaptorInv, Types
<1>3. Vouched' <=> Vouched
  BY <1>1 DEF Vouched, Adapted, Question, P, T
<1>4. CASE AdaptedNonceOk(presig.R, u)
  <2>1. /\ sig' = [r |-> LiftX(Add(presig.R, u)), s |-> (presig.s + u) % N]
        /\ pc' = "broadcast"
    BY <1>4 DEF Complete
  <2>2. LiftX(Add(presig.R, u)) \in Point
    BY <1>2, AddIsPoint, LiftIsPoint
  <2>3. (presig.s + u) % N \in Scalar
    BY <1>2, AddIsPoint DEF Add, Point, Scalar
  <2>4. Types'
    BY <1>1, <1>2, <2>1, <2>2, <2>3 DEF AdaptorInv, Types
  <2>5. Completed'
    BY <1>1, <1>4, <2>1 DEF Completed
  <2> QED
    BY <1>1, <1>3, <2>1, <2>4, <2>5 DEF AdaptorInv
<1>5. CASE ~AdaptedNonceOk(presig.R, u)
  <2>1. sig' = sig /\ pc' = "malformed"
    BY <1>5 DEF Complete
  <2>2. Types'
    BY <1>1, <1>2, <2>1 DEF AdaptorInv, Types
  <2>3. ~AdaptedNonceOk(presig'.R, used')
    BY <1>1, <1>5
  <2> QED
    BY <1>1, <1>3, <2>1, <2>2, <2>3 DEF AdaptorInv
<1> QED
  BY <1>4, <1>5

LEMMA SchnorrStep ==
  ASSUME AdaptorInv, NEW e \in Scalar, VerifySchnorr(e)
  PROVE  AdaptorInv'
<1>1. /\ pc = "broadcast" /\ pc' = "mined"
      /\ valid' = NonceMatches(Add(sig.s, e * Neg(P)))
      /\ Ask(Question(sig.r), e)
      /\ UNCHANGED <<d0, t, msg, counter, presig, honest, verified, used, sig,
                     extracted>>
  BY DEF VerifySchnorr
<1>2. /\ challenge' \in [DOMAIN challenge' -> Scalar]
      /\ Question(sig.r) \in DOMAIN challenge'
      /\ challenge'[Question(sig.r)] = e
      /\ \A x \in DOMAIN challenge :
           x \in DOMAIN challenge' /\ challenge'[x] = challenge[x]
  BY <1>1, AskKeeps DEF AdaptorInv, Types
<1>3. UNCHANGED <<Adapted, P, T, Question(sig.r)>>
  BY <1>1 DEF Adapted, Question, P, T
<1>4. Vouched => Vouched'
  BY <1>1, <1>2, <1>3 DEF Vouched, T
<1>5. Completed'
  BY <1>1 DEF AdaptorInv, Completed
<1>6. valid' \in BOOLEAN
  BY <1>1 DEF NonceMatches
<1>7. Types'
  BY <1>1, <1>2, <1>6 DEF AdaptorInv, Types
<1>8. Checked'
  BY <1>1, <1>2, <1>3 DEF Checked, NonceMatches
<1> QED
  BY <1>1, <1>4, <1>5, <1>7, <1>8 DEF AdaptorInv

LEMMA ExtractStep ==
  ASSUME AdaptorInv, Extract
  PROVE  AdaptorInv'
<1>1. /\ pc = "mined" /\ pc' = "done"
      /\ extracted' = IF Difference # 0 /\ Difference = T THEN Difference ELSE None
      /\ UNCHANGED <<d0, t, msg, counter, challenge, presig, honest, verified,
                     used, sig, valid>>
  BY DEF Extract
<1>2. UNCHANGED <<Difference, T, P, Adapted, Question(sig.r)>>
  BY <1>1 DEF Difference, T, P, Adapted, Question
<1>3. Types' /\ (Vouched' <=> Vouched) /\ (Completed' <=> Completed)
      /\ (Checked' <=> Checked)
  BY <1>1, <1>2 DEF AdaptorInv, Types, Vouched, Completed, Checked, NonceMatches, T
<1>4. T \in Scalar
  BY DEF T, AdaptorInv, Types, Secret, Scalar
<1>5. extracted' \in Scalar \cup {None}
  BY <1>1, <1>4
<1> QED
  BY <1>1, <1>2, <1>3, <1>5 DEF AdaptorInv

LEMMA AdaptorStep ==
  ASSUME AdaptorInv, [Next]_vars
  PROVE  AdaptorInv'
<1>1. ASSUME NEW k \in Scalar, RetryNonce(k) PROVE AdaptorInv'
  <2>1. /\ pc = "presign" /\ counter' = counter + 1 /\ counter < Tries
        /\ UNCHANGED <<pc, d0, t, msg, challenge, presig, honest, verified, used,
                       sig, valid, extracted>>
    BY <1>1 DEF RetryNonce
  <2>2. counter' \in 0..Tries
    BY <2>1, GroupAssumption DEF GroupAssumption, AdaptorInv, Types
  <2> QED
    BY <2>1, <2>2 DEF AdaptorInv, Types
<1>2. CASE GiveUp
  BY <1>2 DEF GiveUp, AdaptorInv, Types
<1>3. ASSUME NEW k \in Scalar, NEW e \in Scalar, Presign(k, e) PROVE AdaptorInv'
  BY <1>3, PresignStep
<1>4. ASSUME NEW R \in Secret, NEW s \in Scalar, Relay([R |-> R, s |-> s])
      PROVE  AdaptorInv'
  BY <1>4, RelayStep
<1>5. ASSUME NEW u \in Secret, Complete(u) PROVE AdaptorInv'
  BY <1>5, CompleteStep
<1>6. ASSUME NEW e \in Scalar, Verify(e) \/ VerifySchnorr(e) PROVE AdaptorInv'
  BY <1>6, VerifyStep, SchnorrStep
<1>7. CASE Extract
  BY <1>7, ExtractStep
<1>8. CASE UNCHANGED vars
  BY <1>8 DEF vars, AdaptorInv, Types, Vouched, Completed, Checked, Adapted,
              Question, P, T, Difference, NonceMatches
<1> QED
  BY <1>1, <1>2, <1>3, <1>4, <1>5, <1>6, <1>7, <1>8 DEF Next

LEMMA AdaptorInit == Init => AdaptorInv
<1> SUFFICES ASSUME Init PROVE AdaptorInv
  OBVIOUS
<1>1. 0 \in Scalar /\ 0 \in Point /\ 0 \in 0..Tries
  BY GroupAssumption DEF GroupAssumption, Scalar, Point
<1>2. challenge \in [DOMAIN challenge -> Scalar]
  <2>1. DOMAIN challenge = {}
    BY DEF Init
  <2> QED
    BY <2>1 DEF Init
<1>3. presig \in [R : Point, s : Scalar] /\ sig \in [r : Point, s : Scalar]
  BY <1>1 DEF Init
<1>4. Types
  BY <1>1, <1>2, <1>3 DEF Init, Types
<1>5. pc = "presign" /\ honest = FALSE /\ verified = FALSE /\ extracted = None
  BY DEF Init
<1> QED
  BY <1>4, <1>5 DEF AdaptorInv, Vouched, Completed, Checked

\* The invariant holds at every stage of every claim.
THEOREM AdaptorInvariant == Spec => []AdaptorInv
BY AdaptorInit, AdaptorStep, PTL DEF Spec

-----------------------------------------------------------------------------
(* The properties.                                                         *)

\* Types: every scalar stays reduced and the nonce search inside its bound.
THEOREM AdaptorTypeOK == Spec => []TypeOK
<1>1. AdaptorInv => TypeOK
  BY DEF AdaptorInv, Types, TypeOK
<1> QED
  BY <1>1, AdaptorInvariant, PTL

\* What adaptor_presign returns, adaptor_verify accepts.
THEOREM PresignTheorem == Spec => []PresignVerifies
<1>1. AdaptorInv => PresignVerifies
  BY DEF AdaptorInv, PresignVerifies
<1> QED
  BY <1>1, AdaptorInvariant, PTL

\* The nonce the chain computes from a signature completed with used.
LEMMA MinedNonce ==
  ASSUME AdaptorInv, verified, pc \in {"mined", "done"}
  PROVE  LET e == challenge[Adapted]
             f == challenge[Question(sig.r)]
         IN  /\ e \in Scalar /\ f \in Scalar /\ P \in Secret
             /\ presig.R \in Scalar /\ sig.r = Add(presig.R, used)
             /\ HasEvenY(sig.r) /\ sig.r # Infinity
             /\ Add(sig.s, f * Neg(P)) = (presig.R + used + (e * P - f * P)) % N
<1> DEFINE e == challenge[Adapted]
           f == challenge[Question(sig.r)]
<1>1. Vouched /\ Completed /\ Checked /\ Types
  BY DEF AdaptorInv
<1>2. e \in Scalar /\ f \in Scalar
  BY <1>1 DEF Vouched, Checked, Types
<1>3. P \in Secret /\ presig.R \in Scalar /\ used \in Scalar
  BY <1>1, KeyOfPoint DEF Types, Point, Scalar
<1>4. sig.r = Add(presig.R, used) /\ HasEvenY(sig.r) /\ sig.r # Infinity
  BY <1>1 DEF Completed, AdaptedNonceOk, LiftX
<1>5. sig.s = (Add(presig.R, e * P) + used) % N
  BY <1>1 DEF Completed, Vouched
<1> HIDE DEF e, f
<1>6. Add(sig.s, f * Neg(P)) = (presig.R + used + (e * P - f * P)) % N
  BY <1>2, <1>3, <1>5, CompletedNonce
<1> QED
  BY <1>2, <1>3, <1>4, <1>6 DEF e, f

\* A verified presignature never fails the holder of t.
THEOREM CompletionTheorem == Spec => []VerifiedCompletes
<1>1. ASSUME AdaptorInv, verified, used = t PROVE pc # "malformed"
  BY <1>1 DEF AdaptorInv, Vouched, T
<1>2. ASSUME AdaptorInv, verified, used = t, pc \in {"mined", "done"} PROVE valid
  <2> DEFINE e == challenge[Adapted]
             f == challenge[Question(sig.r)]
  <2>1. /\ e \in Scalar /\ f \in Scalar /\ P \in Secret
        /\ presig.R \in Scalar /\ sig.r = Add(presig.R, used)
        /\ HasEvenY(sig.r) /\ sig.r # Infinity
        /\ Add(sig.s, f * Neg(P)) = (presig.R + used + (e * P - f * P)) % N
    BY <1>2, MinedNonce
  <2>2. e = f
    BY <1>2, <2>1 DEF Adapted, T
  <2>3. e * P \in Int /\ presig.R + used \in Int
    BY <1>2, <2>1, NIsPositive DEF Scalar, Secret, AdaptorInv, Types
  <2>4. presig.R + used + (e * P - f * P) = presig.R + used
    BY <2>2, <2>3
  <2>5. Add(sig.s, f * Neg(P)) = sig.r
    BY <2>1, <2>4 DEF Add
  <2>6. NonceMatches(sig.r)
    BY <2>1 DEF NonceMatches, LiftX
  <2> QED
    BY <1>2, <2>5, <2>6 DEF AdaptorInv, Checked
<1>3. AdaptorInv => VerifiedCompletes
  BY <1>1, <1>2 DEF VerifiedCompletes
<1> QED
  BY <1>3, AdaptorInvariant, PTL

\* A signature the chain accepts over the adapted nonce reveals t.
THEOREM RevealTheorem == Spec => []AcceptedReveals
<1>1. ASSUME AdaptorInv, pc = "done", verified, valid,
             sig.r = LiftX(Add(presig.R, T))
      PROVE  extracted = t
  <2> DEFINE e == challenge[Adapted]
  <2>1. Vouched /\ Checked /\ Types
    BY <1>1 DEF AdaptorInv
  <2>2. sig.r = Add(presig.R, T)
    BY <1>1, <2>1 DEF Vouched, AdaptedNonceOk, LiftX
  <2>3. NonceMatches(Add(sig.s, e * Neg(P)))
    BY <1>1, <2>1, <2>2 DEF Checked, Adapted
  <2>4. Add(sig.s, e * Neg(P)) = Add(presig.R, T)
    BY <2>2, <2>3 DEF NonceMatches, LiftX
  <2>5. /\ e \in Scalar /\ presig.R \in Scalar /\ sig.s \in Scalar
        /\ T \in Secret /\ T \in Scalar /\ P \in Secret
    BY <2>1, KeyOfPoint, NIsPositive
    DEF Vouched, Types, Point, Scalar, Secret, T
  <2>6. presig.s = Add(presig.R, e * P)
    BY <2>1 DEF Vouched
  <2> HIDE DEF e
  <2>7. (sig.s + Neg(Add(presig.R, e * P))) % N = T
    BY <2>4, <2>5, OneResponse
  <2>8. Difference = T
    BY <2>6, <2>7 DEF Difference
  <2>9. T # 0
    BY <2>5 DEF Secret
  <2> QED
    BY <1>1, <2>8, <2>9 DEF AdaptorInv, T
<1>2. AdaptorInv => AcceptedReveals
  BY <1>1 DEF AcceptedReveals
<1> QED
  BY <1>2, AdaptorInvariant, PTL

\* Completed with another scalar it is no signature, unless two nonces have
\* the same challenge.
THEOREM UselessTheorem == Spec => []WrongSecretIsUseless
<1>1. ASSUME AdaptorInv, pc \in {"mined", "done"}, verified, valid, used # t
      PROVE  /\ Adapted \in DOMAIN challenge /\ Adapted # Question(sig.r)
             /\ challenge[Adapted] = challenge[Question(sig.r)]
  <2> DEFINE e == challenge[Adapted]
             f == challenge[Question(sig.r)]
  <2>1. /\ e \in Scalar /\ f \in Scalar /\ P \in Secret
        /\ presig.R \in Scalar /\ sig.r = Add(presig.R, used)
        /\ HasEvenY(sig.r) /\ sig.r # Infinity
        /\ Add(sig.s, f * Neg(P)) = (presig.R + used + (e * P - f * P)) % N
    BY <1>1, MinedNonce
  <2>2. used \in Scalar /\ t \in Scalar /\ Adapted \in DOMAIN challenge
    BY <1>1, NIsPositive DEF AdaptorInv, Types, Vouched, Secret, Scalar
  <2>3. Add(presig.R, used) # Add(presig.R, t)
    BY <1>1, <2>1, <2>2, AddIsInjective
  <2>4. Adapted # Question(sig.r)
    BY <2>1, <2>3 DEF Adapted, Question, T
  <2>5. Add(sig.s, f * Neg(P)) = sig.r
    BY <1>1, <2>1 DEF AdaptorInv, Checked, NonceMatches, LiftX
  <2> DEFINE c == presig.R + used
  <2>6. c \in Int
    BY <2>1, <2>2, NIsPositive DEF Scalar
  <2>7. (c + (e * P - f * P)) % N = c % N
    BY <2>1, <2>5 DEF Add
  <2> HIDE DEF c, e, f
  <2>8. e = f
    BY <2>1, <2>6, <2>7, SameChallenge
  <2> QED
    BY <2>2, <2>4, <2>8 DEF e, f
<1>2. AdaptorInv => WrongSecretIsUseless
  BY <1>1 DEF WrongSecretIsUseless
<1> QED
  BY <1>2, AdaptorInvariant, PTL

=============================================================================
