-------------------------- MODULE LeafSpendProofs ---------------------------
(***************************************************************************)
(* The four invariants of LeafSpend, for every leaf with a timeout below   *)
(* 2^31, all keys and all moments.  The first half is about the bytes of   *)
(* the scripts: what the builders write, what the signer finds in it and   *)
(* the number the chain reads.  The second half is about the run: LeafInv  *)
(* says what the PSBT, the parsed inputs, the analysis and the witness     *)
(* have to do with one another at every point of it.                       *)
(***************************************************************************)
EXTENDS LeafSpend, SequenceTheorems, TLAPS

-----------------------------------------------------------------------------
(* Numbers.                                                                *)

\* What the proofs use of the largest timeout.
LEMMA MaxTimeoutIsLarge ==
  MaxTimeout \in Nat /\ MaxTimeout > 16 /\ MaxTimeout <= 2147483647
BY SMT DEF MaxTimeout

\* The number in the first n bytes of b, at most four.
Number(b, n) ==
  IF n = 0 THEN 0
  ELSE IF n = 1 THEN b[1]
  ELSE IF n = 2 THEN b[1] + 256 * b[2]
  ELSE IF n = 3 THEN b[1] + 256 * (b[2] + 256 * b[3])
  ELSE b[1] + 256 * (b[2] + 256 * (b[3] + 256 * b[4]))

\* What int.from_bytes makes of up to four bytes.
LEMMA LittleEndianValue ==
  ASSUME NEW b \in Seq(Byte), NEW n \in 0..4, Len(b) = n
  PROVE  LittleEndian(b) = Number(b, n)
<1>1. \A i \in 1..n : b[i] \in Int
  <2>1. \A i \in 1..n : b[i] \in Byte
    OBVIOUS
  <2>2. \A x \in Byte : x \in Int
    BY DEF Byte
  <2> QED
    BY <2>1, <2>2, Zenon
<1> DEFINE byte(i) == IF i \in 1..n THEN b[i] ELSE 0
           Is(f) == f = [i \in 1..(n + 1) |-> IF i > n THEN 0 ELSE b[i] + 256 * f[i + 1]]
           g(i) == byte(i) + 256 * (byte(i + 1) + 256 * (byte(i + 2) + 256 * byte(i + 3)))
           f0 == [i \in 1..(n + 1) |-> g(i)]
           from == CHOOSE f : Is(f)
<1>2. LittleEndian(b) = from[1]
  BY DEF LittleEndian
<1>3. Is(f0)
  <2> SUFFICES ASSUME NEW i \in 1..(n + 1)
               PROVE  g(i) = IF i > n THEN 0 ELSE b[i] + 256 * f0[i + 1]
    <3> HIDE DEF g
    <3> QED
      OBVIOUS
  <2>1. CASE i > n
    <3>1. byte(i) = 0 /\ byte(i + 1) = 0 /\ byte(i + 2) = 0 /\ byte(i + 3) = 0
      BY <1>1, <2>1
    <3> HIDE DEF byte
    <3> QED
      BY <2>1, <3>1
  <2>2. CASE i <= n
    <3>1. f0[i + 1] = g(i + 1) /\ byte(i) = b[i] /\ byte(i + 4) = 0
      BY <1>1, <2>2
    <3>2. byte(i + 1) \in Int /\ byte(i + 2) \in Int /\ byte(i + 3) \in Int
      BY <1>1
    <3>3. /\ i + 1 + 1 = i + 2 /\ i + 1 + 2 = i + 3 /\ i + 1 + 3 = i + 4
      BY <1>1
    <3>4. f0[i + 1] = byte(i + 1) + 256 * (byte(i + 2) + 256 * (byte(i + 3) + 256 * byte(i + 4)))
      BY <3>1, <3>3
    <3> HIDE DEF byte, f0
    <3> QED
      BY <1>1, <2>2, <3>1, <3>2, <3>4
  <2> QED
    BY <1>1, <2>1, <2>2
<1>4. Is(from)
  <2> HIDE DEF Is, f0
  <2> QED
    BY <1>3, Zenon
<1> HIDE DEF from
<1>5. \A i \in 1..(n + 1) : from[i] = IF i > n THEN 0 ELSE b[i] + 256 * from[i + 1]
  BY <1>4, Zenon
<1>6. CASE n = 0
  BY <1>2, <1>5, <1>6 DEF Number
<1>7. CASE n = 1
  <2>1. from[2] = 0
    BY <1>5, <1>7
  <2>2. from[1] = b[1] + 256 * from[2]
    BY <1>5, <1>7
  <2> QED
    BY <1>1, <1>2, <1>7, <2>1, <2>2 DEF Number
<1>8. CASE n = 2
  <2>1. from[3] = 0 /\ from[2] = b[2] + 256 * from[3] /\ from[1] = b[1] + 256 * from[2]
    BY <1>5, <1>8
  <2> QED
    BY <1>1, <1>2, <1>8, <2>1 DEF Number
<1>9. CASE n = 3
  <2>1. /\ from[4] = 0 /\ from[3] = b[3] + 256 * from[4]
        /\ from[2] = b[2] + 256 * from[3] /\ from[1] = b[1] + 256 * from[2]
    BY <1>5, <1>9
  <2> QED
    BY <1>1, <1>2, <1>9, <2>1 DEF Number
<1>10. CASE n = 4
  <2>1. /\ from[5] = 0 /\ from[4] = b[4] + 256 * from[5]
        /\ from[3] = b[3] + 256 * from[4]
        /\ from[2] = b[2] + 256 * from[3] /\ from[1] = b[1] + 256 * from[2]
    BY <1>5, <1>10
  <2> QED
    BY <1>1, <1>2, <1>10, <2>1 DEF Number
<1> QED
  BY <1>1, <1>6, <1>7, <1>8, <1>9, <1>10

\* Division by the weights takes a number apart and nothing is lost.
LEMMA NumberInBytes ==
  ASSUME NEW n \in 1..MaxTimeout
  PROVE  LET b1 == (n \div Weight[1]) % 256
             b2 == (n \div Weight[2]) % 256
             b3 == (n \div Weight[3]) % 256
             b4 == (n \div Weight[4]) % 256
         IN  /\ b1 \in 0..255 /\ b2 \in 0..255 /\ b3 \in 0..255 /\ b4 \in 0..127
             /\ n = b1 + 256 * (b2 + 256 * (b3 + 256 * b4))
             /\ n < Weight[4] => b4 = 0
             /\ n < Weight[3] => b3 = 0
             /\ n < Weight[2] => b2 = 0
<1> DEFINE q1 == n \div 256
           q2 == n \div 65536
           q3 == n \div 16777216
<1>1. n \in Nat /\ n <= 2147483647
  BY MaxTimeoutIsLarge, SMT
<1>2. Weight[1] = 1 /\ Weight[2] = 256 /\ Weight[3] = 65536 /\ Weight[4] = 16777216
  BY SMT DEF Weight
<1>3. /\ q1 \in Nat /\ q2 \in Nat /\ q3 \in Nat
      /\ q2 = q1 \div 256 /\ q3 = q2 \div 256 /\ n \div 1 = n
      /\ q3 <= 127
  BY <1>1, SMT
<1>4. /\ n = (n % 256) + 256 * q1
      /\ q1 = (q1 % 256) + 256 * q2
      /\ q2 = (q2 % 256) + 256 * q3
      /\ q3 % 256 = q3
      /\ n % 256 \in 0..255 /\ q1 % 256 \in 0..255 /\ q2 % 256 \in 0..255
  BY <1>1, <1>3, SMT
<1>5. /\ n < 16777216 => q3 = 0
      /\ n < 65536 => q2 = 0
      /\ n < 256 => q1 = 0
  BY <1>1, SMT
<1>6. q3 \in 0..127
  BY <1>3, SMT
<1> HIDE DEF q1, q2, q3
<1>7. /\ n = (n % 256) + 256 * ((q1 % 256) + 256 * ((q2 % 256) + 256 * (q3 % 256)))
      /\ q1 = 0 => q1 % 256 = 0
      /\ q2 = 0 => q2 % 256 = 0
      /\ q3 = 0 => q3 % 256 = 0
  BY <1>4, SMT
<1>8. /\ (n \div Weight[1]) % 256 = n % 256
      /\ (n \div Weight[2]) % 256 = q1 % 256
      /\ (n \div Weight[3]) % 256 = q2 % 256
      /\ (n \div Weight[4]) % 256 = q3 % 256
  BY <1>2, <1>3, SMT DEF q1, q2, q3
<1>9. q3 % 256 \in 0..127
  BY <1>4, <1>6, SMT
<1> DEFINE b1 == (n \div Weight[1]) % 256
           b2 == (n \div Weight[2]) % 256
           b3 == (n \div Weight[3]) % 256
           b4 == (n \div Weight[4]) % 256
<1>10. /\ b1 = n % 256 /\ b2 = q1 % 256 /\ b3 = q2 % 256 /\ b4 = q3 % 256
  BY <1>8
<1> HIDE DEF b1, b2, b3, b4
<1>11. b1 \in 0..255 /\ b2 \in 0..255 /\ b3 \in 0..255 /\ b4 \in 0..127
  BY <1>4, <1>9, <1>10
<1>12. n = b1 + 256 * (b2 + 256 * (b3 + 256 * b4))
  BY <1>7, <1>10
<1>13. /\ n < Weight[4] => b4 = 0
       /\ n < Weight[3] => b3 = 0
       /\ n < Weight[2] => b2 = 0
  BY <1>2, <1>5, <1>7, <1>10
<1> QED
  BY <1>11, <1>12, <1>13 DEF b1, b2, b3, b4

\* A timeout above 16 becomes one to four bytes or, where the sign bit would be
\* set, one byte more; they are never negative and are read back as written.
LEMMA ScriptNumValue ==
  ASSUME NEW n \in 1..MaxTimeout
  PROVE  /\ ScriptNum(n) \in Seq(Byte) /\ Len(ScriptNum(n)) \in 1..4
         /\ ScriptNum(n)[Len(ScriptNum(n))] < 128
         /\ LittleEndian(ScriptNum(n)) = n
<1> DEFINE byte(i) == (n \div Weight[i]) % 256
           w == Width(n)
           b == Bytes(n, w)
           s == ScriptNum(n)
<1>1. /\ byte(1) \in 0..255 /\ byte(2) \in 0..255 /\ byte(3) \in 0..255 /\ byte(4) \in 0..127
      /\ n = byte(1) + 256 * (byte(2) + 256 * (byte(3) + 256 * byte(4)))
      /\ n < Weight[4] => byte(4) = 0
      /\ n < Weight[3] => byte(3) = 0
      /\ n < Weight[2] => byte(2) = 0
  BY NumberInBytes
<1>2. \A i \in 1..4 : byte(i) \in Byte
  BY <1>1 DEF Byte
<1>3. w \in 1..4 /\ (w = 1 => n < Weight[2]) /\ (w = 2 => n < Weight[3])
      /\ (w = 3 => n < Weight[4])
  BY SMT DEF Width
<1>4. s = IF Last(b) >= 128 THEN Append(b, 0) ELSE b
  BY DEF ScriptNum
<1>5. Weight[2] < Weight[3] /\ Weight[3] < Weight[4] /\ Weight[2] \in Int
      /\ Weight[3] \in Int /\ Weight[4] \in Int /\ n \in Int
  BY MaxTimeoutIsLarge, SMT DEF Weight
<1>6. b = [i \in 1..w |-> byte(i)]
  BY DEF Bytes
<1> HIDE DEF byte, w
<1>7. b \in Seq(Byte) /\ Len(b) = w /\ \A i \in 1..w : b[i] = byte(i)
  BY <1>2, <1>3, <1>6
<1> HIDE DEF b
<1>8. Last(b) = byte(w)
  BY <1>3, <1>7 DEF Last
<1>9. PICK m \in 1..4 :
        /\ s \in Seq(Byte) /\ Len(s) = m /\ s[m] < 128
        /\ \A i \in 1..m : s[i] = byte(i)
        /\ \A i \in (m + 1)..4 : byte(i) = 0
  <2>1. \A i \in (w + 1)..4 : byte(i) = 0
    BY <1>1, <1>3, <1>5
  <2>2. CASE byte(w) < 128
    <3>1. ~(byte(w) >= 128)
      BY <1>2, <1>3, <2>2 DEF Byte
    <3>2. s = b
      BY <1>4, <1>8, <3>1
    <3> QED
      BY <1>3, <1>7, <2>1, <2>2, <3>2
  <2>3. CASE byte(w) >= 128
    <3>1. w # 4
      BY <1>1, <2>3
    <3>2. w + 1 \in 1..4 /\ byte(w + 1) = 0
      BY <1>3, <2>1, <3>1
    <3>3. 0 \in Byte
      BY DEF Byte
    <3>4. s = Append(b, 0)
      BY <1>4, <1>8, <2>3
    <3>5. s \in Seq(Byte) /\ Len(s) = w + 1 /\ s[w + 1] = 0
      BY <1>3, <1>7, <3>3, <3>4
    <3>6. \A i \in 1..(w + 1) : s[i] = byte(i)
      BY <1>3, <1>7, <3>2, <3>4, <3>5
    <3>7. \A i \in (w + 1 + 1)..4 : byte(i) = 0
      BY <1>3, <2>1
    <3> QED
      BY <3>2, <3>5, <3>6, <3>7
  <2>4. byte(w) < 128 \/ byte(w) >= 128
    BY <1>2, <1>3 DEF Byte
  <2> QED
    BY <2>2, <2>3, <2>4
<1> HIDE DEF s
<1>10. LittleEndian(s) = n
  <2>0. m \in 0..4 /\ s \in Seq(Byte) /\ Len(s) = m
    BY <1>9
  <2>1. LittleEndian(s) = Number(s, m)
    BY <2>0, LittleEndianValue
  <2>2. /\ m <= 1 => byte(2) = 0
        /\ m <= 2 => byte(3) = 0
        /\ m <= 3 => byte(4) = 0
    BY <1>9
  <2>3. /\ s[1] = byte(1) /\ (m >= 2 => s[2] = byte(2))
        /\ (m >= 3 => s[3] = byte(3)) /\ (m >= 4 => s[4] = byte(4))
    BY <1>9
  <2> QED
    BY <1>1, <2>1, <2>2, <2>3 DEF Number
<1> QED
  BY <1>9, <1>10 DEF s

-----------------------------------------------------------------------------
(* Sequences of bytes, and the scripts with a timeout.                     *)

\* s is made of n bytes.
IsBytes(s, n) == s \in Seq(Byte) /\ Len(s) = n

\* The first n bytes of d stand in s after the first f.
Part(s, f, d, n) == \A j \in 1..n : s[f + j] = d[j]

\* The parts of a concatenation and their places.
LEMMA TwoParts ==
  ASSUME NEW a, NEW b, NEW m \in Nat, NEW n \in Nat, IsBytes(a, m), IsBytes(b, n)
  PROVE  IsBytes(a \o b, m + n) /\ Part(a \o b, 0, a, m) /\ Part(a \o b, m, b, n)
<1>1. a \in Seq(Byte) /\ Len(a) = m /\ b \in Seq(Byte) /\ Len(b) = n
  BY DEF IsBytes
<1>2. /\ a \o b \in Seq(Byte) /\ Len(a \o b) = m + n
      /\ \A i \in 1..(m + n) : (a \o b)[i] = IF i <= m THEN a[i] ELSE b[i - m]
  BY <1>1, ConcatProperties
<1>3. ASSUME NEW j \in 1..m PROVE (a \o b)[0 + j] = a[j]
  BY <1>2
<1>4. ASSUME NEW j \in 1..n PROVE (a \o b)[m + j] = b[j]
  <2>1. m + j \in 1..(m + n) /\ ~(m + j <= m) /\ (m + j) - m = j
    OBVIOUS
  <2> QED
    BY <1>2, <2>1
<1> QED
  BY <1>2, <1>3, <1>4 DEF IsBytes, Part

\* A part of a part, and of what it is put in front of.
LEMMA PartOfFirst ==
  ASSUME NEW s, NEW t, NEW d, NEW m \in Nat, NEW f \in Nat, NEW n \in Nat,
         Part(s, 0, t, m), Part(t, f, d, n), f + n <= m
  PROVE  Part(s, f, d, n)
<1> SUFFICES ASSUME NEW j \in 1..n PROVE s[f + j] = d[j]
  BY DEF Part
<1>1. f + j \in 1..m /\ 0 + (f + j) = f + j
  OBVIOUS
<1> QED
  BY <1>1 DEF Part

LEMMA FourParts ==
  ASSUME NEW a, NEW b, NEW c, NEW d,
         NEW i \in Nat, NEW j \in Nat, NEW k \in Nat, NEW l \in Nat,
         IsBytes(a, i), IsBytes(b, j), IsBytes(c, k), IsBytes(d, l)
  PROVE  /\ IsBytes(a \o b \o c \o d, i + j + k + l)
         /\ Part(a \o b \o c \o d, 0, a, i)
         /\ Part(a \o b \o c \o d, i, b, j)
         /\ Part(a \o b \o c \o d, i + j, c, k)
         /\ Part(a \o b \o c \o d, i + j + k, d, l)
<1> DEFINE t == a \o b
           u == t \o c
           s == u \o d
<1>1. IsBytes(t, i + j) /\ Part(t, 0, a, i) /\ Part(t, i, b, j)
  BY TwoParts
<1> HIDE DEF t
<1>2. /\ IsBytes(u, i + j + k) /\ Part(u, 0, t, i + j) /\ Part(u, i + j, c, k)
      /\ i + j \in Nat
  BY <1>1, TwoParts
<1> HIDE DEF u
<1>3. /\ IsBytes(s, i + j + k + l) /\ Part(s, 0, u, i + j + k)
      /\ Part(s, i + j + k, d, l) /\ i + j + k \in Nat
  BY <1>2, TwoParts
<1> HIDE DEF s
<1>4. Part(s, i + j, c, k) /\ Part(s, 0, t, i + j)
  BY <1>2, <1>3, PartOfFirst
<1>5. Part(s, 0, a, i) /\ Part(s, i, b, j)
  BY <1>1, <1>2, <1>4, PartOfFirst
<1> QED
  BY <1>3, <1>4, <1>5 DEF s, u, t

\* One byte, two bytes.
LEMMA ShortParts ==
  ASSUME NEW x \in Byte, NEW y \in Byte
  PROVE  IsBytes(<<x>>, 1) /\ IsBytes(<<x, y>>, 2)
BY DEF IsBytes

\* The pushes of both builders are the same up to 75 bytes.
LEMMA SamePush ==
  ASSUME NEW d, NEW n \in Nat, n <= 75, Len(d) = n
  PROVE  PushData(d) = <<n>> \o d /\ LendingPushData(d) = <<n>> \o d
BY DEF PushData, LendingPushData

\* A push of up to 75 bytes.
LEMMA PushLayout ==
  ASSUME NEW d, NEW n \in Nat, n <= 75, IsBytes(d, n)
  PROVE  /\ IsBytes(<<n>> \o d, n + 1)
         /\ (<<n>> \o d)[1] = n
         /\ Part(<<n>> \o d, 1, d, n)
<1>1. n \in Byte
  BY DEF Byte
<1>2. IsBytes(<<n>>, 1)
  BY <1>1, ShortParts
<1>3. /\ IsBytes(<<n>> \o d, 1 + n)
      /\ Part(<<n>> \o d, 0, <<n>>, 1) /\ Part(<<n>> \o d, 1, d, n)
  BY <1>2, TwoParts, 1 \in Nat, Zenon
<1>4. (<<n>> \o d)[1] = n
  BY <1>3 DEF Part
<1> QED
  BY <1>3, <1>4

\* The push of a timeout: one byte for a small one, otherwise the length and
\* the bytes of the number.
LEMMA PushIntLayout ==
  ASSUME NEW n \in 0..MaxTimeout
  PROVE  /\ LendingPushInt(n) = PushInt(n)
         /\ \/ n <= 16 /\ PushInt(n) = <<IF n = 0 THEN 0 ELSE 80 + n>>
                       /\ IsBytes(PushInt(n), 1)
            \/ /\ n > 16
               /\ \E m \in 1..4 :
                    /\ IsBytes(ScriptNum(n), m) /\ IsBytes(PushInt(n), m + 1)
                    /\ PushInt(n)[1] = m /\ PushInt(n)[m + 1] < 128
                    /\ Part(PushInt(n), 1, ScriptNum(n), m)
<1>1. CASE n <= 16
  <2>1. PushInt(n) = <<IF n = 0 THEN 0 ELSE 80 + n>> /\ LendingPushInt(n) = PushInt(n)
    BY <1>1, MaxTimeoutIsLarge DEF PushInt, LendingPushInt, OP_0, OP_1
  <2>2. (IF n = 0 THEN 0 ELSE 80 + n) \in Byte
    BY <1>1, MaxTimeoutIsLarge DEF Byte
  <2> QED
    BY <1>1, <2>1, <2>2, ShortParts
<1>2. CASE n > 16
  <2> DEFINE d == ScriptNum(n)
  <2>1. n \in 1..MaxTimeout /\ ~(n <= 16) /\ n # 0
    BY <1>2, MaxTimeoutIsLarge
  <2>2. PICK m \in 1..4 : m = Len(d) /\ d \in Seq(Byte) /\ d[m] < 128
    BY <2>1, ScriptNumValue
  <2>3. PushInt(n) = PushData(d) /\ LendingPushInt(n) = LendingPushData(d)
    BY <2>1, Zenon DEF PushInt, LendingPushInt
  <2> HIDE DEF d
  <2>4. m \in Nat /\ m <= 75 /\ IsBytes(d, m)
    BY <2>2 DEF IsBytes
  <2>5. PushInt(n) = <<m>> \o d /\ LendingPushInt(n) = <<m>> \o d
    BY <2>3, <2>4, SamePush DEF IsBytes
  <2>6. IsBytes(<<m>> \o d, m + 1) /\ (<<m>> \o d)[1] = m /\ Part(<<m>> \o d, 1, d, m)
    BY <2>4, PushLayout
  <2>7. (<<m>> \o d)[m + 1] = d[m]
    <3>1. m \in 1..m /\ 1 + m = m + 1
      OBVIOUS
    <3> QED
      BY <2>6, <3>1 DEF Part
  <2>8. /\ IsBytes(PushInt(n), m + 1) /\ PushInt(n)[1] = m
        /\ PushInt(n)[m + 1] < 128 /\ Part(PushInt(n), 1, d, m)
        /\ LendingPushInt(n) = PushInt(n)
    BY <2>2, <2>5, <2>6, <2>7
  <2> QED
    BY <1>2, <2>4, <2>8, Zenon DEF d
<1> QED
  BY <1>1, <1>2, MaxTimeoutIsLarge

\* What the scripts with a timeout look like.
TimelockScript(q, key) ==
  q \o <<OP_CHECKLOCKTIMEVERIFY, OP_DROP>> \o (<<KeyLen>> \o key) \o <<OP_CHECKSIG>>

LEMMA TimelockLayout ==
  ASSUME NEW q, NEW p \in Nat, IsBytes(q, p), NEW key, IsBytes(key, 32)
  PROVE  LET s == TimelockScript(q, key)
         IN  /\ IsBytes(s, p + 36)
             /\ Part(s, 0, q, p)
             /\ s[p + 1] = 177 /\ s[p + 2] = 117 /\ s[p + 3] = 32
             /\ Part(s, p + 3, key, 32)
             /\ s[p + 36] = 172
<1> DEFINE a == <<177, 117>>
           b == <<32>> \o key
           c == <<172>>
           s == q \o a \o b \o c
<1>1. IsBytes(a, 2) /\ a[1] = 177 /\ a[2] = 117 /\ IsBytes(c, 1) /\ c[1] = 172
  <2>1. 177 \in Byte /\ 117 \in Byte /\ 172 \in Byte
    BY DEF Byte
  <2> QED
    BY <2>1, ShortParts
<1>2. IsBytes(b, 32 + 1) /\ b[1] = 32 /\ Part(b, 1, key, 32)
  <2>1. 32 \in Nat /\ 32 <= 75
    OBVIOUS
  <2> QED
    BY <2>1, PushLayout, Zenon
<1>3. TimelockScript(q, key) = s
  BY DEF TimelockScript, OP_CHECKLOCKTIMEVERIFY, OP_DROP, KeyLen, OP_CHECKSIG
<1> HIDE DEF a, b, c
<1>4. /\ IsBytes(s, p + 2 + (32 + 1) + 1)
      /\ Part(s, 0, q, p)
      /\ Part(s, p, a, 2)
      /\ Part(s, p + 2, b, 32 + 1)
      /\ Part(s, p + 2 + (32 + 1), c, 1)
  <2> DEFINE two == 2
             push == 32 + 1
             one == 1
  <2>1. /\ IsBytes(a, two) /\ IsBytes(b, push) /\ IsBytes(c, one)
        /\ two \in Nat /\ push \in Nat /\ one \in Nat
    BY <1>1, <1>2
  <2> HIDE DEF two, push, one
  <2>2. /\ IsBytes(s, p + two + push + one)
        /\ Part(s, 0, q, p)
        /\ Part(s, p, a, two)
        /\ Part(s, p + two, b, push)
        /\ Part(s, p + two + push, c, one)
    BY <2>1, FourParts
  <2> QED
    BY <2>2 DEF two, push, one
<1> HIDE DEF s
<1>5. p + 2 + (32 + 1) + 1 = p + 36
  OBVIOUS
<1>6. s[p + 1] = 177 /\ s[p + 2] = 117
  BY <1>1, <1>4 DEF Part
<1>7. s[p + 3] = 32
  <2>1. p + 3 = p + 2 + 1 /\ 1 \in 1..(32 + 1)
    OBVIOUS
  <2> QED
    BY <1>2, <1>4, <2>1 DEF Part
<1>8. Part(s, p + 3, key, 32)
  <2> SUFFICES ASSUME NEW j \in 1..32 PROVE s[p + 3 + j] = key[j]
    BY DEF Part
  <2>1. j + 1 \in 1..(32 + 1) /\ p + 3 + j = p + 2 + (j + 1) /\ 1 + j = j + 1
    OBVIOUS
  <2>2. s[p + 2 + (j + 1)] = b[j + 1]
    BY <1>4, <2>1 DEF Part
  <2>3. b[1 + j] = key[j]
    BY <1>2 DEF Part
  <2> QED
    BY <2>1, <2>2, <2>3
<1>9. s[p + 36] = 172
  <2>1. p + 36 = p + 2 + (32 + 1) + 1 /\ 1 \in 1..1
    OBVIOUS
  <2> QED
    BY <1>1, <1>4, <2>1 DEF Part
<1> QED
  BY <1>3, <1>4, <1>5, <1>6, <1>7, <1>8, <1>9

\* A piece of a sequence, known byte by byte.
LEMMA Piece ==
  ASSUME NEW s, NEW d, NEW n \in Nat, NEW m \in Nat, NEW f \in Nat,
         IsBytes(s, n), IsBytes(d, m), Part(s, f, d, m), f + m <= n
  PROVE  SubSeq(s, f + 1, f + m) = d
<1> DEFINE t == SubSeq(s, f + 1, f + m)
<1>1. s \in Seq(Byte) /\ Len(s) = n /\ d \in Seq(Byte) /\ Len(d) = m
  BY DEF IsBytes
<1>2. \A j \in 1..m : s[f + j] = d[j]
  BY DEF Part
<1>3. t \in Seq(Byte) /\ Len(t) = m /\ \A j \in 1..m : t[j] = s[f + j]
  <2>1. /\ Len(t) = IF f + 1 <= f + m THEN (f + m) - (f + 1) + 1 ELSE 0
        /\ \A j \in 1..m : t[j] = s[(f + 1) + j - 1]
    BY <1>1
  <2>2. (IF f + 1 <= f + m THEN (f + m) - (f + 1) + 1 ELSE 0) = m
    OBVIOUS
  <2>3. \A j \in 1..m : (f + 1) + j - 1 = f + j
    OBVIOUS
  <2>4. t \in Seq(Byte)
    BY <1>1
  <2> HIDE DEF t
  <2> QED
    BY <2>1, <2>2, <2>3, <2>4
<1> HIDE DEF t
<1>4. t = d
  BY <1>1, <1>2, <1>3
<1> QED
  BY <1>4 DEF t

\* Three bytes of a sequence.
LEMMA ThreeBytes ==
  ASSUME NEW s, NEW n \in Nat, IsBytes(s, n), NEW i \in Nat, i + 3 <= n,
         NEW a \in Byte, NEW b \in Byte, NEW c \in Byte
  PROVE  SubSeq(s, i + 1, i + 3) = <<a, b, c>> <=>
           s[i + 1] = a /\ s[i + 2] = b /\ s[i + 3] = c
<1>1. \A x, y, z \in Byte : IsBytes(<<x, y, z>>, 3)
  BY DEF IsBytes
<1>2. s[i + 1] \in Byte /\ s[i + 2] \in Byte /\ s[i + 3] \in Byte
  <2>1. i + 1 \in 1..n /\ i + 2 \in 1..n /\ i + 3 \in 1..n
    OBVIOUS
  <2> QED
    BY <2>1 DEF IsBytes
<1> DEFINE d == <<s[i + 1], s[i + 2], s[i + 3]>>
<1>3. IsBytes(d, 3) /\ Part(s, i, d, 3)
  BY <1>1, <1>2 DEF Part
<1>4. d[1] = s[i + 1] /\ d[2] = s[i + 2] /\ d[3] = s[i + 3]
  OBVIOUS
<1>5. SubSeq(s, i + 1, i + 3) = d
  <2> DEFINE three == 3
  <2>1. IsBytes(d, three) /\ Part(s, i, d, three) /\ i + three <= n /\ three \in Nat
    BY <1>3
  <2> HIDE DEF three, d
  <2>2. SubSeq(s, i + 1, i + three) = d
    BY <2>1, Piece
  <2> QED
    BY <2>2 DEF three
<1> QED
  BY <1>5

\* Where the pattern of a timelock stands, byte by byte.
LEMMA TimelockAtBytes ==
  ASSUME NEW s, NEW n \in Nat, IsBytes(s, n), NEW i \in Nat
  PROVE  TimelockAt(s, i) <=>
           /\ i + 36 <= n
           /\ s[i + 1] = 177 /\ s[i + 2] = 117 /\ s[i + 3] = 32
           /\ s[i + 36] = 172
<1>1. 177 \in Byte /\ 117 \in Byte /\ 32 \in Byte
  BY DEF Byte
<1>2. i + 4 + 32 = i + 36 /\ Len(s) = n
  BY DEF IsBytes
<1>3. CASE i + 36 <= n
  <2>1. i + 3 <= n
    BY <1>3
  <2>2. SubSeq(s, i + 1, i + 3) = <<177, 117, 32>> <=>
          s[i + 1] = 177 /\ s[i + 2] = 117 /\ s[i + 3] = 32
    <3> DEFINE a == 177
               b == 117
               c == 32
    <3>1. a \in Byte /\ b \in Byte /\ c \in Byte
      BY <1>1
    <3> HIDE DEF a, b, c
    <3>2. SubSeq(s, i + 1, i + 3) = <<a, b, c>> <=>
            s[i + 1] = a /\ s[i + 2] = b /\ s[i + 3] = c
      BY <2>1, <3>1, ThreeBytes
    <3> QED
      BY <3>2 DEF a, b, c
  <2> QED
    BY <1>2, <1>3, <2>2
       DEF TimelockAt, KeyLen, OP_CHECKLOCKTIMEVERIFY, OP_DROP, OP_CHECKSIG
<1>4. CASE ~(i + 36 <= n)
  BY <1>2, <1>4 DEF TimelockAt, KeyLen
<1> QED
  BY <1>3, <1>4

\* The chain finds the timeout on its stack, and the signer, which looks at
\* the push before the pattern, shows all but the small ones.
LEMMA TimeoutIsRead ==
  ASSUME NEW n \in 0..MaxTimeout, NEW key, IsBytes(key, 32),
         NEW p \in Nat, IsBytes(PushInt(n), p)
  PROVE  LET s == TimelockScript(PushInt(n), key)
         IN  /\ StackNumber(s) = n
             /\ LocktimeShown(s, p) = IF n <= 16 THEN 0 ELSE n
<1> DEFINE q == PushInt(n)
           s == TimelockScript(q, key)
<1>0. n \in Nat
  BY MaxTimeoutIsLarge
<1>1. \/ n <= 16 /\ q = <<IF n = 0 THEN 0 ELSE 80 + n>> /\ IsBytes(q, 1)
      \/ /\ n > 16
         /\ \E m \in 1..4 :
              /\ IsBytes(ScriptNum(n), m) /\ IsBytes(q, m + 1) /\ q[1] = m
              /\ Part(q, 1, ScriptNum(n), m)
  BY PushIntLayout, Zenon
<1>2. IsBytes(q, p) /\ p = Len(q)
  BY DEF IsBytes
<1> HIDE DEF q
<1>3. IsBytes(s, p + 36) /\ Part(s, 0, q, p)
  BY <1>2, TimelockLayout, Zenon
<1> HIDE DEF s
<1>4. CASE n <= 16
  <2>1. p = 1 /\ q[1] = IF n = 0 THEN 0 ELSE 80 + n
    BY <1>0, <1>1, <1>2, <1>4 DEF IsBytes
  <2>2. s[1] = IF n = 0 THEN 0 ELSE 80 + n
    BY <1>3, <2>1 DEF Part
  <2>3. CASE n = 0
    <3>1. s[1] = 0
      BY <2>2, <2>3
    <3>2. SubSeq(s, 2, 1) = <<>>
      BY <1>3 DEF IsBytes
    <3>3. LittleEndian(<<>>) = 0
      <4>1. <<>> \in Seq(Byte) /\ Len(<<>>) = 0 /\ 0 \in 0..4
        OBVIOUS
      <4>2. LittleEndian(<<>>) = Number(<<>>, 0)
        BY <4>1, LittleEndianValue, Zenon
      <4> QED
        BY <4>2 DEF Number
    <3>4. StackNumber(s) = 0
      BY <3>1, <3>2 DEF StackNumber, OP_1
    <3>5. LocktimeShown(s, p) = 0
      <4>1. p > 0 /\ s[1] <= 8 /\ (IF 1 + s[1] <= p THEN 1 + s[1] ELSE p) = 1
        BY <2>1, <3>1
      <4> QED
        BY <3>2, <3>3, <4>1 DEF LocktimeShown
    <3> QED
      BY <2>3, <3>4, <3>5 DEF s, q
  <2>4. CASE n # 0
    <3>1. s[1] = 80 + n /\ n \in 1..16
      BY <1>0, <1>4, <2>2, <2>4
    <3>2. StackNumber(s) = n
      BY <3>1 DEF StackNumber, OP_1
    <3>3. LocktimeShown(s, p) = 0
      BY <3>1 DEF LocktimeShown
    <3> QED
      BY <1>4, <3>2, <3>3 DEF s, q
  <2> QED
    BY <2>3, <2>4
<1>5. CASE n > 16
  <2> DEFINE d == ScriptNum(n)
  <2>1. n \in 1..MaxTimeout /\ ~(n <= 16)
    BY <1>0, <1>5, MaxTimeoutIsLarge
  <2>2. d[Len(d)] < 128 /\ LittleEndian(d) = n
    BY <2>1, ScriptNumValue
  <2>3. PICK m \in 1..4 :
          /\ IsBytes(d, m) /\ IsBytes(q, m + 1) /\ q[1] = m
          /\ Part(q, 1, d, m)
    BY <1>1, <2>1
  <2> HIDE DEF d
  <2>4. p = m + 1
    BY <1>2, <2>3 DEF IsBytes
  <2>5. s[1] = m
    BY <1>3, <2>3, <2>4 DEF Part
  <2>6. SubSeq(s, 1 + 1, 1 + m) = d
    <3>1. Part(s, 1, d, m)
      BY <1>3, <2>3, <2>4, PartOfFirst
    <3> DEFINE one == 1
               l == p + 36
    <3>2. /\ l \in Nat /\ m \in Nat /\ one \in Nat /\ one + m <= l
          /\ IsBytes(s, l) /\ Part(s, one, d, m)
      BY <1>3, <2>4, <3>1
    <3> HIDE DEF one, l
    <3>3. SubSeq(s, one + 1, one + m) = d
      BY <2>3, <3>2, Piece
    <3> QED
      BY <3>3 DEF one
  <2>7. d # <<>> /\ Last(d) < 128
    BY <2>2, <2>3 DEF Last, IsBytes
  <2>8. StackNumber(s) = n
    <3>1. ~(s[1] >= 81) /\ SubSeq(s, 2, 1 + s[1]) = d
      BY <2>5, <2>6
    <3> QED
      BY <2>2, <2>7, <3>1 DEF StackNumber, OP_1
  <2>9. LocktimeShown(s, p) = n
    <3>1. p > 0 /\ s[1] <= 8 /\ 1 + s[1] <= p /\ SubSeq(s, 2, 1 + s[1]) = d
      BY <2>4, <2>5, <2>6
    <3> QED
      BY <2>2, <3>1 DEF LocktimeShown
  <2> QED
    BY <2>1, <2>8, <2>9 DEF s, q
<1> QED
  BY <1>0, <1>4, <1>5

-----------------------------------------------------------------------------
(* Where the pattern of a timelock stands, and the key it names.           *)

\* A piece, byte by byte.
LEMMA PieceBytes ==
  ASSUME NEW s, NEW n \in Nat, NEW m \in Nat, NEW f \in Nat, IsBytes(s, n), f + m <= n
  PROVE  /\ IsBytes(SubSeq(s, f + 1, f + m), m)
         /\ Part(s, f, SubSeq(s, f + 1, f + m), m)
<1> DEFINE t == SubSeq(s, f + 1, f + m)
<1>1. s \in Seq(Byte) /\ Len(s) = n
  BY DEF IsBytes
<1>2. /\ Len(t) = IF f + 1 <= f + m THEN (f + m) - (f + 1) + 1 ELSE 0
      /\ \A j \in 1..m : t[j] = s[(f + 1) + j - 1]
  BY <1>1
<1>3. (IF f + 1 <= f + m THEN (f + m) - (f + 1) + 1 ELSE 0) = m
  OBVIOUS
<1>4. \A j \in 1..m : (f + 1) + j - 1 = f + j
  OBVIOUS
<1>5. t \in Seq(Byte)
  BY <1>1
<1> HIDE DEF t
<1>6. IsBytes(t, m) /\ Part(s, f, t, m)
  BY <1>2, <1>3, <1>4, <1>5 DEF IsBytes, Part
<1> QED
  BY <1>6 DEF t

\* The push of a timeout takes one to five bytes; neither the first nor the
\* last of them can be mistaken for another opcode of the leaves.
LEMMA PushIntBytes ==
  ASSUME NEW n \in 0..MaxTimeout
  PROVE  \E p \in 1..5 : /\ IsBytes(PushInt(n), p)
                         /\ PushInt(n)[1] \in 0..96 /\ PushInt(n)[p] \in 0..127
<1> DEFINE q == PushInt(n)
<1>0. n \in Nat
  BY MaxTimeoutIsLarge
<1>1. \/ n <= 16 /\ q = <<IF n = 0 THEN 0 ELSE 80 + n>> /\ IsBytes(q, 1)
      \/ \E m \in 1..4 : IsBytes(q, m + 1) /\ q[1] = m /\ q[m + 1] < 128
  BY PushIntLayout, Zenon
<1> HIDE DEF q
<1>2. CASE n <= 16 /\ q = <<IF n = 0 THEN 0 ELSE 80 + n>> /\ IsBytes(q, 1)
  <2>1. q[1] = IF n = 0 THEN 0 ELSE 80 + n
    BY <1>2
  <2>2. q[1] \in 0..96 /\ q[1] \in 0..127
    BY <1>0, <1>2, <2>1
  <2> QED
    BY <1>2, <2>2 DEF q
<1>3. CASE \E m \in 1..4 : IsBytes(q, m + 1) /\ q[1] = m /\ q[m + 1] < 128
  <2>1. PICK m \in 1..4 : IsBytes(q, m + 1) /\ q[1] = m /\ q[m + 1] < 128
    BY <1>3
  <2>2. q[m + 1] \in Byte
    <3>1. q \in Seq(Byte) /\ Len(q) = m + 1 /\ m + 1 \in 1..(m + 1)
      BY <2>1 DEF IsBytes
    <3> QED
      BY <3>1
  <2>3. q[1] \in 0..96 /\ q[m + 1] \in 0..127 /\ m + 1 \in 1..5
    BY <2>1, <2>2 DEF Byte
  <2> QED
    BY <2>1, <2>3 DEF q
<1> QED
  BY <1>1, <1>2, <1>3

\* The bytes of a script with a timeout whose push has p bytes.
Timelocks(s, p, key) ==
  /\ p \in 1..5 /\ IsBytes(s, p + 36) /\ IsBytes(key, 32)
  /\ s[1] \in 0..96 /\ s[p] \in 0..127
  /\ s[p + 1] = 177 /\ s[p + 2] = 117 /\ s[p + 3] = 32
  /\ Part(s, p + 3, key, 32)
  /\ s[p + 36] = 172

LEMMA TimelockBytes ==
  ASSUME NEW n \in 0..MaxTimeout, NEW key, IsBytes(key, 32)
  PROVE  \E p \in 1..5 : /\ IsBytes(PushInt(n), p)
                         /\ Timelocks(TimelockScript(PushInt(n), key), p, key)
<1>1. PICK p \in 1..5 : /\ IsBytes(PushInt(n), p)
                        /\ PushInt(n)[1] \in 0..96 /\ PushInt(n)[p] \in 0..127
  BY PushIntBytes
<1> DEFINE s == TimelockScript(PushInt(n), key)
<1>2. p \in Nat
  OBVIOUS
<1>3. /\ IsBytes(s, p + 36) /\ Part(s, 0, PushInt(n), p)
      /\ s[p + 1] = 177 /\ s[p + 2] = 117 /\ s[p + 3] = 32
      /\ Part(s, p + 3, key, 32) /\ s[p + 36] = 172
  BY <1>1, <1>2, TimelockLayout
<1> HIDE DEF s
<1>4. s[1] = PushInt(n)[1] /\ s[p] = PushInt(n)[p]
  <2>1. \A j \in 1..p : s[0 + j] = PushInt(n)[j]
    BY <1>3, Zenon DEF Part
  <2> QED
    BY <2>1
<1> QED
  BY <1>1, <1>3, <1>4 DEF Timelocks, s

\* The pattern stands where it is meant to, and nowhere behind.
LEMMA PatternPlaces ==
  ASSUME NEW s, NEW p, NEW key, Timelocks(s, p, key)
  PROVE  TimelockAt(s, p) /\ \A i \in Nat : TimelockAt(s, i) => i <= p
<1>1. p \in Nat /\ p + 36 \in Nat /\ IsBytes(s, p + 36)
  BY DEF Timelocks
<1>2. \A i \in Nat : TimelockAt(s, i) <=>
           /\ i + 36 <= p + 36
           /\ s[i + 1] = 177 /\ s[i + 2] = 117 /\ s[i + 3] = 32
           /\ s[i + 36] = 172
  BY <1>1, TimelockAtBytes
<1> QED
  BY <1>1, <1>2 DEF Timelocks

\* Where it stands too early the key that is read is not the leaf's: its bytes
\* would have to repeat with the distance of the two places.
LEMMA HiddenKey ==
  ASSUME NEW s, NEW p, NEW key, Timelocks(s, p, key),
         NEW i \in 0..(p - 1), TimelockAt(s, i)
  PROVE  SubSeq(s, i + 4, i + 35) # key
<1>1. p \in 1..5 /\ IsBytes(s, p + 36) /\ i \in Nat /\ p + 36 \in Nat
  BY DEF Timelocks
<1>2. s[i + 1] = 177 /\ s[i + 2] = 117 /\ s[i + 3] = 32 /\ s[i + 36] = 172
  BY <1>1, TimelockAtBytes
<1>3. SUFFICES ASSUME SubSeq(s, i + 4, i + 35) = key PROVE FALSE
  OBVIOUS
<1>4. \A j \in 1..32 : s[i + 3 + j] = key[j]
  <2> DEFINE f == i + 3
             m == 32
             l == p + 36
  <2>1. f \in Nat /\ m \in Nat /\ l \in Nat /\ f + m <= l /\ IsBytes(s, l)
    BY <1>1
  <2> HIDE DEF f, m, l
  <2>2. Part(s, f, SubSeq(s, f + 1, f + m), m)
    BY <2>1, PieceBytes
  <2>3. f + 1 = i + 4 /\ f + m = i + 35
    BY DEF f, m
  <2> QED
    BY <1>3, <2>2, <2>3 DEF Part, f, m
<1>5. \A j \in 1..32 : s[p + 3 + j] = key[j]
  BY DEF Timelocks, Part
<1>6. /\ s[1] \in 0..96 /\ s[p] \in 0..127
      /\ s[p + 1] = 177 /\ s[p + 2] = 117 /\ s[p + 3] = 32
  BY DEF Timelocks
<1>7. i # p - 1 /\ i # p - 2
  BY <1>1, <1>2, <1>6
<1>8. i # 0
  BY <1>2, <1>6
<1>9. CASE i = p - 3
  <2>1. \A j \in 4..32 : key[j] = key[j - 3]
    <3> SUFFICES ASSUME NEW j \in 4..32 PROVE key[j] = key[j - 3]
      OBVIOUS
    <3>1. i + 3 + j = p + 3 + (j - 3) /\ j - 3 \in 1..32 /\ j \in 1..32
      BY <1>1, <1>9
    <3> QED
      BY <1>4, <1>5, <3>1
  <2>2. key[3] = 32
    <3>1. i + 3 + 3 = p + 3 /\ 3 \in 1..32
      BY <1>1, <1>9
    <3> QED
      BY <1>4, <1>6, <3>1
  <2>3. key[30] = 172
    <3>1. i + 36 = p + 3 + 30 /\ 30 \in 1..32
      BY <1>1, <1>9
    <3> QED
      BY <1>2, <1>5, <3>1
  <2>4. key[30] = key[27] /\ key[27] = key[24] /\ key[24] = key[21]
    BY <2>1
  <2>5. key[21] = key[18] /\ key[18] = key[15] /\ key[15] = key[12]
    BY <2>1
  <2>6. key[12] = key[9] /\ key[9] = key[6] /\ key[6] = key[3]
    BY <2>1
  <2> QED
    BY <2>2, <2>3, <2>4, <2>5, <2>6
<1>10. CASE i = p - 4
  <2>1. \A j \in 5..32 : key[j] = key[j - 4]
    <3> SUFFICES ASSUME NEW j \in 5..32 PROVE key[j] = key[j - 4]
      OBVIOUS
    <3>1. i + 3 + j = p + 3 + (j - 4) /\ j - 4 \in 1..32 /\ j \in 1..32
      BY <1>1, <1>10
    <3> QED
      BY <1>4, <1>5, <3>1
  <2>2. key[1] = s[p]
    <3>1. i + 3 + 1 = p /\ 1 \in 1..32
      BY <1>1, <1>10
    <3> QED
      BY <1>4, <3>1
  <2>3. key[29] = 172
    <3>1. i + 36 = p + 3 + 29 /\ 29 \in 1..32
      BY <1>1, <1>10
    <3> QED
      BY <1>2, <1>5, <3>1
  <2>4. key[29] = key[25] /\ key[25] = key[21] /\ key[21] = key[17]
    BY <2>1
  <2>5. key[17] = key[13] /\ key[13] = key[9] /\ key[9] = key[5] /\ key[5] = key[1]
    BY <2>1
  <2> QED
    BY <1>6, <2>2, <2>3, <2>4, <2>5
<1> QED
  BY <1>1, <1>7, <1>8, <1>9, <1>10

\* In a script with a timeout the signer finds the timelock, at the first
\* place where the pattern stands; it names the leaf's key, and its timeout,
\* exactly where that is the place it was written to.
LEMMA TimelockAnalysis ==
  ASSUME NEW n \in 0..MaxTimeout, NEW key, IsBytes(key, 32)
  PROVE  LET s == TimelockScript(PushInt(n), key)
             hidden == \E i \in 0..(Len(PushInt(n)) - 1) : TimelockAt(s, i)
         IN  /\ AnalyzeScript(s).type = "timelocked"
             /\ AnalyzeScript(s).key = key <=> ~hidden
             /\ ~hidden => AnalyzeScript(s).locktime = IF n <= 16 THEN 0 ELSE n
<1> DEFINE q == PushInt(n)
           s == TimelockScript(q, key)
           hidden == \E i \in 0..(Len(q) - 1) : TimelockAt(s, i)
           Least(j) == TimelockAt(s, j) /\ \A k \in 0..(j - 1) : ~TimelockAt(s, k)
           i == CHOOSE j \in 0..Len(s) : Least(j)
<1>1. PICK p \in 1..5 : IsBytes(q, p) /\ Timelocks(s, p, key)
  BY TimelockBytes
<1>2. p \in Nat /\ Len(q) = p
  BY <1>1 DEF IsBytes
<1>3. StackNumber(s) = n /\ LocktimeShown(s, p) = IF n <= 16 THEN 0 ELSE n
  BY <1>1, <1>2, TimeoutIsRead
<1> HIDE DEF q, s
<1>4. /\ p \in 1..5 /\ IsBytes(s, p + 36) /\ s[1] \in 0..96 /\ IsBytes(key, 32)
      /\ Part(s, p + 3, key, 32)
  BY <1>1 DEF Timelocks
<1>5. s \in Seq(Byte) /\ Len(s) = p + 36
  BY <1>4 DEF IsBytes
<1>6. Hashlock(s) = {} /\ ~IsClaim(s) /\ ~IsDualSig(s)
  <2>1. s[1] # 168
    BY <1>4
  <2>2. p + 36 # 34 /\ p + 36 # 68
    BY <1>4
  <2> QED
    BY <1>5, <2>1, <2>2 DEF Hashlock, IsClaim, IsDualSig, OP_SHA256, KeyLen
<1>7. TimelockAt(s, p) /\ \A j \in Nat : TimelockAt(s, j) => j <= p
  BY <1>1, PatternPlaces
<1>8. p \in 0..Len(s)
  BY <1>2, <1>5
<1>9. i \in 0..Len(s) /\ Least(i)
  <2>1. \E j \in 0..Len(s) : Least(j)
    <3> DEFINE P(j) == TimelockAt(s, j)
    <3>1. P(p)
      BY <1>7
    <3> HIDE DEF P
    <3>2. \E j \in 0..5 : P(j) /\ \A k \in 0..(j - 1) : ~P(k)
      <4>1. P(0) \/ P(1) \/ P(2) \/ P(3) \/ P(4) \/ P(5)
        BY <1>4, <3>1
      <4>2. \A k : k \in 0..(0 - 1) => FALSE
        OBVIOUS
      <4>3. CASE P(0)
        BY <4>3
      <4>4. CASE ~P(0) /\ P(1)
        BY <4>4
      <4>5. CASE ~P(0) /\ ~P(1) /\ P(2)
        BY <4>5
      <4>6. CASE ~P(0) /\ ~P(1) /\ ~P(2) /\ P(3)
        BY <4>6
      <4>7. CASE ~P(0) /\ ~P(1) /\ ~P(2) /\ ~P(3) /\ P(4)
        BY <4>7
      <4>8. CASE ~P(0) /\ ~P(1) /\ ~P(2) /\ ~P(3) /\ ~P(4) /\ P(5)
        BY <4>8
      <4> QED
        BY <4>1, <4>3, <4>4, <4>5, <4>6, <4>7, <4>8
    <3>3. \A j \in 0..5 : j \in 0..Len(s)
      BY <1>5, <1>4
    <3> QED
      BY <3>2, <3>3 DEF P
  <2> HIDE DEF Least
  <2> QED
    BY <2>1, Zenon
<1>10. AnalyzeScript(s) = Info("timelocked", SubSeq(s, i + 4, i + 35), <<>>, LocktimeShown(s, i))
  <2>1. \E j \in 0..Len(s) : TimelockAt(s, j)
    BY <1>7, <1>8
  <2>2. AnalyzeScript(s) = Timelock(s)
    BY <1>6, <2>1, Zenon DEF AnalyzeScript
  <2>3. Timelock(s) = Info("timelocked", SubSeq(s, i + 4, i + 3 + KeyLen), <<>>, LocktimeShown(s, i))
    BY DEF Timelock
  <2> HIDE DEF i
  <2>4. i + 3 + KeyLen = i + 35
    BY <1>5, <1>9 DEF KeyLen
  <2> QED
    BY <2>2, <2>3, <2>4
<1> HIDE DEF i
<1>11. i \in Nat /\ i <= p
  BY <1>5, <1>4, <1>7, <1>9
<1>12. CASE hidden
  <2>1. PICK k \in 0..(p - 1) : TimelockAt(s, k)
    BY <1>2, <1>12
  <2>2. i # p
    BY <1>9, <2>1
  <2>3. i \in 0..(p - 1) /\ TimelockAt(s, i)
    BY <1>2, <1>9, <1>11, <2>2
  <2>4. SubSeq(s, i + 4, i + 35) # key
    BY <1>1, <2>3, HiddenKey
  <2> QED
    BY <1>10, <1>12, <2>4 DEF Info, s, q
<1>13. CASE ~hidden
  <2>1. i = p
    BY <1>2, <1>9, <1>11, <1>13
  <2>2. SubSeq(s, p + 4, p + 35) = key
    <3> DEFINE f == p + 3
               m == 32
               l == p + 36
    <3>1. /\ f \in Nat /\ m \in Nat /\ l \in Nat /\ f + m <= l /\ IsBytes(s, l)
          /\ IsBytes(key, m) /\ Part(s, f, key, m)
      BY <1>2, <1>4
    <3> HIDE DEF f, m, l
    <3>2. SubSeq(s, f + 1, f + m) = key
      BY <3>1, Piece
    <3>3. f + 1 = p + 4 /\ f + m = p + 35
      BY <1>2 DEF f, m
    <3> QED
      BY <3>2, <3>3
  <2> QED
    BY <1>3, <1>10, <1>13, <2>1, <2>2 DEF Info, s, q
<1> QED
  BY <1>12, <1>13

-----------------------------------------------------------------------------
(* The other leaves.                                                       *)

\* Both builders push a key the same way.
LEMMA KeyPush ==
  ASSUME NEW key, IsBytes(key, 32)
  PROVE  /\ PushData(key) = <<32>> \o key /\ LendingPushData(key) = <<32>> \o key
         /\ IsBytes(<<32>> \o key, 33) /\ (<<32>> \o key)[1] = 32
         /\ Part(<<32>> \o key, 1, key, 32)
<1> DEFINE n == 32
<1>1. n \in Nat /\ n <= 75 /\ IsBytes(key, n) /\ Len(key) = n
  BY DEF IsBytes
<1> HIDE DEF n
<1>2. PushData(key) = <<n>> \o key /\ LendingPushData(key) = <<n>> \o key
  BY <1>1, SamePush
<1>3. IsBytes(<<n>> \o key, n + 1) /\ (<<n>> \o key)[1] = n /\ Part(<<n>> \o key, 1, key, n)
  BY <1>1, PushLayout
<1> QED
  BY <1>2, <1>3 DEF n

\* Both builders write the same scripts.
LEMMA SameScripts ==
  ASSUME NEW n \in 0..MaxTimeout, NEW key, IsBytes(key, 32)
  PROVE  /\ RefundScript(n, key) = TimelockScript(PushInt(n), key)
         /\ LenderTimelockedScript(n, key) = TimelockScript(PushInt(n), key)
         /\ SafetyRefundScript(n, key) = TimelockScript(PushInt(n), key)
         /\ RepayScript(key) = ClaimScript(key)
<1>1. LendingPushInt(n) = PushInt(n)
  BY PushIntLayout
<1>2. PushData(key) = <<KeyLen>> \o key /\ LendingPushData(key) = <<KeyLen>> \o key
  BY KeyPush DEF KeyLen
<1> QED
  BY <1>1, <1>2, Zenon
     DEF RefundScript, LenderTimelockedScript, SafetyRefundScript, TimelockScript,
         RepayScript, ClaimScript

\* A script that does not begin with OP_SHA256 has no hashlock.
LEMMA NoHashlock == \A s : s[1] # 168 => Hashlock(s) = {}
BY DEF Hashlock, OP_SHA256

\* A claim leaf is read as one, with its key.
LEMMA ClaimAnalysis ==
  ASSUME NEW key, IsBytes(key, 32)
  PROVE  AnalyzeScript(ClaimScript(key)) = Info("v2_claim", key, <<>>, 0)
<1> DEFINE push == 33
           one == 1
           b == <<32>> \o key
           c == <<172>>
           s == b \o c
<1>1. IsBytes(b, push) /\ b[1] = 32 /\ Part(b, one, key, 32) /\ push \in Nat
  BY KeyPush
<1>2. IsBytes(c, one) /\ c[1] = 172 /\ one \in Nat
  <2>1. 172 \in Byte
    BY DEF Byte
  <2> QED
    BY <2>1, ShortParts
<1>3. ClaimScript(key) = s
  BY KeyPush DEF ClaimScript, OP_CHECKSIG
<1> HIDE DEF b, c, push, one
<1>4. IsBytes(s, push + one) /\ Part(s, 0, b, push) /\ Part(s, push, c, one)
  BY <1>1, <1>2, TwoParts
<1> HIDE DEF s
<1>5. s[1] = 32 /\ s[34] = 172
  BY <1>1, <1>2, <1>4 DEF Part, push, one
<1>6. s \in Seq(Byte) /\ Len(s) = 34
  BY <1>4 DEF IsBytes, push, one
<1>7. SubSeq(s, 2, 33) = key
  <2> DEFINE m == 32
             l == push + one
  <2>1. one + m <= push /\ one + m <= l /\ m \in Nat /\ l \in Nat
    BY DEF push, one
  <2>2. Part(b, one, key, m) /\ IsBytes(key, m) /\ IsBytes(s, l)
    BY <1>1, <1>4
  <2> HIDE DEF m, l
  <2>3. Part(s, one, key, m)
    BY <1>1, <1>2, <1>4, <2>1, <2>2, PartOfFirst
  <2>4. SubSeq(s, one + 1, one + m) = key
    BY <1>2, <2>1, <2>2, <2>3, Piece
  <2> QED
    BY <2>4 DEF one, m
<1>8. Hashlock(s) = {}
  BY <1>5, NoHashlock
<1>9. IsClaim(s)
  BY <1>5, <1>6 DEF IsClaim, KeyLen, OP_CHECKSIG, Last
<1>10. AnalyzeScript(s) = Info("v2_claim", SubSeq(s, 2, 1 + KeyLen), <<>>, 0)
  BY <1>8, <1>9, Zenon DEF AnalyzeScript
<1>11. 1 + KeyLen = 33
  BY DEF KeyLen
<1> QED
  BY <1>3, <1>7, <1>10, <1>11, Zenon

\* A leaf of two keys is read with both.
LEMMA DualSigAnalysis ==
  ASSUME NEW oracle, NEW key, IsBytes(oracle, 32), IsBytes(key, 32)
  PROVE  AnalyzeScript(LenderClaimScript(oracle, key)) = Info("claim", key, oracle, 0)
<1> DEFINE push == 33
           one == 1
           m == 32
           l == push + one + push + one
           a == <<32>> \o oracle
           b == <<173>>
           c == <<32>> \o key
           d == <<172>>
           s == a \o b \o c \o d
<1>1. /\ IsBytes(a, push) /\ a[1] = 32 /\ Part(a, one, oracle, m)
      /\ IsBytes(c, push) /\ c[1] = 32 /\ Part(c, one, key, m)
      /\ push \in Nat /\ one \in Nat /\ m \in Nat /\ l \in Nat
      /\ IsBytes(oracle, m) /\ IsBytes(key, m)
  BY KeyPush
<1>2. IsBytes(b, one) /\ b[1] = 173 /\ IsBytes(d, one) /\ d[1] = 172
  <2>1. 172 \in Byte /\ 173 \in Byte
    BY DEF Byte
  <2> QED
    BY <2>1, ShortParts
<1>3. LenderClaimScript(oracle, key) = s
  BY KeyPush DEF LenderClaimScript, OP_CHECKSIG, OP_CHECKSIGVERIFY
<1> HIDE DEF a, b, c, d, push, one, m
<1>4. /\ IsBytes(s, l) /\ Part(s, 0, a, push) /\ Part(s, push, b, one)
      /\ Part(s, push + one, c, push) /\ Part(s, push + one + push, d, one)
  BY <1>1, <1>2, FourParts
<1> HIDE DEF s
<1>5. s[1] = 32 /\ s[34] = 173 /\ s[35] = 32 /\ s[68] = 172
  BY <1>1, <1>2, <1>4 DEF Part, push, one
<1>6. s \in Seq(Byte) /\ Len(s) = 68
  BY <1>4 DEF IsBytes, push, one
<1> HIDE DEF l
<1>7. SubSeq(s, 2, 33) = oracle
  <2>1. one + m <= push /\ one + m <= l
    BY DEF push, one, m, l
  <2>2. Part(s, one, oracle, m)
    BY <1>1, <1>4, <2>1, PartOfFirst
  <2>3. SubSeq(s, one + 1, one + m) = oracle
    BY <1>1, <1>4, <2>1, <2>2, Piece
  <2> QED
    BY <2>3 DEF one, m
<1>8. SubSeq(s, 36, 67) = key
  <2> DEFINE f == push + one + one
  <2>1. f + m <= l /\ f \in Nat
    BY DEF push, one, m, l
  <2>2. Part(s, f, key, m)
    BY <1>1, <1>4 DEF Part, push, one, m
  <2> HIDE DEF f
  <2>3. SubSeq(s, f + 1, f + m) = key
    BY <1>1, <1>4, <2>1, <2>2, Piece
  <2> QED
    BY <2>3 DEF f, push, one, m
<1>9. Hashlock(s) = {}
  BY <1>5, NoHashlock
<1>10. ~IsClaim(s) /\ IsDualSig(s)
  BY <1>5, <1>6 DEF IsClaim, IsDualSig, KeyLen, OP_CHECKSIG, OP_CHECKSIGVERIFY, Last
<1>11. AnalyzeScript(s) =
         Info("claim", SubSeq(s, 4 + KeyLen, 3 + 2 * KeyLen), SubSeq(s, 2, 1 + KeyLen), 0)
  BY <1>9, <1>10, Zenon DEF AnalyzeScript
<1>12. 4 + KeyLen = 36 /\ 3 + 2 * KeyLen = 67 /\ 1 + KeyLen = 33
  BY DEF KeyLen
<1> QED
  BY <1>3, <1>7, <1>8, <1>11, <1>12, Zenon

\* A leaf of no known form is left alone.
LEMMA UnknownAnalysis == AnalyzeScript(<<OP_1>>) = Info("unknown", <<>>, <<>>, 0)
<1> DEFINE s == <<81>>
<1>1. IsBytes(s, 1) /\ s[1] = 81
  BY DEF IsBytes, Byte
<1> HIDE DEF s
<1>2. Hashlock(s) = {}
  BY <1>1, NoHashlock
<1>3. ~IsClaim(s) /\ ~IsDualSig(s)
  BY <1>1 DEF IsBytes, IsClaim, IsDualSig, KeyLen
<1>4. \A i \in 0..Len(s) : ~TimelockAt(s, i)
  BY <1>1 DEF IsBytes, TimelockAt, KeyLen
<1>5. AnalyzeScript(s) = Info("unknown", <<>>, <<>>, 0)
  BY <1>2, <1>3, <1>4, Zenon DEF AnalyzeScript
<1> QED
  BY <1>5 DEF s, OP_1

\* A slice that lies within the script.
LEMMA SliceRead ==
  ASSUME NEW s, NEW n \in Nat, IsBytes(s, n), NEW d, NEW m \in Nat, IsBytes(d, m),
         NEW f \in Nat, Part(s, f, d, m), f + m <= n
  PROVE  Slice(s, f + 1, m) = {[data |-> d, next |-> f + 1 + m]}
<1>1. SubSeq(s, f + 1, f + m) = d
  BY Piece
<1>2. f + 1 + m - 1 = f + m /\ Len(s) = n
  BY DEF IsBytes
<1> QED
  BY <1>1, <1>2 DEF Slice

\* The k bytes of p are read as a push of d, wherever they stand in a script.
IsPush(p, k, d) ==
  /\ IsBytes(p, k)
  /\ \A s : \A n \in Nat, f \in Nat :
       IsBytes(s, n) /\ Part(s, f, p, k) /\ f + k <= n =>
         ReadPush(s, f + 1) = {[data |-> d, next |-> f + 1 + k]}

LEMMA ShortPush ==
  ASSUME NEW d, IsBytes(d, 32)
  PROVE  IsPush(<<32>> \o d, 33, d)
<1> DEFINE p == <<32>> \o d
           k == 33
           m == 32
           one == 1
<1>1. IsBytes(p, k) /\ p[1] = 32 /\ Part(p, one, d, m) /\ IsBytes(d, m)
  BY KeyPush
<1>2. k \in Nat /\ m \in Nat /\ one \in Nat /\ k = m + one /\ one \in 1..k
  OBVIOUS
<1> HIDE DEF p
<1> SUFFICES ASSUME NEW s, NEW n \in Nat, NEW f \in Nat,
                    IsBytes(s, n), Part(s, f, p, k), f + k <= n
             PROVE  ReadPush(s, f + 1) = {[data |-> d, next |-> f + 1 + k]}
  BY <1>1 DEF IsPush, p
<1>3. s[f + 1] = 32
  BY <1>1, <1>2 DEF Part
<1>4. f + 1 <= Len(s)
  BY <1>2 DEF IsBytes
<1>5. Slice(s, f + 1 + 1, 32) = {[data |-> d, next |-> f + 1 + k]}
  <2> DEFINE g == f + one
  <2>1. g \in Nat /\ g + m <= n
    BY <1>2
  <2>2. Part(s, g, d, m)
    <3> SUFFICES ASSUME NEW j \in 1..m PROVE s[g + j] = d[j]
      BY DEF Part
    <3>1. j + 1 \in 1..k /\ g + j = f + (j + 1) /\ 1 + j = j + 1
      BY <1>2
    <3>2. s[f + (j + 1)] = p[j + 1] /\ p[1 + j] = d[j]
      BY <1>1, <3>1 DEF Part
    <3> QED
      BY <3>1, <3>2
  <2> HIDE DEF g, m
  <2>3. Slice(s, g + 1, m) = {[data |-> d, next |-> g + 1 + m]}
    BY <1>1, <1>2, <2>1, <2>2, SliceRead
  <2>4. g + 1 = f + 1 + 1 /\ m = 32 /\ g + 1 + m = f + 1 + k
    BY DEF g, m
  <2> QED
    BY <2>3, <2>4
<1>6. ReadPush(s, f + 1) = Slice(s, f + 1 + 1, s[f + 1])
  BY <1>3, <1>4 DEF ReadPush
<1> QED
  BY <1>3, <1>5, <1>6

\* The script of a hashlock is read as one, whatever the form of its pushes.
HashlockScript(p, q) == <<OP_SHA256>> \o p \o <<OP_EQUALVERIFY>> \o q \o <<OP_CHECKSIG>>

LEMMA HashlockRead ==
  ASSUME NEW hash, IsBytes(hash, 32), NEW key, IsBytes(key, 32), NEW k \in Nat,
         NEW p, IsPush(p, k, hash), NEW q, IsPush(q, k, key)
  PROVE  Hashlock(HashlockScript(p, q)) = {[hash |-> hash, key |-> key]}
<1> DEFINE one == 1
           a == <<168>>
           b == <<136>>
           c == <<172>>
           t == a \o p \o b \o q
           s == t \o c
           l == one + k + one + k
           n == l + one
<1>1. /\ IsBytes(a, one) /\ a[1] = 168 /\ IsBytes(b, one) /\ b[1] = 136
      /\ IsBytes(c, one) /\ c[1] = 172 /\ one \in Nat
  <2>1. 168 \in Byte /\ 136 \in Byte /\ 172 \in Byte
    BY DEF Byte
  <2> QED
    BY <2>1, ShortParts
<1>2. IsBytes(p, k) /\ IsBytes(q, k)
  BY DEF IsPush
<1>3. HashlockScript(p, q) = s
  BY DEF HashlockScript, OP_SHA256, OP_EQUALVERIFY, OP_CHECKSIG
<1> HIDE DEF a, b, c, one
<1>4. /\ IsBytes(t, l) /\ Part(t, 0, a, one) /\ Part(t, one, p, k)
      /\ Part(t, one + k, b, one) /\ Part(t, one + k + one, q, k)
      /\ l \in Nat /\ n \in Nat
  <2>1. l \in Nat /\ n \in Nat
    BY <1>1
  <2>2. /\ IsBytes(t, l) /\ Part(t, 0, a, one) /\ Part(t, one, p, k)
        /\ Part(t, one + k, b, one) /\ Part(t, one + k + one, q, k)
    <3>1. IsBytes(a, one) /\ IsBytes(b, one) /\ one \in Nat
      BY <1>1
    <3> QED
      BY <1>2, <3>1, FourParts
  <2> QED
    BY <2>1, <2>2
<1> HIDE DEF t
<1>5. IsBytes(s, n) /\ Part(s, 0, t, l) /\ Part(s, l, c, one)
  BY <1>1, <1>4, TwoParts
<1> HIDE DEF s
<1>6. /\ Part(s, 0, a, one) /\ Part(s, one, p, k)
      /\ Part(s, one + k, b, one) /\ Part(s, one + k + one, q, k)
  <2>1. 0 \in Nat /\ one + k \in Nat /\ one + k + one \in Nat
    BY <1>1
  <2>2. 0 + one <= l /\ one + k <= l /\ one + k + one <= l /\ one + k + one + k <= l
    BY <1>1
  <2> HIDE DEF l
  <2> QED
    BY <1>1, <1>4, <1>5, <2>1, <2>2, PartOfFirst
<1>7. ReadPush(s, one + 1) = {[data |-> hash, next |-> one + 1 + k]}
  <2>1. one + k <= n
    BY <1>1
  <2> HIDE DEF n
  <2> QED
    BY <1>1, <1>4, <1>5, <1>6, <2>1 DEF IsPush
<1>8. ReadPush(s, one + k + one + 1) = {[data |-> key, next |-> one + k + one + 1 + k]}
  <2> DEFINE f == one + k + one
  <2>1. f + k <= n /\ f \in Nat /\ Part(s, f, q, k)
    BY <1>1, <1>6
  <2> HIDE DEF n, f
  <2>2. ReadPush(s, f + 1) = {[data |-> key, next |-> f + 1 + k]}
    BY <1>1, <1>4, <1>5, <2>1 DEF IsPush
  <2> QED
    BY <2>2 DEF f
<1>9. s[1] = 168 /\ s[k + 2] = 136 /\ s[2 * k + 3] = 172
  BY <1>1, <1>5, <1>6 DEF Part, one
<1>10. s # <<>> /\ Len(s) = 2 * k + 3
  BY <1>5 DEF IsBytes, one
<1>11. /\ ReadPush(s, 2) = {[data |-> hash, next |-> k + 2]}
       /\ ReadPush(s, k + 3) = {[data |-> key, next |-> 2 * k + 3]}
  <2>1. /\ one + 1 = 2 /\ one + 1 + k = k + 2
        /\ one + k + one + 1 = k + 3 /\ one + k + one + 1 + k = 2 * k + 3
    BY DEF one
  <2> QED
    BY <1>7, <1>8, <2>1
<1> DEFINE h == [data |-> hash, next |-> k + 2]
           r == [data |-> key, next |-> 2 * k + 3]
<1>12. Len(hash) = 32 /\ Len(key) = 32
  BY DEF IsBytes
<1>13. KeyThen(s, 2, OP_EQUALVERIFY) = {h}
  BY <1>9, <1>10, <1>11, <1>12 DEF KeyThen, KeyLen, OP_EQUALVERIFY
<1>14. KeyThen(s, k + 3, OP_CHECKSIG) = {r}
  BY <1>9, <1>10, <1>11, <1>12 DEF KeyThen, KeyLen, OP_CHECKSIG
<1>15. {x \in KeyThen(s, h.next + 1, OP_CHECKSIG) : x.next = Len(s)} = {r}
  <2>1. h.next + 1 = k + 3 /\ r.next = Len(s)
    BY <1>10
  <2> QED
    BY <1>14, <2>1
<1> HIDE DEF h, r
<1>16. Hashlock(s) = {[hash |-> h.data, key |-> r.data]}
  BY <1>9, <1>10, <1>13, <1>15 DEF Hashlock, OP_SHA256
<1> QED
  BY <1>3, <1>16 DEF h, r

\* The length of a wide push, 32, in w bytes.
LEMMA WideLength ==
  ASSUME NEW w \in {1, 2, 4}
  PROVE  IsBytes(Bytes(32, w), w) /\ LittleEndian(Bytes(32, w)) = 32
<1> DEFINE b == Bytes(32, w)
<1>1. b = [i \in 1..w |-> (32 \div Weight[i]) % 256]
  BY DEF Bytes
<1>2. /\ (32 \div Weight[1]) % 256 = 32 /\ (32 \div Weight[2]) % 256 = 0
      /\ (32 \div Weight[3]) % 256 = 0 /\ (32 \div Weight[4]) % 256 = 0
  BY SMT DEF Weight
<1>3. w \in 0..4 /\ w \in Nat /\ 1 \in 1..w
  OBVIOUS
<1>4. \A i \in 1..w : (32 \div Weight[i]) % 256 = IF i = 1 THEN 32 ELSE 0
  BY <1>2
<1> HIDE DEF b
<1>5. b = [i \in 1..w |-> IF i = 1 THEN 32 ELSE 0]
  BY <1>1, <1>4
<1>6. \A i \in 1..w : (IF i = 1 THEN 32 ELSE 0) \in Byte
  BY DEF Byte
<1>7. b \in Seq(Byte) /\ Len(b) = w
  BY <1>3, <1>5, <1>6
<1>8. LittleEndian(b) = Number(b, w)
  BY <1>3, <1>7, LittleEndianValue
<1>9. Number(b, w) = 32
  <2>1. b[1] = 32 /\ (w > 1 => b[2] = 0) /\ (w > 2 => b[3] = 0 /\ b[4] = 0)
    BY <1>5
  <2> QED
    BY <2>1 DEF Number
<1> QED
  BY <1>7, <1>8, <1>9 DEF IsBytes, b

\* A push with the length in w bytes.
LEMMA WidePush ==
  ASSUME NEW d, IsBytes(d, 32), NEW w \in {1, 2, 4}
  PROVE  IsPush(PushWide(d, w), 1 + w + 32, d)
<1> DEFINE x == IF w = 4 THEN 78 ELSE 75 + w
           one == 1
           m == 32
           b == Bytes(32, w)
           p == <<x>> \o b \o d
           k == one + w + m
<1>1. PushWide(d, w) = p
  BY DEF PushWide, IsBytes
<1>2. IsBytes(b, w) /\ LittleEndian(b) = 32
  BY WideLength
<1>3. IsBytes(<<x>>, one)
  <2>1. x \in Byte
    BY DEF Byte
  <2> HIDE DEF x
  <2> QED
    BY <2>1, ShortParts
<1>4. IsBytes(d, m) /\ one \in Nat /\ w \in Nat /\ m \in Nat /\ k \in Nat
  OBVIOUS
<1>5. x \in 76..78 /\ <<1, 2, 4>>[x - 75] = w
  OBVIOUS
<1> HIDE DEF x, b
<1>6. /\ IsBytes(p, k) /\ Part(p, 0, <<x>>, one) /\ Part(p, one, b, w)
      /\ Part(p, one + w, d, m)
  <2> DEFINE t == <<x>> \o b
  <2> HIDE DEF one, m
  <2>1. IsBytes(t, one + w) /\ Part(t, 0, <<x>>, one) /\ Part(t, one, b, w)
    BY <1>2, <1>3, <1>4, TwoParts
  <2>2. one + w \in Nat /\ 0 + one <= one + w /\ one + w <= one + w /\ 0 \in Nat
    BY <1>4
  <2> HIDE DEF t
  <2>3. IsBytes(t \o d, k) /\ Part(t \o d, 0, t, one + w) /\ Part(t \o d, one + w, d, m)
    BY <1>4, <2>1, <2>2, TwoParts
  <2>4. Part(t \o d, 0, <<x>>, one) /\ Part(t \o d, one, b, w)
    BY <1>4, <2>1, <2>2, <2>3, PartOfFirst
  <2> QED
    BY <2>3, <2>4 DEF t
<1>7. p[1] = x
  BY <1>6 DEF Part
<1> HIDE DEF p
<1>8. ASSUME NEW s, NEW n \in Nat, NEW f \in Nat,
             IsBytes(s, n), Part(s, f, p, k), f + k <= n
      PROVE  ReadPush(s, f + 1) = {[data |-> d, next |-> f + 1 + k]}
  <2>1. s[f + 1] = x /\ f + 1 <= Len(s)
    <3>1. 1 \in 1..k /\ k >= 1
      BY <1>4
    <3> HIDE DEF k
    <3> QED
      BY <1>4, <1>7, <1>8, <3>1 DEF Part, IsBytes
  <2>2. ASSUME NEW g \in Nat, NEW c, NEW l \in Nat, Part(p, g, c, l), g + l <= k
        PROVE  Part(s, f + g, c, l)
    <3> HIDE DEF k
    <3> SUFFICES ASSUME NEW j \in 1..l PROVE s[f + g + j] = c[j]
      BY DEF Part
    <3>1. g + j \in 1..k /\ f + g + j = f + (g + j)
      BY <1>4, <2>2
    <3>2. s[f + (g + j)] = p[g + j] /\ p[g + j] = c[j]
      BY <1>8, <2>2, <3>1 DEF Part
    <3> QED
      BY <3>1, <3>2
  <2>3. Slice(s, f + 1 + 1, w) = {[data |-> b, next |-> f + 1 + 1 + w]}
    <3> DEFINE g == f + one
    <3>1. g \in Nat /\ g + w <= n
      BY <1>4, <1>8
    <3>2. Part(s, g, b, w)
      BY <1>4, <1>6, <2>2
    <3>3. g + 1 = f + 1 + 1
      OBVIOUS
    <3> HIDE DEF g
    <3>4. Slice(s, g + 1, w) = {[data |-> b, next |-> g + 1 + w]}
      BY <1>2, <1>4, <1>8, <3>1, <3>2, SliceRead
    <3> QED
      BY <3>3, <3>4
  <2>4. Slice(s, f + 1 + 1 + w, 32) = {[data |-> d, next |-> f + 1 + k]}
    <3> DEFINE g == f + (one + w)
    <3>1. g \in Nat /\ g + m <= n
      BY <1>4, <1>8
    <3>2. Part(s, g, d, m)
      BY <1>4, <1>6, <2>2
    <3>3. g + 1 = f + 1 + 1 + w /\ m = 32 /\ g + 1 + m = f + 1 + k
      BY <1>4
    <3> HIDE DEF g, m, k
    <3>4. Slice(s, g + 1, m) = {[data |-> d, next |-> g + 1 + m]}
      BY <1>4, <1>8, <3>1, <3>2, SliceRead
    <3> QED
      BY <3>3, <3>4
  <2>5. ~(s[f + 1] <= 75) /\ s[f + 1] \in 76..78
    BY <1>5, <2>1
  <2>6. ReadPush(s, f + 1) =
          UNION {Slice(s, r.next, LittleEndian(r.data)) : r \in Slice(s, f + 1 + 1, w)}
    <3>1. ~(f + 1 > Len(s))
      BY <1>8, <2>1 DEF IsBytes
    <3> QED
      BY <1>5, <2>1, <2>5, <3>1 DEF ReadPush
  <2> DEFINE r == [data |-> b, next |-> f + 1 + 1 + w]
  <2>7. r.data = b /\ r.next = f + 1 + 1 + w
    OBVIOUS
  <2> HIDE DEF r
  <2>8. Slice(s, f + 1 + 1, w) = {r}
    BY <2>3 DEF r
  <2>9. Slice(s, r.next, LittleEndian(r.data)) = {[data |-> d, next |-> f + 1 + k]}
    BY <1>2, <2>4, <2>7
  <2> QED
    BY <2>6, <2>8, <2>9
<1>9. IsPush(p, k, d)
  BY <1>6, <1>8 DEF IsPush
<1> QED
  BY <1>1, <1>9

\* A leaf with a hashlock is read with its key, and the lending package finds
\* its hash.
LEMMA HashlockAnalysis ==
  ASSUME NEW hash, NEW key, IsBytes(hash, 32), IsBytes(key, 32), NEW w \in {1, 2, 4}
  PROVE  /\ AnalyzeScript(LenderHashlockScript(hash, key)) = Info("hashlock", key, <<>>, 0)
         /\ Commitment(LenderHashlockScript(hash, key)) = {hash}
         /\ AnalyzeScript(WideHashlockScript(hash, key, w)) = Info("hashlock", key, <<>>, 0)
         /\ Commitment(WideHashlockScript(hash, key, w)) = {hash}
<1>1. ASSUME NEW s, Hashlock(s) = {[hash |-> hash, key |-> key]}
      PROVE  AnalyzeScript(s) = Info("hashlock", key, <<>>, 0) /\ Commitment(s) = {hash}
  <2> DEFINE r == [hash |-> hash, key |-> key]
  <2>1. (CHOOSE f \in Hashlock(s) : TRUE) = r
    BY <1>1
  <2>2. Hashlock(s) # {} /\ r.key = key /\ r.hash = hash
    BY <1>1
  <2> HIDE DEF r
  <2>3. AnalyzeScript(s) = Info("hashlock", r.key, <<>>, 0)
    BY <2>1, <2>2, Zenon DEF AnalyzeScript
  <2>4. Commitment(s) = {r.hash}
    BY <1>1 DEF Commitment, r
  <2> QED
    BY <2>2, <2>3, <2>4
<1>2. LenderHashlockScript(hash, key) = HashlockScript(<<32>> \o hash, <<32>> \o key)
  BY KeyPush DEF LenderHashlockScript, HashlockScript
<1>3. WideHashlockScript(hash, key, w) = HashlockScript(PushWide(hash, w), PushWide(key, w))
  BY DEF WideHashlockScript, HashlockScript
<1>4. Hashlock(LenderHashlockScript(hash, key)) = {[hash |-> hash, key |-> key]}
  <2> DEFINE k == 33
  <2>1. IsPush(<<32>> \o hash, k, hash) /\ IsPush(<<32>> \o key, k, key) /\ k \in Nat
    BY ShortPush
  <2> HIDE DEF k
  <2> QED
    BY <1>2, <2>1, HashlockRead
<1>5. Hashlock(WideHashlockScript(hash, key, w)) = {[hash |-> hash, key |-> key]}
  <2> DEFINE k == 1 + w + 32
  <2>1. IsPush(PushWide(hash, w), k, hash) /\ IsPush(PushWide(key, w), k, key) /\ k \in Nat
    BY WidePush
  <2> HIDE DEF k
  <2> QED
    BY <1>3, <2>1, HashlockRead
<1> QED
  BY <1>1, <1>4, <1>5

-----------------------------------------------------------------------------
(* The leaf of the run.                                                    *)

\* A leaf's parts.
LEMMA LeafParts ==
  ASSUME leaf \in Leaves
  PROVE  /\ leaf.kind \in Kinds /\ leaf.timeout \in 0..MaxTimeout
         /\ leaf.width \in {1, 2, 4}
         /\ IsBytes(leaf.key, 32) /\ IsBytes(leaf.other, 32)
BY LeafAssumption DEF IsBytes, KeyLen

\* The five forms a leaf's script can have, whichever builder wrote it.
LEMMA ScriptForms ==
  ASSUME leaf \in Leaves
  PROVE  /\ Timelocked => Script = TimelockScript(PushInt(leaf.timeout), leaf.key)
         /\ leaf.kind \in {"claim", "repay"} => Script = ClaimScript(leaf.key)
         /\ leaf.kind = "lender_claim" => Script = LenderClaimScript(leaf.other, leaf.key)
         /\ leaf.kind \in {"lender_hashlock", "wide_hashlock"} =>
              \/ Script = LenderHashlockScript(leaf.other, leaf.key)
              \/ Script = WideHashlockScript(leaf.other, leaf.key, leaf.width)
         /\ leaf.kind = "unknown" => Script = <<OP_1>>
<1> DEFINE n == leaf.timeout
           key == leaf.key
<1>1. n \in 0..MaxTimeout /\ IsBytes(key, 32)
  BY LeafParts
<1>2. /\ RefundScript(n, key) = TimelockScript(PushInt(n), key)
      /\ LenderTimelockedScript(n, key) = TimelockScript(PushInt(n), key)
      /\ SafetyRefundScript(n, key) = TimelockScript(PushInt(n), key)
      /\ RepayScript(key) = ClaimScript(key)
  BY <1>1, SameScripts
<1>3. /\ leaf.kind = "refund" => Script = RefundScript(n, key)
      /\ leaf.kind = "lender_timelocked" => Script = LenderTimelockedScript(n, key)
      /\ leaf.kind = "safety_refund" => Script = SafetyRefundScript(n, key)
      /\ leaf.kind = "claim" => Script = ClaimScript(key)
      /\ leaf.kind = "repay" => Script = RepayScript(key)
      /\ leaf.kind = "lender_claim" => Script = LenderClaimScript(leaf.other, key)
      /\ leaf.kind = "lender_hashlock" => Script = LenderHashlockScript(leaf.other, key)
      /\ leaf.kind = "wide_hashlock" => Script = WideHashlockScript(leaf.other, key, leaf.width)
      /\ leaf.kind = "unknown" => Script = <<OP_1>>
  BY SMT DEF Script
<1> QED
  BY <1>2, <1>3 DEF Timelocked

\* What the signer reads of the leaf's own script, and the chain's number.
ScriptIsRead ==
  /\ AnalyzeScript(Script).type = TypeOfLeaf
  /\ TypeOfLeaf # "unknown" => (AnalyzeScript(Script).key = leaf.key <=> ~Hidden)
  /\ Timelocked /\ ~Hidden =>
       AnalyzeScript(Script).locktime = IF leaf.timeout <= 16 THEN 0 ELSE leaf.timeout
  /\ TypeOfLeaf = "hashlock" => Commitment(Script) = {leaf.other}
  /\ Timelocked => StackNumber(Script) = leaf.timeout

LEMMA ScriptReading ==
  ASSUME leaf \in Leaves
  PROVE  ScriptIsRead
<1> DEFINE n == leaf.timeout
           key == leaf.key
<1>1. /\ leaf.kind \in Kinds /\ n \in 0..MaxTimeout /\ leaf.width \in {1, 2, 4}
      /\ IsBytes(key, 32) /\ IsBytes(leaf.other, 32)
  BY LeafParts
<1>2. CASE Timelocked
  <2> DEFINE s == TimelockScript(PushInt(n), key)
  <2>1. Script = s
    BY <1>2, ScriptForms
  <2>2. TypeOfLeaf = "timelocked"
    BY <1>2 DEF TypeOfLeaf, Timelocked
  <2>3. /\ AnalyzeScript(s).type = "timelocked"
        /\ AnalyzeScript(s).key = key <=>
             ~\E i \in 0..(Len(PushInt(n)) - 1) : TimelockAt(s, i)
        /\ (~\E i \in 0..(Len(PushInt(n)) - 1) : TimelockAt(s, i)) =>
             AnalyzeScript(s).locktime = IF n <= 16 THEN 0 ELSE n
    BY <1>1, TimelockAnalysis
  <2>4. StackNumber(s) = n
    <3>1. PICK p \in 1..5 : IsBytes(PushInt(n), p)
      BY <1>1, PushIntBytes
    <3>2. p \in Nat
      OBVIOUS
    <3> QED
      BY <1>1, <3>1, <3>2, TimeoutIsRead
  <2> HIDE DEF s
  <2>5. Hidden <=> \E i \in 0..(Len(PushInt(n)) - 1) : TimelockAt(s, i)
    BY <1>2, <2>1 DEF Hidden
  <2> QED
    BY <2>1, <2>2, <2>3, <2>4, <2>5 DEF ScriptIsRead
<1>3. CASE ~Timelocked
  <2>1. ~Hidden
    BY <1>3 DEF Hidden
  <2> HIDE DEF key, n
  <2>2. CASE leaf.kind \in {"claim", "repay"}
    <3>1. Script = ClaimScript(key)
      BY <2>2, ScriptForms DEF key
    <3>2. AnalyzeScript(Script) = Info("v2_claim", key, <<>>, 0)
      BY <1>1, <3>1, ClaimAnalysis
    <3>3. TypeOfLeaf = "v2_claim"
      BY <2>2 DEF TypeOfLeaf
    <3> QED
      BY <1>3, <2>1, <3>2, <3>3 DEF ScriptIsRead, Info, key
  <2>3. CASE leaf.kind = "lender_claim"
    <3>1. Script = LenderClaimScript(leaf.other, key)
      BY <2>3, ScriptForms DEF key
    <3>2. AnalyzeScript(Script) = Info("claim", key, leaf.other, 0)
      BY <1>1, <3>1, DualSigAnalysis
    <3>3. TypeOfLeaf = "claim"
      BY <2>3 DEF TypeOfLeaf
    <3> QED
      BY <1>3, <2>1, <3>2, <3>3 DEF ScriptIsRead, Info, key
  <2>4. CASE leaf.kind \in {"lender_hashlock", "wide_hashlock"}
    <3>1. \/ Script = LenderHashlockScript(leaf.other, key)
          \/ Script = WideHashlockScript(leaf.other, key, leaf.width)
      BY <2>4, ScriptForms DEF key
    <3>2. /\ AnalyzeScript(Script) = Info("hashlock", key, <<>>, 0)
          /\ Commitment(Script) = {leaf.other}
      BY <1>1, <3>1, HashlockAnalysis
    <3>3. TypeOfLeaf = "hashlock"
      BY <2>4 DEF TypeOfLeaf
    <3> QED
      BY <1>3, <2>1, <3>2, <3>3 DEF ScriptIsRead, Info, key
  <2>5. CASE leaf.kind = "unknown"
    <3>1. Script = <<OP_1>>
      BY <2>5, ScriptForms
    <3>2. TypeOfLeaf = "unknown"
      BY <1>3, <2>5 DEF TypeOfLeaf
    <3> QED
      BY <1>3, <3>1, <3>2, UnknownAnalysis DEF ScriptIsRead, Info
  <2> QED
    BY <1>1, <1>3, <2>2, <2>3, <2>4, <2>5 DEF Kinds, Timelocked
<1> QED
  BY <1>2, <1>3

\* A script ends with OP_CHECKSIG and is made of bytes.
LEMMA ScriptBytes ==
  ASSUME leaf \in Leaves
  PROVE  Script \in Seq(Byte) /\ Len(Script) > 0
<1> DEFINE key == leaf.key
           end == <<OP_CHECKSIG>>
<1>1. /\ leaf.kind \in Kinds /\ leaf.timeout \in 0..MaxTimeout
      /\ leaf.width \in {1, 2, 4} /\ IsBytes(key, 32) /\ IsBytes(leaf.other, 32)
  BY LeafParts
<1>2. /\ end \in Seq(Byte) /\ Len(end) = 1 /\ <<OP_1>> \in Seq(Byte)
      /\ <<OP_SHA256>> \in Seq(Byte) /\ <<OP_EQUALVERIFY>> \in Seq(Byte)
      /\ <<OP_CHECKSIGVERIFY>> \in Seq(Byte) /\ Len(<<OP_1>>) = 1
  BY DEF Byte, OP_CHECKSIG, OP_1, OP_SHA256, OP_EQUALVERIFY, OP_CHECKSIGVERIFY
<1>3. ASSUME NEW k, IsBytes(k, 32)
      PROVE  PushData(k) \in Seq(Byte) /\ LendingPushData(k) \in Seq(Byte)
  BY <1>3, KeyPush DEF IsBytes
<1>4. ASSUME NEW k, IsBytes(k, 32)
      PROVE  PushWide(k, leaf.width) \in Seq(Byte)
  BY <1>1, <1>4, WidePush DEF IsPush, IsBytes
<1>5. ASSUME NEW a \in Seq(Byte)
      PROVE  a \o end \in Seq(Byte) /\ Len(a \o end) > 0
  BY <1>2
<1> HIDE DEF end
<1>6. CASE Timelocked
  <2> DEFINE s == TimelockScript(PushInt(leaf.timeout), key)
  <2>1. PICK p \in 1..5 : IsBytes(s, p + 36)
    BY <1>1, TimelockBytes DEF Timelocks
  <2>2. Script = s
    BY <1>6, ScriptForms
  <2> HIDE DEF s
  <2> QED
    BY <2>1, <2>2 DEF IsBytes
<1>7. CASE leaf.kind \in {"claim", "repay"}
  <2>1. Script = PushData(key) \o end
    BY <1>7, ScriptForms DEF ClaimScript, end
  <2> QED
    BY <1>1, <1>3, <1>5, <2>1
<1>8. CASE leaf.kind = "lender_claim"
  <2> DEFINE a == LendingPushData(leaf.other) \o <<OP_CHECKSIGVERIFY>> \o LendingPushData(key)
  <2>1. Script = a \o end
    BY <1>8, ScriptForms DEF LenderClaimScript, end
  <2>2. a \in Seq(Byte)
    BY <1>1, <1>2, <1>3
  <2> QED
    BY <1>5, <2>1, <2>2
<1>9. CASE leaf.kind \in {"lender_hashlock", "wide_hashlock"}
  <2> DEFINE hash == leaf.other
             a == <<OP_SHA256>> \o LendingPushData(hash) \o <<OP_EQUALVERIFY>>
                    \o LendingPushData(key)
             b == <<OP_SHA256>> \o PushWide(hash, leaf.width) \o <<OP_EQUALVERIFY>>
                    \o PushWide(key, leaf.width)
  <2>1. Script = a \o end \/ Script = b \o end
    BY <1>9, ScriptForms DEF LenderHashlockScript, WideHashlockScript, end
  <2>2. a \in Seq(Byte) /\ b \in Seq(Byte)
    BY <1>1, <1>2, <1>3, <1>4
  <2> QED
    BY <1>5, <2>1, <2>2
<1>10. CASE leaf.kind = "unknown"
  <2> DEFINE one == <<OP_1>>
  <2>1. Script = one
    BY <1>10, ScriptForms
  <2>2. one \in Seq(Byte) /\ Len(one) > 0
    BY <1>2
  <2> HIDE DEF one
  <2> QED
    BY <2>1, <2>2
<1> QED
  BY <1>1, <1>6, <1>7, <1>8, <1>9, <1>10 DEF Kinds, Timelocked

\* A leaf written as BIP-371 says is read the same way by both parsers.
LEMMA AgreedLeaf ==
  ASSUME leaf \in Leaves, NEW l, AsAgreed(l)
  PROVE  LET read == [header |-> LeafVersion, version |-> LeafVersion, script |-> Script]
         IN  MinimalLeaf(l) = read /\ EmbitLeaf(l) = read
<1> DEFINE v == Script \o <<LeafVersion>>
<1>1. Script \in Seq(Byte) /\ Len(Script) > 0
  BY ScriptBytes
<1>2. <<LeafVersion>> \in Seq(Byte)
  BY DEF Byte, LeafVersion
<1>3. /\ v \in Seq(Byte) /\ Len(v) = Len(Script) + 1
      /\ \A i \in 1..Len(Script) : v[i] = Script[i]
      /\ v[Len(v)] = LeafVersion
  BY <1>1, <1>2
<1> HIDE DEF v
<1>4. Last(v) = LeafVersion /\ Len(v) > 1
  BY <1>1, <1>3 DEF Last
<1>5. Front(v) = Script
  <2> DEFINE f == SubSeq(v, 1, Len(v) - 1)
  <2>1. Len(v) - 1 = Len(Script) /\ Len(Script) \in Nat
    BY <1>1, <1>3
  <2>2. f = [i \in 1..Len(Script) |-> v[i]]
    BY <1>3, <2>1
  <2>3. [i \in 1..Len(Script) |-> v[i]] = Script
    BY <1>1, <1>3
  <2> QED
    BY <2>2, <2>3 DEF Front
<1>6. 2 * (LeafVersion \div 2) = LeafVersion
  BY SMT DEF LeafVersion
<1>7. l.header = LeafVersion /\ l.value = v
  BY DEF AsAgreed, v
<1> QED
  BY <1>4, <1>5, <1>6, <1>7 DEF MinimalLeaf, EmbitLeaf

-----------------------------------------------------------------------------
(* The invariant.                                                          *)

\* A PSBT as the signer finds it: one leaf, of the first input, whose
\* signatures are those the chain asks for.  The signer's own has the true
\* output and the leaf as agreed, and that of a refund waits for the timeout.
FileInv ==
  /\ \E n \in {1, 2} : DOMAIN file.ins = 1..n /\ Len(file.ins) = n
  /\ \E l \in LeafEntries : file.ins[1].leaves = <<l>>
  /\ \A i \in DOMAIN file.ins : i # 1 => file.ins[i].leaves = <<>>
  /\ \A c, d \in file.ins[1].sigs : c.message = d.message
  /\ file.locktime \in {0, leaf.timeout}
  /\ ~foreign =>
       /\ MinimalReads(file) /\ AsAgreed(file.ins[1].leaves[1])
       /\ \A i \in DOMAIN file.ins : file.ins[i].utxo = "true"
       /\ leaf.kind = "refund" => file.locktime = leaf.timeout /\ leaf.timeout # 0

\* The signer's inputs, from whichever parser could read the PSBT.
Parsed ==
  inputs = IF MinimalReads(file) THEN ParseMinimal(file) ELSE ParseViaEmbit(file)

\* Where the run can stand: nothing written, nothing read, nothing reviewed,
\* nothing signed, nothing sent.
Unsent    == accepted = FALSE
Unwitnessed == Unsent /\ witness = NoWitness
Nobody    == Unwitnessed /\ myKey = <<>>
Unread    == Nobody /\ info = NoInfo
AtWrite   == Unread /\ file = NoFile /\ inputs = <<>>
AtRead    == Unread /\ FileInv /\ inputs = <<>>
AtReview  == Unread /\ FileInv /\ Parsed
Analyzed  == FileInv /\ Parsed /\ info = AnalyzeScript(Read.script)
Reviewed  == Nobody /\ Analyzed
Approved  == Analyzed /\ VerifyLeaf(inputs[1]) /\ info.type # "unknown"
AtSign    == Nobody /\ Approved
Refused   == Unwitnessed /\ Approved /\ myKey \in Keys /\ Signatures(myKey, preimage) = {}
Signed    == /\ Approved /\ Signatures(myKey, preimage) # {}
             /\ witness = [script |-> Read.script, header |-> Read.header,
                           key |-> info.key, signs |-> Signatures(myKey, preimage)]
AtSend    == Unsent /\ Signed
Sent      == /\ Signed
             /\ accepted <=> /\ WitnessIsValid /\ IsFinal(sentAt)
                             /\ Timelocked => LockTimePasses

LeafInv ==
  /\ leaf \in Leaves
  /\ ~foreign => leaf.kind \in {"claim", "refund"}
  /\ \/ pc = "write" /\ AtWrite
     \/ pc = "read" /\ AtRead
     \/ pc = "review" /\ AtReview
     \/ pc = "sign" /\ AtSign
     \/ pc = "send" /\ AtSend
     \/ pc = "over" /\ \/ AtWrite /\ leaf.timeout = 0
                       \/ AtRead /\ ~MinimalReads(file)
                       \/ Reviewed /\ ~Approved
                       \/ Refused
                       \/ Sent

\* What does not change with the rest.
LEMMA KeptLeaf ==
  ASSUME leaf' = leaf
  PROVE  /\ Script' = Script /\ LeafEntries' = LeafEntries
         /\ \A l : AsAgreed(l)' <=> AsAgreed(l)
<1>1. Script' = Script
  BY Zenon DEF Script
<1> QED
  BY <1>1, Zenon DEF LeafEntries, AsAgreed

LEMMA KeptFile ==
  ASSUME leaf' = leaf, foreign' = foreign, file' = file, FileInv
  PROVE  FileInv' /\ ChainMessage' = ChainMessage
<1>1. Script' = Script /\ LeafEntries' = LeafEntries
  BY KeptLeaf
<1>2. ChainMessage' = ChainMessage
  BY <1>1, Zenon DEF ChainMessage, TrueOutputs
<1> QED
  BY <1>1, <1>2, Zenon DEF FileInv, MinimalReads, AsAgreed

LEMMA KeptInputs ==
  ASSUME leaf' = leaf, foreign' = foreign, file' = file, inputs' = inputs,
         FileInv, Parsed
  PROVE  FileInv' /\ Parsed' /\ Read' = Read
<1>1. FileInv'
  BY KeptFile
<1> QED
  BY <1>1, Zenon DEF Parsed, Read, MinimalReads, ParseMinimal, ParseViaEmbit

LEMMA KeptInfo ==
  ASSUME UNCHANGED <<leaf, foreign, file, inputs, info>>, Analyzed
  PROVE  /\ Analyzed' /\ Read' = Read /\ (Approved' <=> Approved)
         /\ \A k, p : Signatures(k, p)' = Signatures(k, p)
<1>1. FileInv' /\ Parsed' /\ Read' = Read /\ Script' = Script
  BY KeptInputs, KeptLeaf DEF Analyzed
<1>2. Analyzed'
  BY <1>1, Zenon DEF Analyzed
<1>3. Approved' <=> Approved
  BY <1>1, <1>2, Zenon DEF Approved, VerifyLeaf
<1>4. \A k, p : Signatures(k, p)' = Signatures(k, p)
  BY <1>1, Zenon DEF Signatures, Given, Message, Sighash
<1> QED
  BY <1>1, <1>2, <1>3, <1>4

LEMMA InitInv == Init => LeafInv
BY Zenon DEF Init, LeafInv, AtWrite, Unread, Nobody, Unwitnessed, Unsent

\* The signer's own PSBTs.
LEMMA OwnFile ==
  ASSUME LeafInv, ~foreign, leaf' = leaf, foreign' = foreign,
         NEW locktime \in {0, leaf.timeout},
         leaf.kind = "refund" => locktime = leaf.timeout /\ leaf.timeout # 0,
         NEW sigs, file' = WritePsbt(locktime, sigs),
         \A c \in sigs : c.message = Sighash(locktime, <<"true">>, Script, LeafVersion)
  PROVE  FileInv'
<1> DEFINE l == [header |-> LeafVersion, value |-> Script \o <<LeafVersion>>]
           e == Entry("true", FALSE, <<l>>, sigs)
<1>1. /\ file' = [whole |-> TRUE, version |-> 0, locktime |-> locktime, ins |-> <<e>>]
      /\ e.utxo = "true" /\ e.leaves = <<l>> /\ e.sigs = sigs
  BY DEF WritePsbt, LeafValue, Entry
<1>2. Script' = Script /\ LeafEntries' = LeafEntries /\ l \in LeafEntries
  BY KeptLeaf DEF LeafEntries
<1>3. l = [header |-> LeafVersion, value |-> Script' \o <<LeafVersion>>]
  BY <1>2
<1> HIDE DEF l, e
<1>4. /\ file'.ins = <<e>> /\ DOMAIN file'.ins = 1..1 /\ Len(file'.ins) = 1
      /\ file'.ins[1] = e /\ file'.locktime = locktime /\ MinimalReads(file')
  BY <1>1 DEF MinimalReads
<1>5. ChainMessage' = Sighash(locktime, <<"true">>, Script, LeafVersion)
  <2>1. TrueOutputs' = <<"true">>
    BY <1>4 DEF TrueOutputs
  <2> QED
    BY <1>2, <1>4, <2>1 DEF ChainMessage, Sighash
<1>6. <<l>>[1] = l
  OBVIOUS
<1>7. \E n \in {1, 2} : DOMAIN file'.ins = 1..n /\ Len(file'.ins) = n
  BY <1>4
<1>8. \A i \in DOMAIN file'.ins : i = 1
  BY <1>4
<1>9. /\ file'.ins[1].leaves = <<l>> /\ file'.ins[1].leaves[1] = l
      /\ file'.ins[1].sigs = sigs /\ file'.ins[1].utxo = "true"
  BY <1>1, <1>4, <1>6
<1>10. /\ file'.locktime \in {0, leaf'.timeout}
       /\ leaf'.kind = "refund" => file'.locktime = leaf'.timeout /\ leaf'.timeout # 0
  BY <1>4
<1>11. \A c, d \in file'.ins[1].sigs : c.message = d.message
  BY <1>9
<1> QED
  BY <1>2, <1>3, <1>4, <1>7, <1>8, <1>9, <1>10, <1>11, Zenon DEF FileInv, AsAgreed

\* Another wallet's.
LEMMA ForeignFile ==
  ASSUME LeafInv, NEW version, NEW whole, NEW prev, NEW cosigned,
         NEW locktime \in {0, leaf.timeout}, NEW l \in LeafEntries,
         NEW utxos \in {<<o>> : o \in Outputs} \cup (Outputs \X Outputs),
         ForeignPsbt(version, whole, locktime, l, utxos, prev, cosigned)
  PROVE  FileInv'
<1> DEFINE n == Len(utxos)
           message == [locktime |-> locktime,
                       outputs |-> IF cosigned THEN [i \in 1..n |-> "true"] ELSE <<>>,
                       script |-> Script, version |-> LeafVersion]
           sigs == {Cosignature(k, message) : k \in {leaf.key, leaf.other}}
           ins == [i \in 1..n |-> IF i = 1 THEN Entry(utxos[1], FALSE, <<l>>, sigs)
                                  ELSE Entry(utxos[i], prev, <<>>, {})]
<1>1. /\ foreign /\ foreign' = foreign /\ leaf' = leaf
      /\ file' = [whole |-> whole, version |-> version, locktime |-> locktime, ins |-> ins]
  BY DEF ForeignPsbt, given
<1>2. n \in {1, 2}
  <2>1. CASE utxos \in {<<o>> : o \in Outputs}
    BY <2>1
  <2>2. CASE utxos \in Outputs \X Outputs
    BY <2>2
  <2> QED
    BY <2>1, <2>2
<1>3. \A c \in sigs : c.message = message
  BY DEF Cosignature
<1> HIDE DEF n, message, sigs
<1>4. /\ DOMAIN ins = 1..n /\ Len(ins) = n
      /\ ins[1].leaves = <<l>> /\ ins[1].sigs = sigs
      /\ \A i \in DOMAIN ins : i # 1 => ins[i].leaves = <<>>
  <2>1. n \in Nat /\ 1 \in 1..n
    BY <1>2
  <2>2. DOMAIN ins = 1..n /\ Len(ins) = n
    BY <2>1
  <2>3. ins[1] = Entry(utxos[1], FALSE, <<l>>, sigs)
    BY <2>1
  <2>4. ASSUME NEW i \in 1..n, i # 1
        PROVE  ins[i] = Entry(utxos[i], prev, <<>>, {})
    BY <2>4
  <2> HIDE DEF ins
  <2> QED
    BY <2>2, <2>3, <2>4 DEF Entry
<1> HIDE DEF ins
<1>5. file'.ins = ins /\ file'.locktime = locktime
  BY <1>1
<1>6. Script' = Script /\ LeafEntries' = LeafEntries
  BY <1>1, KeptLeaf
<1>7. \A c, d \in sigs : c.message = d.message
  BY <1>3
<1> QED
  BY <1>1, <1>2, <1>4, <1>5, <1>6, <1>7, Zenon DEF FileInv

\* What the chain answers depends on.
LEMMA KeptAnswer ==
  ASSUME UNCHANGED <<leaf, foreign, file, preimage, witness>>, FileInv, NEW at, sentAt' = at
  PROVE  /\ WitnessIsValid' <=> WitnessIsValid
         /\ IsFinal(sentAt)' <=> IsFinal(at)
         /\ (Timelocked => LockTimePasses)' <=> (Timelocked => LockTimePasses)
<1>1. Script' = Script /\ ChainMessage' = ChainMessage
  BY KeptLeaf, KeptFile
<1> QED
  BY <1>1, Zenon DEF WitnessIsValid, IsFinal, Timelocked, LockTimePasses, TypeOfLeaf

\* One step for every action.
LEMMA NextInv == LeafInv /\ [Next]_vars => LeafInv'
<1> SUFFICES ASSUME LeafInv, [Next]_vars
             PROVE  LeafInv'
  OBVIOUS
<1> USE DEF given, person
<1>1. CASE BuildRefundPsbt
  <2>1. /\ AtWrite /\ ~foreign /\ leaf.kind = "refund"
        /\ UNCHANGED <<leaf, embit, foreign, inputs, info, myKey, preimage, witness,
                       sentAt, accepted>>
    BY <1>1 DEF BuildRefundPsbt, Own, LeafInv
  <2>2. CASE leaf.timeout = 0
    <3>1. pc' = "over" /\ file' = file
      BY <1>1, <2>2 DEF BuildRefundPsbt
    <3> QED
      BY <2>1, <2>2, <3>1, Zenon DEF LeafInv, AtWrite, Unread, Nobody, Unwitnessed, Unsent
  <2>3. CASE leaf.timeout # 0
    <3>1. pc' = "read" /\ file' = WritePsbt(leaf.timeout, {})
      BY <1>1, <2>3 DEF BuildRefundPsbt
    <3>2. FileInv'
      BY <2>1, <2>3, <3>1, OwnFile
    <3> QED
      BY <2>1, <3>1, <3>2, Zenon
      DEF LeafInv, AtWrite, AtRead, Unread, Nobody, Unwitnessed, Unsent
  <2> QED
    BY <2>2, <2>3
<1>2. CASE BuildClaimPsbt
  <2>1. /\ AtWrite /\ ~foreign /\ leaf.kind = "claim" /\ pc' = "read"
        /\ UNCHANGED <<leaf, embit, foreign, inputs, info, myKey, preimage, witness,
                       sentAt, accepted>>
    BY <1>2 DEF BuildClaimPsbt, Own, LeafInv
  <2> DEFINE message == Sighash(0, <<"true">>, Script, LeafVersion)
             sigs == {Cosignature(leaf.key, message)}
  <2>2. file' = WritePsbt(0, sigs) /\ \A c \in sigs : c.message = message
    BY <1>2 DEF BuildClaimPsbt, Cosignature
  <2> HIDE DEF sigs
  <2>3. FileInv'
    BY <2>1, <2>2, OwnFile
  <2> QED
    BY <2>1, <2>3, Zenon
    DEF LeafInv, AtWrite, AtRead, Unread, Nobody, Unwitnessed, Unsent
<1>3. CASE pc = "write" /\ foreign /\ \E version \in {0, 2}, whole, prev, cosigned \in BOOLEAN,
             locktime \in {0, leaf.timeout}, l \in LeafEntries,
             utxos \in {<<o>> : o \in Outputs} \cup (Outputs \X Outputs) :
             ForeignPsbt(version, whole, locktime, l, utxos, prev, cosigned)
  <2>1. PICK version \in {0, 2}, whole \in BOOLEAN, prev \in BOOLEAN, cosigned \in BOOLEAN,
             locktime \in {0, leaf.timeout}, l \in LeafEntries,
             utxos \in {<<o>> : o \in Outputs} \cup (Outputs \X Outputs) :
             ForeignPsbt(version, whole, locktime, l, utxos, prev, cosigned)
    BY <1>3
  <2>2. FileInv'
    BY <2>1, ForeignFile
  <2>3. /\ AtWrite /\ pc' = "read"
        /\ UNCHANGED <<leaf, embit, foreign, inputs, info, myKey, preimage, witness,
                       sentAt, accepted>>
    BY <2>1 DEF ForeignPsbt, LeafInv
  <2> QED
    BY <2>2, <2>3, Zenon
    DEF LeafInv, AtWrite, AtRead, Unread, Nobody, Unwitnessed, Unsent
<1>4. CASE ParsePsbt
  <2>1. /\ AtRead
        /\ UNCHANGED <<leaf, embit, foreign, file, info, myKey, preimage, witness,
                       sentAt, accepted>>
    BY <1>4 DEF ParsePsbt, LeafInv
  <2>2. FileInv'
    BY <2>1, KeptFile DEF AtRead
  <2>3. CASE MinimalReads(file)
    <3>1. pc' = "review" /\ inputs' = ParseMinimal(file)
      BY <1>4, <2>3 DEF ParsePsbt
    <3>2. Parsed'
      BY <2>1, <2>3, <3>1, Zenon DEF Parsed, MinimalReads, ParseMinimal
    <3> QED
      BY <2>1, <2>2, <3>1, <3>2, Zenon
      DEF LeafInv, AtRead, AtReview, Unread, Nobody, Unwitnessed, Unsent
  <2>4. CASE ~MinimalReads(file) /\ embit /\ file.whole
    <3>1. pc' = "review" /\ inputs' = ParseViaEmbit(file)
      BY <1>4, <2>4 DEF ParsePsbt
    <3>2. Parsed'
      BY <2>1, <2>4, <3>1, Zenon DEF Parsed, MinimalReads, ParseViaEmbit
    <3> QED
      BY <2>1, <2>2, <3>1, <3>2, Zenon
      DEF LeafInv, AtRead, AtReview, Unread, Nobody, Unwitnessed, Unsent
  <2>5. CASE ~MinimalReads(file) /\ ~(embit /\ file.whole)
    <3>1. pc' = "over" /\ inputs' = inputs
      BY <1>4, <2>5 DEF ParsePsbt
    <3>2. ~MinimalReads(file')
      BY <2>1, <2>5
    <3> QED
      BY <2>1, <2>2, <3>1, <3>2, Zenon
      DEF LeafInv, AtRead, Unread, Nobody, Unwitnessed, Unsent
  <2> QED
    BY <2>3, <2>4, <2>5
<1>5. CASE Review
  <2>1. /\ AtReview /\ info' = AnalyzeScript(Read.script)
        /\ pc' = IF VerifyLeaf(inputs[1]) /\ info'.type # "unknown" THEN "sign" ELSE "over"
        /\ UNCHANGED <<leaf, embit, foreign, file, inputs, myKey, preimage, witness,
                       sentAt, accepted>>
    BY <1>5 DEF Review, LeafInv
  <2>2. FileInv' /\ Parsed' /\ Read' = Read /\ Script' = Script
    BY <2>1, KeptInputs, KeptLeaf DEF AtReview
  <2>3. Analyzed'
    BY <2>1, <2>2, Zenon DEF Analyzed
  <2>4. Approved' <=> VerifyLeaf(inputs[1]) /\ info'.type # "unknown"
    BY <2>1, <2>2, <2>3, Zenon DEF Approved, VerifyLeaf
  <2>5. Nobody'
    BY <2>1, Zenon DEF AtReview, Unread, Nobody, Unwitnessed, Unsent
  <2>6. CASE VerifyLeaf(inputs[1]) /\ info'.type # "unknown"
    BY <2>1, <2>4, <2>5, <2>6, Zenon DEF LeafInv, AtSign
  <2>7. CASE ~(VerifyLeaf(inputs[1]) /\ info'.type # "unknown")
    BY <2>1, <2>3, <2>4, <2>5, <2>7, Zenon DEF LeafInv, Reviewed
  <2> QED
    BY <2>6, <2>7
<1>6. CASE pc = "sign" /\ \E k \in Keys, p \in Preimages : Sign(k, p)
  <2>1. PICK k \in Keys, p \in Preimages : Sign(k, p)
    BY <1>6
  <2>2. /\ AtSign /\ myKey' = k /\ preimage' = p
        /\ UNCHANGED <<leaf, embit, foreign, file, inputs, info, sentAt, accepted>>
    BY <2>1 DEF Sign, LeafInv
  <2>3. /\ Approved' /\ Read' = Read
        /\ Signatures(myKey, preimage)' = Signatures(k, p)
    BY <2>2, KeptInfo DEF AtSign, Approved
  <2>4. CASE Signatures(k, p) = {}
    <3>1. pc' = "over" /\ witness' = witness
      BY <2>1, <2>4 DEF Sign
    <3> QED
      BY <2>2, <2>3, <2>4, <3>1, Zenon
      DEF LeafInv, AtSign, Refused, Nobody, Unwitnessed, Unsent
  <2>5. CASE Signatures(k, p) # {}
    <3>1. /\ pc' = "send"
          /\ witness' = [script |-> Read.script, header |-> Read.header,
                         key |-> info.key, signs |-> Signatures(k, p)]
      BY <2>1, <2>5 DEF Sign
    <3> QED
      BY <2>2, <2>3, <2>5, <3>1, Zenon
      DEF LeafInv, AtSign, AtSend, Signed, Nobody, Unwitnessed, Unsent
  <2> QED
    BY <2>4, <2>5
<1>7. CASE pc = "send" /\ \E at \in Moments : Broadcast(at)
  <2>1. PICK at \in Moments : Broadcast(at)
    BY <1>7
  <2>2. /\ AtSend /\ sentAt' = at /\ pc' = "over"
        /\ UNCHANGED <<leaf, embit, foreign, file, inputs, info, myKey, preimage, witness>>
    BY <2>1 DEF Broadcast, LeafInv
  <2>3. Signed'
    <3>1. /\ Approved' /\ Read' = Read
          /\ Signatures(myKey, preimage)' = Signatures(myKey, preimage)
      BY <2>2, KeptInfo DEF AtSend, Signed, Approved
    <3> QED
      BY <2>2, <3>1, Zenon DEF AtSend, Signed
  <2>4. Sent'
    <3>1. accepted' <=> WitnessIsValid /\ IsFinal(at) /\ (Timelocked => LockTimePasses)
      BY <2>1, Zenon DEF Broadcast
    <3>2. /\ WitnessIsValid' <=> WitnessIsValid
          /\ IsFinal(sentAt)' <=> IsFinal(at)
          /\ (Timelocked => LockTimePasses)' <=> (Timelocked => LockTimePasses)
      BY <2>2, KeptAnswer DEF AtSend, Signed, Approved, Analyzed
    <3> QED
      BY <2>3, <3>1, <3>2, Zenon DEF Sent
  <2> QED
    BY <2>2, <2>4, Zenon DEF LeafInv, AtSend, Signed
<1>8. CASE UNCHANGED vars
  <2>1. UNCHANGED <<pc, leaf, embit, foreign, file, inputs, info, myKey, preimage,
                    witness, sentAt, accepted>>
    BY <1>8 DEF vars
  <2>2. FileInv => FileInv'
    BY <2>1, KeptFile
  <2>3. FileInv /\ Parsed => Parsed'
    BY <2>1, KeptInputs
  <2>4. Analyzed => /\ Analyzed' /\ Read' = Read /\ (Approved' <=> Approved)
                    /\ Signatures(myKey, preimage)' = Signatures(myKey, preimage)
    <3> SUFFICES ASSUME Analyzed
                 PROVE  /\ Analyzed' /\ Read' = Read /\ (Approved' <=> Approved)
                        /\ Signatures(myKey, preimage)' = Signatures(myKey, preimage)
      OBVIOUS
    <3> QED
      BY <2>1, KeptInfo
  <2>5. /\ Unread => Unread'
        /\ Nobody => Nobody'
        /\ Unwitnessed => Unwitnessed'
        /\ Unsent => Unsent'
    BY <2>1, Zenon DEF Unread, Nobody, Unwitnessed, Unsent
  <2>6. /\ AtWrite => AtWrite'
        /\ AtRead => AtRead'
        /\ AtReview => AtReview'
        /\ Reviewed => Reviewed'
        /\ AtSign => AtSign'
        /\ Refused => Refused'
    BY <2>1, <2>2, <2>3, <2>4, <2>5, Zenon
    DEF AtWrite, AtRead, AtReview, Reviewed, AtSign, Refused, Approved
  <2>7. (Signed => Signed') /\ (AtSend => AtSend')
    BY <2>1, <2>4, <2>5, Zenon DEF AtSend, Signed, Approved
  <2>8. Sent => Sent'
    <3> SUFFICES ASSUME Sent
                 PROVE  Sent'
      OBVIOUS
    <3>1. /\ WitnessIsValid' <=> WitnessIsValid
          /\ IsFinal(sentAt)' <=> IsFinal(sentAt)
          /\ (Timelocked => LockTimePasses)' <=> (Timelocked => LockTimePasses)
      BY <2>1, KeptAnswer DEF Sent, Signed, Approved, Analyzed
    <3> QED
      BY <2>1, <2>7, <3>1, Zenon DEF Sent
  <2>9. /\ Reviewed /\ ~Approved => ~Approved'
        /\ ~MinimalReads(file) => ~MinimalReads(file')
    BY <2>1, <2>4, Zenon DEF Reviewed
  <2> QED
    BY <2>1, <2>6, <2>7, <2>8, <2>9, Zenon DEF LeafInv
<1> QED
  BY <1>1, <1>2, <1>3, <1>4, <1>5, <1>6, <1>7, <1>8, Zenon DEF Next

-----------------------------------------------------------------------------
(* What follows from it.                                                   *)

\* The parsed inputs and the PSBT's: one each, with the true output where the
\* parser that ran could find it, and with the same signatures.
LEMMA InputsRead ==
  ASSUME FileInv, Parsed
  PROVE  /\ Len(inputs) = Len(file.ins) /\ DOMAIN file.ins = 1..Len(file.ins)
         /\ 1 \in 1..Len(file.ins)
         /\ \A i \in DOMAIN file.ins : inputs[i].output = "true" <=> Known(file.ins[i])
         /\ inputs[1].sigs = file.ins[1].sigs
         /\ MinimalReads(file) => Read = MinimalLeaf(file.ins[1].leaves[1])
<1>1. PICK n \in {1, 2} : DOMAIN file.ins = 1..n /\ Len(file.ins) = n
  BY DEF FileInv
<1>2. PICK l : file.ins[1].leaves = <<l>>
  BY DEF FileInv
<1>3. Len(file.ins[1].leaves) = 1 /\ 1 \in 1..Len(file.ins[1].leaves)
  BY <1>2
<1>4. n \in Nat /\ 1 \in 1..n
  OBVIOUS
<1>5. CASE MinimalReads(file)
  <2>1. inputs = [i \in 1..n |-> MinimalInput(file.ins[i])]
    BY <1>1, <1>5 DEF Parsed, ParseMinimal
  <2>2. Len(inputs) = n
    BY <1>4, <2>1
  <2>3. \A i \in 1..n : inputs[i].output = "true" <=> Known(file.ins[i])
    BY <1>5, <2>1 DEF MinimalInput, Known
  <2>4. inputs[1] = MinimalInput(file.ins[1])
    BY <1>4, <2>1
  <2>5. inputs[1].sigs = file.ins[1].sigs
    BY <2>4 DEF MinimalInput
  <2>6. Read = MinimalLeaf(file.ins[1].leaves[1])
    BY <1>3, <2>4 DEF MinimalInput, Read
  <2> QED
    BY <1>1, <1>4, <2>2, <2>3, <2>5, <2>6
<1>6. CASE ~MinimalReads(file)
  <2>1. inputs = [i \in 1..n |-> EmbitInput(file.ins[i])]
    BY <1>1, <1>6 DEF Parsed, ParseViaEmbit
  <2>2. Len(inputs) = n
    BY <1>4, <2>1
  <2>3. ASSUME NEW i \in 1..n
        PROVE  inputs[i].output = "true" <=> Known(file.ins[i])
    <3>1. inputs[i].output = IF file.ins[i].utxo = "missing" /\ file.ins[i].prev
                             THEN "true" ELSE file.ins[i].utxo
      BY <2>1 DEF EmbitInput
    <3> QED
      BY <1>6, <3>1 DEF Known
  <2>4. inputs[1] = EmbitInput(file.ins[1])
    BY <1>4, <2>1
  <2>5. inputs[1].sigs = file.ins[1].sigs
    BY <2>4 DEF EmbitInput
  <2> QED
    BY <1>1, <1>4, <1>6, <2>2, <2>3, <2>5
<1> QED
  BY <1>5, <1>6

\* What is known of a leaf that was approved.
LEMMA ApprovedLeaf ==
  ASSUME leaf \in Leaves, Approved
  PROVE  /\ Read.script = Script /\ Read.version = LeafVersion
         /\ info = AnalyzeScript(Script) /\ info.type = TypeOfLeaf
         /\ TypeOfLeaf # "unknown" /\ (info.key = leaf.key <=> ~Hidden)
         /\ MinimalReads(file) => Read.header = LeafVersion
<1>1. /\ Read.script = Script /\ Read.version = LeafVersion
      /\ info = AnalyzeScript(Script) /\ info.type # "unknown"
  BY DEF Approved, Analyzed, VerifyLeaf, Read
<1>2. ScriptIsRead
  BY ScriptReading
<1>3. MinimalReads(file) => Read.header = LeafVersion
  <2>1. MinimalReads(file) => Read = MinimalLeaf(file.ins[1].leaves[1])
    BY InputsRead DEF Approved, Analyzed
  <2> QED
    BY <1>1, <2>1 DEF MinimalLeaf
<1> QED
  BY <1>1, <1>2, <1>3, Zenon DEF ScriptIsRead

\* The signatures are what the chain asks for where those of the PSBT are and,
\* for the signer's own, where it knows the outputs of all inputs.
LEMMA SignedMessages ==
  ASSUME leaf \in Leaves, Signed
  PROVE  witness.signs = {ChainMessage} <=>
           /\ info.type = "v2_claim" \/ \A i \in DOMAIN file.ins : Known(file.ins[i])
           /\ info.type \in {"v2_claim", "claim"} => Cosigned
<1>1. FileInv /\ Parsed /\ Approved
  BY DEF Signed, Approved, Analyzed
<1>2. Read.script = Script /\ Read.version = LeafVersion
  BY <1>1, ApprovedLeaf
<1>3. \A k : Given(k) # {} => (Given(k) = {ChainMessage} <=> Cosigned)
  <2>1. /\ \A c, d \in inputs[1].sigs : c.message = d.message
        /\ Cosigned <=> \A c \in inputs[1].sigs : c.message = ChainMessage
    BY <1>1, InputsRead DEF FileInv, Cosigned
  <2> QED
    BY <2>1 DEF Given
<1>4. Message = ChainMessage <=> \A i \in DOMAIN file.ins : Known(file.ins[i])
  <2> DEFINE n == Len(file.ins)
             out == [i \in 1..n |-> inputs[i].output]
  <2>1. /\ Len(inputs) = n /\ DOMAIN file.ins = 1..n
        /\ \A i \in 1..n : inputs[i].output = "true" <=> Known(file.ins[i])
    BY <1>1, InputsRead
  <2>2. Message = [locktime |-> file.locktime, outputs |-> out,
                   script |-> Script, version |-> LeafVersion]
    BY <1>2, <2>1 DEF Message, Sighash
  <2>3. ChainMessage = [locktime |-> file.locktime, outputs |-> TrueOutputs,
                        script |-> Script, version |-> LeafVersion]
    BY DEF ChainMessage
  <2>4. out = TrueOutputs <=> \A i \in 1..n : inputs[i].output = "true"
    BY DEF TrueOutputs
  <2> HIDE DEF out, n
  <2>5. Message = ChainMessage <=> out = TrueOutputs
    BY <2>2, <2>3
  <2> QED
    BY <2>1, <2>4, <2>5
<1> DEFINE known == \A i \in DOMAIN file.ins : Known(file.ins[i])
<1>5. CASE info.type = "v2_claim"
  <2>1. witness.signs = Given(info.key) /\ Given(info.key) # {}
    BY <1>5 DEF Signed, Signatures
  <2> QED
    BY <1>3, <1>5, <2>1
<1>6. CASE info.type = "claim"
  <2>1. /\ witness.signs = {Message} \cup Given(info.cosigner)
        /\ Given(info.cosigner) # {}
    BY <1>6 DEF Signed, Signatures
  <2>2. Message = ChainMessage <=> known
    BY <1>4
  <2> HIDE DEF known
  <2>3. Given(info.cosigner) = {ChainMessage} <=> Cosigned
    BY <1>3, <2>1
  <2>4. witness.signs = {ChainMessage} <=>
          Message = ChainMessage /\ Given(info.cosigner) = {ChainMessage}
    BY <2>1
  <2>5. witness.signs = {ChainMessage} <=> known /\ Cosigned
    BY <2>2, <2>3, <2>4, Zenon
  <2> QED
    BY <1>6, <2>5 DEF known
<1>7. CASE info.type \notin {"v2_claim", "claim"}
  <2>1. witness.signs = {Message}
    BY <1>7 DEF Signed, Signatures
  <2>2. witness.signs = {ChainMessage} <=> known
    BY <1>4, <2>1
  <2> QED
    BY <1>7, <2>2
<1> QED
  BY <1>5, <1>6, <1>7

\* What the chain finds of the witness.
LEMMA WitnessMade ==
  ASSUME leaf \in Leaves, Signed
  PROVE  /\ witness # NoWitness
         /\ WitnessIsValid <=>
              /\ witness.header = LeafVersion
              /\ info.type = "v2_claim" \/ \A i \in DOMAIN file.ins : Known(file.ins[i])
              /\ info.type \in {"v2_claim", "claim"} => Cosigned
              /\ info.type = "hashlock" => preimage = "right"
              /\ ~Hidden
         /\ MinimalReads(file) => witness.header = LeafVersion
<1>1. Approved
  BY DEF Signed
<1>2. /\ Read.script = Script /\ info.type = TypeOfLeaf
      /\ (info.key = leaf.key <=> ~Hidden)
      /\ MinimalReads(file) => Read.header = LeafVersion
  BY <1>1, ApprovedLeaf
<1>3. /\ witness.script = Read.script /\ witness.header = Read.header
      /\ witness.key = info.key /\ witness.signs # {}
  BY DEF Signed
<1>4. witness # NoWitness
  BY <1>3 DEF NoWitness
<1>5. witness.signs = {ChainMessage} <=>
        /\ info.type = "v2_claim" \/ \A i \in DOMAIN file.ins : Known(file.ins[i])
        /\ info.type \in {"v2_claim", "claim"} => Cosigned
  BY SignedMessages
<1> QED
  BY <1>2, <1>3, <1>4, <1>5, Zenon DEF WitnessIsValid

\* A leaf that is read is the one that was written: its type, key, timeout and
\* hash are what the builder meant.
LEMMA ReadBack == LeafInv => LeafIsReadBack
<1> SUFFICES ASSUME LeafInv, info.type # "unknown", Read.script = Script
             PROVE  /\ info.type = TypeOfLeaf
                    /\ info.key = leaf.key <=> ~Hidden
                    /\ Timelocked /\ ~Hidden =>
                         info.locktime = IF leaf.timeout <= 16 THEN 0 ELSE leaf.timeout
                    /\ info.type = "hashlock" => Commitment(Script) = {leaf.other}
  BY DEF LeafIsReadBack
<1>1. leaf \in Leaves
  BY DEF LeafInv
<1>2. info = AnalyzeScript(Script)
  <2>1. info # NoInfo
    BY DEF NoInfo, Info
  <2>2. Analyzed
    BY <2>1, Zenon
    DEF LeafInv, AtWrite, AtRead, AtReview, Unread, AtSign, AtSend, Reviewed, Refused,
        Approved, Signed, Sent
  <2> QED
    BY <2>2 DEF Analyzed
<1>3. ScriptIsRead
  BY <1>1, ScriptReading
<1> QED
  BY <1>2, <1>3, Zenon DEF ScriptIsRead

\* From a PSBT with every output, and the leaf as agreed, both parsers read
\* the same inputs.
LEMMA SameReading == LeafInv => ParsersAgree
<1> SUFFICES ASSUME LeafInv, MinimalReads(file),
                    \A i \in DOMAIN file.ins :
                      /\ file.ins[i].utxo # "missing"
                      /\ ~foreign \/ \A k \in DOMAIN file.ins[i].leaves :
                                       AsAgreed(file.ins[i].leaves[k])
             PROVE  ParseMinimal(file) = ParseViaEmbit(file)
  BY DEF ParsersAgree
<1>1. FileInv /\ leaf \in Leaves
  <2>1. file # NoFile
    BY DEF MinimalReads, NoFile
  <2> QED
    BY <2>1, Zenon
    DEF LeafInv, AtWrite, AtRead, AtReview, AtSign, AtSend, Reviewed, Refused,
        Analyzed, Approved, Signed, Sent
<1>2. PICK n \in {1, 2} : DOMAIN file.ins = 1..n /\ Len(file.ins) = n
  BY <1>1 DEF FileInv
<1>3. ASSUME NEW i \in 1..n
      PROVE  MinimalInput(file.ins[i]) = EmbitInput(file.ins[i])
  <2> DEFINE e == file.ins[i]
  <2>1. e.utxo # "missing" /\ i \in DOMAIN file.ins
    BY <1>2
  <2>2. [k \in 1..Len(e.leaves) |-> MinimalLeaf(e.leaves[k])]
          = [k \in 1..Len(e.leaves) |-> EmbitLeaf(e.leaves[k])]
    <3>1. CASE i = 1
      <4>1. PICK l : e.leaves = <<l>>
        BY <1>1, <3>1 DEF FileInv
      <4>2. Len(e.leaves) = 1 /\ DOMAIN e.leaves = 1..1 /\ e.leaves[1] = l
        BY <4>1
      <4>3. AsAgreed(l)
        BY <1>1, <2>1, <3>1, <4>2 DEF FileInv
      <4>4. MinimalLeaf(l) = EmbitLeaf(l)
        BY <1>1, <4>3, AgreedLeaf
      <4> HIDE DEF e
      <4>5. \A k \in 1..Len(e.leaves) : MinimalLeaf(e.leaves[k]) = EmbitLeaf(e.leaves[k])
        BY <4>2, <4>4
      <4> QED
        BY <4>5
    <3>2. CASE i # 1
      <4>1. Len(e.leaves) = 0
        BY <1>1, <2>1, <3>2 DEF FileInv
      <4> HIDE DEF e
      <4> QED
        BY <4>1
    <3> QED
      BY <3>1, <3>2
  <2> QED
    BY <2>1, <2>2, Zenon DEF MinimalInput, EmbitInput
<1> QED
  BY <1>2, <1>3 DEF ParseMinimal, ParseViaEmbit

\* A witness is there where something was signed.
LEMMA WitnessIsSigned ==
  ASSUME LeafInv
  PROVE  /\ leaf \in Leaves
         /\ witness # NoWitness => Signed
         /\ accepted => Sent
<1>1. accepted => ~Unsent
  BY DEF Unsent
<1> QED
  BY <1>1, Zenon
  DEF LeafInv, AtWrite, AtRead, AtReview, AtSign, AtSend, Reviewed, Refused, Unread,
      Nobody, Unwitnessed, Sent

\* A witness is valid where the outputs were known, the signatures and the
\* preimage that came with them right, the header is the leaf's and the
\* timeout does not hide the key.
LEMMA WitnessCounts == LeafInv => SignatureCounts
<1> SUFFICES ASSUME LeafInv, witness # NoWitness
             PROVE  /\ WitnessIsValid <=>
                         /\ witness.header = LeafVersion
                         /\ info.type = "v2_claim" \/ \A i \in DOMAIN file.ins : Known(file.ins[i])
                         /\ info.type \in {"v2_claim", "claim"} => Cosigned
                         /\ info.type = "hashlock" => preimage = "right"
                         /\ ~Hidden
                    /\ witness.header # LeafVersion => ~MinimalReads(file)
  BY DEF SignatureCounts
<1>1. leaf \in Leaves /\ Signed
  BY WitnessIsSigned
<1> QED
  BY <1>1, WitnessMade, Zenon

\* Nothing passes the chain's lock time check before the leaf's timeout; with
\* the timeout as the transaction's lock time it passes from then on.
LEMMA LockTime ==
  ASSUME leaf \in Leaves, Timelocked, file.locktime \in {0, leaf.timeout}
  PROVE  /\ LockTimePasses /\ IsFinal(sentAt) => Passed
         /\ file.locktime = leaf.timeout => LockTimePasses /\ (IsFinal(sentAt) <=> Passed)
<1>1. StackNumber(Script) = leaf.timeout
  BY ScriptReading DEF ScriptIsRead
<1>2. leaf.timeout \in Nat
  BY LeafParts, MaxTimeoutIsLarge
<1>3. LockTimePasses <=> /\ leaf.timeout <= file.locktime
                         /\ leaf.timeout < Threshold <=> file.locktime < Threshold
  BY <1>1, <1>2, SMT DEF LockTimePasses
<1>4. LockTimePasses => file.locktime = leaf.timeout
  BY <1>2, <1>3, SMT
<1>5. file.locktime = leaf.timeout => LockTimePasses
  BY <1>2, <1>3, SMT
<1>6. file.locktime = leaf.timeout => (IsFinal(sentAt) <=> Passed)
  BY SMT DEF IsFinal, Passed
<1> QED
  BY <1>4, <1>5, <1>6

\* What the chain accepts of a timelocked leaf.
LEMMA AcceptedOnTime ==
  ASSUME LeafInv, accepted, Timelocked
  PROVE  Passed /\ ~Hidden
<1>1. Sent /\ Signed /\ leaf \in Leaves
  BY WitnessIsSigned DEF Sent
<1>2. WitnessIsValid /\ IsFinal(sentAt) /\ LockTimePasses
  BY <1>1, Zenon DEF Sent
<1>3. file.locktime \in {0, leaf.timeout}
  BY <1>1 DEF Signed, Approved, Analyzed, FileInv
<1> QED
  BY <1>1, <1>2, <1>3, WitnessMade, LockTime

\* The refund the signer builds is always approved.
LEMMA OwnRefund ==
  ASSUME leaf \in Leaves, ~foreign, leaf.kind = "refund", FileInv, Parsed
  PROVE  /\ inputs[1].output = "true" /\ VerifyLeaf(inputs[1])
         /\ \A i \in DOMAIN file.ins : Known(file.ins[i])
         /\ Read.header = LeafVersion
<1>1. /\ MinimalReads(file) /\ AsAgreed(file.ins[1].leaves[1])
      /\ \A i \in DOMAIN file.ins : file.ins[i].utxo = "true"
  BY DEF FileInv
<1>2. \A i \in DOMAIN file.ins : Known(file.ins[i])
  BY <1>1 DEF Known
<1>3. inputs[1].output = "true" /\ Read = MinimalLeaf(file.ins[1].leaves[1])
  BY <1>1, <1>2, InputsRead
<1>4. Read = [header |-> LeafVersion, version |-> LeafVersion, script |-> Script]
  BY <1>1, <1>3, AgreedLeaf, Zenon
<1>5. VerifyLeaf(inputs[1])
  BY <1>3, <1>4 DEF VerifyLeaf, Read
<1> QED
  BY <1>2, <1>3, <1>4, <1>5

LEMMA OnTime == LeafInv => OpensOnTime
<1> SUFFICES ASSUME LeafInv, pc = "over", ~foreign, Timelocked
             PROVE  IF leaf.timeout = 0 \/ Hidden THEN ~accepted
                    ELSE myKey \in {<<>>, leaf.key} =>
                           witness # NoWitness /\ (accepted <=> Passed)
  BY AcceptedOnTime, Zenon DEF OpensOnTime
<1>1. leaf \in Leaves /\ leaf.kind = "refund"
  BY DEF LeafInv, Timelocked
<1>2. FileInv /\ Parsed => VerifyLeaf(inputs[1])
  BY <1>1, OwnRefund
<1>3. TypeOfLeaf = "timelocked"
  BY <1>1 DEF TypeOfLeaf, Timelocked
<1>4. CASE AtWrite /\ leaf.timeout = 0
  BY <1>4 DEF AtWrite, Unread, Nobody, Unwitnessed, Unsent
<1>5. CASE AtRead /\ ~MinimalReads(file)
  BY <1>5 DEF AtRead, FileInv
<1>6. CASE Reviewed /\ ~Approved
  <2>1. Analyzed /\ VerifyLeaf(inputs[1]) /\ info = AnalyzeScript(Script)
    BY <1>2, <1>6 DEF Reviewed, Analyzed, VerifyLeaf, Read
  <2>2. info.type = TypeOfLeaf
    BY <1>1, <2>1, ScriptReading DEF ScriptIsRead
  <2> QED
    BY <1>3, <1>6, <2>1, <2>2 DEF Approved
<1>7. CASE Refused
  <2>1. ~accepted
    BY <1>7 DEF Refused, Unwitnessed, Unsent
  <2>2. CASE Hidden
    BY <2>1, <2>2
  <2>3. CASE ~Hidden
    <3>1. info.type = "timelocked" /\ info.key = leaf.key
      BY <1>1, <1>3, <1>7, <2>3, ApprovedLeaf, Zenon DEF Refused
    <3>2. Signatures(leaf.key, preimage) # {}
      BY <3>1 DEF Signatures
    <3>3. myKey # leaf.key /\ myKey # <<>>
      BY <1>7, <3>2, LeafAssumption DEF Refused
    <3> QED
      BY <2>1, <3>3
  <2> QED
    BY <2>2, <2>3
<1>8. CASE Sent
  <2>1. /\ Signed /\ FileInv /\ Parsed
        /\ accepted <=> WitnessIsValid /\ IsFinal(sentAt) /\ LockTimePasses
    BY <1>8, Zenon DEF Sent, Signed, Approved, Analyzed
  <2>2. /\ \A i \in DOMAIN file.ins : Known(file.ins[i])
        /\ witness.header = LeafVersion
    BY <1>1, <2>1, OwnRefund DEF Signed
  <2>3. witness # NoWitness /\ (WitnessIsValid <=> ~Hidden)
    <3>1. info.type = "timelocked"
      BY <1>1, <1>3, <2>1, ApprovedLeaf DEF Signed
    <3> QED
      BY <1>1, <2>1, <2>2, <3>1, WitnessMade
  <2>4. /\ file.locktime = leaf.timeout /\ leaf.timeout # 0
    BY <1>1, <2>1 DEF FileInv
  <2>5. LockTimePasses /\ (IsFinal(sentAt) <=> Passed)
    BY <1>1, <2>4, LockTime
  <2> QED
    BY <2>1, <2>3, <2>4, <2>5
<1> QED
  BY <1>4, <1>5, <1>6, <1>7, <1>8 DEF LeafInv

-----------------------------------------------------------------------------
(* The theorems.                                                           *)

\* The invariant holds of every leaf a contract can have, every PSBT of
\* another wallet, every key given and every moment at which it is sent.
THEOREM LeafInvariant == Spec => []LeafInv
<1>1. Init => LeafInv
  BY InitInv
<1>2. LeafInv /\ [Next]_vars => LeafInv'
  BY NextInv
<1> QED
  BY <1>1, <1>2, PTL DEF Spec

\* Nothing spends a timelocked leaf before its timeout, and the refund the
\* signer builds does from then on: for every timeout of 31 bits and every key.
THEOREM TimeTheorem == Spec => []OpensOnTime
BY LeafInvariant, OnTime, PTL

\* The signer reads back type, key, timeout and hash of every leaf of both
\* builders.
THEOREM ReadingTheorem == Spec => []LeafIsReadBack
BY LeafInvariant, ReadBack, PTL

\* Both parsers read the same from a PSBT written as BIP-371 says.
THEOREM ParserTheorem == Spec => []ParsersAgree
BY LeafInvariant, SameReading, PTL

\* A witness of the tool is valid exactly where what it has not verified is
\* right: outputs, given signatures, preimage, header and hidden key.
THEOREM SignatureTheorem == Spec => []SignatureCounts
BY LeafInvariant, WitnessCounts, PTL

=============================================================================
