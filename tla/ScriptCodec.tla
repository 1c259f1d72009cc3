---------------------------- MODULE ScriptCodec -----------------------------
(***************************************************************************)
(* The scripts of a contract's leaves, byte by byte: how the two builders  *)
(* write them, how the signer reads them back, and the number the chain    *)
(* finds in them.  A script is a sequence of 0..255.                       *)
(***************************************************************************)
EXTENDS Integers, Sequences, SequencesExt

KeyLen == 32

OP_0           == 0
OP_1           == 81
OP_DROP        == 117
OP_EQUALVERIFY == 136
OP_SHA256      == 168
OP_CHECKSIG    == 172
OP_CHECKSIGVERIFY      == 173
OP_CHECKLOCKTIMEVERIFY == 177

-----------------------------------------------------------------------------
(* Numbers.                                                                *)

Byte == 0..255

\* What the first, second, third and fourth byte of a number count.
Weight == <<1, 256, 65536, 16777216>>

\* int.from_bytes(b, "little"): from[i] is the number from byte i on.
LittleEndian(b) ==
  LET from[i \in 1..(Len(b) + 1)] ==
        IF i > Len(b) THEN 0 ELSE b[i] + 256 * from[i + 1]
  IN  from[1]

\* n below 2^31, in w bytes.
Bytes(n, w) == [i \in 1..w |-> (n \div Weight[i]) % 256]

Width(n) ==
  IF n < Weight[2] THEN 1
  ELSE IF n < Weight[3] THEN 2 ELSE IF n < Weight[4] THEN 3 ELSE 4

\* Mutant: without the byte that keeps the number positive.
ScriptNumUnsigned(n) == Bytes(n, Width(n))

\* _encode_scriptnum, of a positive number.
ScriptNum(n) ==
  LET b == Bytes(n, Width(n))
  IN  IF Last(b) >= 128 THEN Append(b, 0) ELSE b

PushData(d) ==
  LET n == Len(d)
  IN  (IF n <= 75 THEN <<n>>
       ELSE IF n <= 255 THEN <<76, n>> ELSE <<77>> \o Bytes(n, 2)) \o d

\* A builder refuses a negative timeout before it comes here.
PushInt(n) ==
  IF n = 0 THEN <<OP_0>>
  ELSE IF n <= 16 THEN <<OP_1 + n - 1>> ELSE PushData(ScriptNum(n))

\* The lending package's own builder, which knows a fourth form.
LendingPushData(d) ==
  LET n == Len(d)
  IN  (IF n <= 75 THEN <<n>>
       ELSE IF n <= 255 THEN <<76, n>>
       ELSE IF n <= 65535 THEN <<77>> \o Bytes(n, 2)
       ELSE <<78>> \o Bytes(n, 4)) \o d

LendingPushInt(n) ==
  IF n = 0 THEN <<OP_0>>
  ELSE IF n <= 16 THEN <<OP_1 + n - 1>> ELSE LendingPushData(ScriptNum(n))

-----------------------------------------------------------------------------
(* The leaves.                                                             *)

ClaimScript(key) == PushData(key) \o <<OP_CHECKSIG>>

RefundScript(timeout, key) ==
  PushInt(timeout) \o <<OP_CHECKLOCKTIMEVERIFY, OP_DROP>>
    \o PushData(key) \o <<OP_CHECKSIG>>

RepayScript(key) == LendingPushData(key) \o <<OP_CHECKSIG>>

LenderClaimScript(oracle, key) ==
  LendingPushData(oracle) \o <<OP_CHECKSIGVERIFY>>
    \o LendingPushData(key) \o <<OP_CHECKSIG>>

LenderHashlockScript(hash, key) ==
  <<OP_SHA256>> \o LendingPushData(hash) \o <<OP_EQUALVERIFY>>
    \o LendingPushData(key) \o <<OP_CHECKSIG>>

LenderTimelockedScript(height, key) ==
  LendingPushInt(height) \o <<OP_CHECKLOCKTIMEVERIFY, OP_DROP>>
    \o LendingPushData(key) \o <<OP_CHECKSIG>>

SafetyRefundScript(timeout, key) ==
  LendingPushInt(timeout) \o <<OP_CHECKLOCKTIMEVERIFY, OP_DROP>>
    \o LendingPushData(key) \o <<OP_CHECKSIG>>

\* The hashlock leaf of another program: its pushes have w length bytes.
PushWide(d, w) == <<IF w = 4 THEN 78 ELSE 75 + w>> \o Bytes(Len(d), w) \o d

WideHashlockScript(hash, key, w) ==
  <<OP_SHA256>> \o PushWide(hash, w) \o <<OP_EQUALVERIFY>>
    \o PushWide(key, w) \o <<OP_CHECKSIG>>

-----------------------------------------------------------------------------
(* Reading them back: a reader that fails has no result.                   *)

Slice(s, from, n) ==
  IF from + n - 1 > Len(s) THEN {}
  ELSE {[data |-> SubSeq(s, from, from + n - 1), next |-> from + n]}

ReadPush(s, i) ==
  IF i > Len(s) THEN {}
  ELSE IF s[i] <= 75 THEN Slice(s, i + 1, s[i])
  ELSE IF s[i] \notin 76..78 THEN {}
  ELSE UNION {Slice(s, n.next, LittleEndian(n.data)) :
                n \in Slice(s, i + 1, <<1, 2, 4>>[s[i] - 75])}

\* A push of 32 bytes and the opcode after it.
KeyThen(s, i, op) ==
  {p \in ReadPush(s, i) :
     Len(p.data) = KeyLen /\ p.next <= Len(s) /\ s[p.next] = op}

\* _parse_fal_hashlock_script
Hashlock(s) ==
  IF s = <<>> \/ s[1] # OP_SHA256 THEN {}
  ELSE UNION {{[hash |-> h.data, key |-> k.data] :
                 k \in {l \in KeyThen(s, h.next + 1, OP_CHECKSIG) :
                          l.next = Len(s)}} :
                h \in KeyThen(s, 2, OP_EQUALVERIFY)}

\* fal_hashlock_commitment_from_script, in the lending package.
Commitment(s) == {f.hash : f \in Hashlock(s)}

\* CLTV DROP <32 bytes> CHECKSIG after the first i bytes, wherever that is.
TimelockAt(s, i) ==
  /\ i + 4 + KeyLen <= Len(s)
  /\ SubSeq(s, i + 1, i + 3) = <<OP_CHECKLOCKTIMEVERIFY, OP_DROP, KeyLen>>
  /\ s[i + 4 + KeyLen] = OP_CHECKSIG

\* Mutant: one byte short.
LocktimeShort(s, i) ==
  IF i > 0 /\ s[1] <= 8 THEN LittleEndian(SubSeq(s, 2, s[1])) ELSE 0

\* What stands before it, if that is a push of up to 8 bytes; other numbers,
\* the opcodes for 1 to 16 among them, are shown as 0.
LocktimeShown(s, i) ==
  IF i > 0 /\ s[1] <= 8
  THEN LittleEndian(SubSeq(s, 2, IF 1 + s[1] <= i THEN 1 + s[1] ELSE i))
  ELSE 0

\* cosigner is the first key of a leaf of two.
Info(type, key, cosigner, locktime) ==
  [type |-> type, key |-> key, cosigner |-> cosigner, locktime |-> locktime]

\* The first place at which the pattern stands.
Timelock(s) ==
  LET i == CHOOSE j \in 0..Len(s) :
             TimelockAt(s, j) /\ \A k \in 0..(j - 1) : ~TimelockAt(s, k)
  IN  Info("timelocked", SubSeq(s, i + 4, i + 3 + KeyLen), <<>>,
           LocktimeShown(s, i))

IsClaim(s) == Len(s) = 2 + KeyLen /\ s[1] = KeyLen /\ Last(s) = OP_CHECKSIG

IsDualSig(s) ==
  /\ Len(s) = 4 + 2 * KeyLen /\ s[1] = KeyLen /\ s[3 + KeyLen] = KeyLen
  /\ s[2 + KeyLen] = OP_CHECKSIGVERIFY /\ Last(s) = OP_CHECKSIG

AnalyzeScript(s) ==
  IF Hashlock(s) # {}
  THEN Info("hashlock", (CHOOSE f \in Hashlock(s) : TRUE).key, <<>>, 0)
  ELSE IF IsClaim(s) THEN Info("v2_claim", SubSeq(s, 2, 1 + KeyLen), <<>>, 0)
  ELSE IF IsDualSig(s)
  THEN Info("claim", SubSeq(s, 4 + KeyLen, 3 + 2 * KeyLen),
            SubSeq(s, 2, 1 + KeyLen), 0)
  ELSE IF \E i \in 0..Len(s) : TimelockAt(s, i) THEN Timelock(s)
  ELSE Info("unknown", <<>>, <<>>, 0)

-----------------------------------------------------------------------------
(* The chain: the number OP_CHECKLOCKTIMEVERIFY finds on the stack.        *)

StackNumber(s) ==
  IF s[1] >= OP_1 THEN s[1] - OP_1 + 1
  ELSE LET b == SubSeq(s, 2, 1 + s[1])
       IN  IF b = <<>> THEN 0
           ELSE IF Last(b) < 128 THEN LittleEndian(b)
           ELSE -LittleEndian([b EXCEPT ![Len(b)] = @ - 128])

=============================================================================
