-------------------------- MODULE BroadcastProofs ---------------------------
(***************************************************************************)
(* What a call reports is true, for every list of endpoints, whatever      *)
(* interface each of them has and whatever they answer, except for the     *)
(* success that a reply without an id makes elsewhere than at Blockchair.  *)
(***************************************************************************)
EXTENDS Broadcast, SequenceTheorems, TLAPS

\* The reply being handled, or the result of the call, says success.
ReportsSuccess ==
  \/ call = "success"
  \/ call = "answered" /\ Returns(Head(todo), reply) # "error"

\* The reply being handled, or the one the call ended with, has no id and comes
\* from an endpoint without the Blockchair interface.
Doubtful ==
  \/ call = "success" /\ Bare
  \/ call = "answered" /\ ~reply.id /\ Head(todo) \notin Blockchair

\* The reports are true as soon as the reply is there, before the client has
\* looked at it; this is what a step preserves.
ReportInv ==
  /\ pool \in [Nodes -> Spends]
  /\ ReportsSuccess => Known \/ mined \/ Doubtful
  /\ accepted => unheard \/ ReportsSuccess

\* The network forgets the transaction only for the one in a block.
LEMMA KnownIsStable ==
  ASSUME pool \in [Nodes -> Spends], Network, Known \/ mined
  PROVE  (Known \/ mined)' /\ pool' \in [Nodes -> Spends]
BY DEF Network, DueNow, OtherSpend, Gossip, MineSpend, Known, Spends

\* A reply that reads as success comes from a node that has the transaction,
\* and one that hides an acceptance is unclear.
LEMMA AnswerIsTrue ==
  ASSUME ReportInv, Answer
  PROVE  ReportInv'
<1>1. PICK n \in Nodes :
        /\ n = Head(todo)
        /\ reply' \in Replies(n)
        /\ pool' = IF Takes(n) THEN [pool EXCEPT ![n] = "ours"] ELSE pool
        /\ accepted' = (accepted \/ Takes(n))
        /\ unheard' = (unheard \/ (Takes(n) /\ Unclear(n, reply')))
  BY DEF Answer
<1>2. call = "asking" /\ call' = "answered" /\ todo' = todo
  BY DEF Answer
<1>3. pool' \in [Nodes -> Spends]
  BY <1>1 DEF ReportInv, Spends
<1>4. ReportsSuccess' => Known' \/ Doubtful'
  <2>1. SUFFICES ASSUME ReportsSuccess', ~Doubtful'
                 PROVE  Takes(n) \/ pool[n] = "ours"
    BY <1>1 DEF Known, ReportInv
  <2>2. reply'.ok /\ (n \in Blockchair => reply'.id)
    BY <1>1, <1>2, <2>1 DEF ReportsSuccess, Returns
  <2>3. n \notin Blockchair => reply'.id
    BY <1>1, <1>2, <2>1 DEF Doubtful
  <2> QED
    BY <1>1, <2>2, <2>3 DEF Replies, Ok, Refusal, NoReply
<1>5. accepted' => unheard' \/ ReportsSuccess'
  <2>1. ~ReportsSuccess
    BY <1>2 DEF ReportsSuccess
  <2>2. CASE Takes(n)
    <3>1. Unclear(n, reply') \/ Returns(n, reply') # "error"
      BY DEF Unclear, Returns
    <3> QED
      BY <1>1, <1>2, <2>2, <3>1 DEF ReportsSuccess
  <2>3. CASE ~Takes(n)
    BY <1>1, <2>1, <2>3 DEF ReportInv
  <2> QED
    BY <2>2, <2>3
<1> QED
  BY <1>3, <1>4, <1>5 DEF ReportInv

\* Every step keeps the reports true.
LEMMA ReportStep ==
  ASSUME ReportInv, [Next]_vars
  PROVE  ReportInv'
<1>1. CASE \E u \in Nodes : SetEnv(u)
  BY <1>1 DEF SetEnv, ReportInv, ReportsSuccess, Doubtful, Known, network
<1>2. CASE Start \/ Manual
  BY <1>2 DEF Start, Manual, ReportInv, ReportsSuccess, Doubtful, Known, network
<1>3. CASE Answer
  BY <1>3, AnswerIsTrue
<1>4. CASE LoseRequest
  <2>1. Returns(Head(todo'), reply') = "error"
    BY <1>4 DEF LoseRequest, Returns, NoReply, Refusal
  <2> QED
    BY <1>4, <2>1 DEF LoseRequest, ReportInv, ReportsSuccess, Known, network
<1>5. CASE Succeed
  <2>1. /\ call = "answered" /\ call' = "success"
        /\ txid' = Returns(Head(todo), reply) /\ txid' # "error"
        /\ UNCHANGED <<todo, reply, accepted, unheard, pool, mined>>
    BY <1>5 DEF Succeed, network
  <2>2. ReportsSuccess /\ ReportsSuccess' /\ (Known' <=> Known)
    BY <2>1 DEF ReportsSuccess, Known
  <2>3. Doubtful => Doubtful'
    BY <2>1 DEF Doubtful, Bare, Returns
  <2> QED
    BY <2>1, <2>2, <2>3 DEF ReportInv
<1>6. CASE TryNext
  BY <1>6 DEF TryNext, MoveOn, ReportInv, ReportsSuccess, Doubtful, Known, network
<1>7. CASE Network
  <2>1. UNCHANGED client
    BY <1>7 DEF Network, DueNow, OtherSpend, Gossip, MineSpend, client
  <2>2. (ReportsSuccess' <=> ReportsSuccess) /\ (Doubtful' <=> Doubtful)
    BY <2>1 DEF ReportsSuccess, Doubtful, Bare, client
  <2>3. pool' \in [Nodes -> Spends]
    BY <1>7 DEF Network, DueNow, OtherSpend, Gossip, MineSpend, ReportInv,
                Spends
  <2> QED
    BY <1>7, <2>1, <2>2, <2>3, KnownIsStable DEF ReportInv, client
<1>8. CASE UNCHANGED vars
  BY <1>8 DEF vars, client, network, ReportInv, ReportsSuccess, Doubtful, Bare, Known
<1> QED
  BY <1>1, <1>2, <1>3, <1>4, <1>5, <1>6, <1>7, <1>8 DEF Next

\* At every moment the report, made or about to be made, is true.
THEOREM ReportsAreTrue == Spec => []ReportInv
<1>1. Init => ReportInv
  BY DEF Init, ReportInv, ReportsSuccess, Spends
<1> QED
  BY <1>1, ReportStep, PTL DEF Spec

\* Success is reported only if the network has the transaction, or the reply
\* had no id and came from an endpoint without the Blockchair interface.
THEOREM SuccessTheorem == Spec => []SuccessIsTrue
<1>1. ReportInv => SuccessIsTrue
  BY DEF ReportInv, ReportsSuccess, Doubtful, SuccessIsTrue
<1> QED
  BY <1>1, ReportsAreTrue, PTL

\* Failure is reported only if nobody took the transaction in this call, but
\* for an endpoint whose reply was lost or unclear.
THEOREM FailureTheorem == Spec => []FailureIsTrue
<1>1. ReportInv => FailureIsTrue
  BY DEF ReportInv, ReportsSuccess, FailureIsTrue
<1> QED
  BY <1>1, ReportsAreTrue, PTL

-----------------------------------------------------------------------------
(* The endpoints of a call.                                                *)

\* What stands left of place k in a sequence and what stands right of it keep
\* their order and lose nothing else.
LEMMA RemoveAtFacts ==
  ASSUME NEW S, NEW s \in Seq(S), NEW k \in 1..Len(s)
  PROVE  LET r == RemoveAt(s, k)
         IN  /\ r \in Seq(S) /\ Len(r) = Len(s) - 1
             /\ \A i \in 1..Len(r) : r[i] = s[IF i < k THEN i ELSE i + 1]
<1> DEFINE front == SubSeq(s, 1, k - 1)
           back  == SubSeq(s, k + 1, Len(s))
<1>1. /\ front \in Seq(S) /\ Len(front) = k - 1
      /\ \A i \in 1..(k - 1) : front[i] = s[i]
  OBVIOUS
<1>2. /\ back \in Seq(S) /\ Len(back) = Len(s) - k
      /\ \A i \in 1..(Len(s) - k) : back[i] = s[k + i]
  OBVIOUS
<1>3. RemoveAt(s, k) = front \o back
  BY DEF RemoveAt
<1> HIDE DEF front, back
<1> DEFINE n == Len(s)
<1>4. n \in Nat /\ k \in 1..n
  OBVIOUS
<1> HIDE DEF n
<1>5. front \o back \in Seq(S) /\ Len(front \o back) = n - 1
  <2>1. front \o back \in Seq(S) /\ Len(front \o back) = Len(front) + Len(back)
    BY <1>1, <1>2, ConcatProperties
  <2>2. Len(front) = k - 1 /\ Len(back) = n - k
    BY <1>1, <1>2 DEF n
  <2> QED
    BY <1>4, <2>1, <2>2
<1>6. ASSUME NEW i \in 1..(n - 1)
      PROVE  (front \o back)[i] = s[IF i < k THEN i ELSE i + 1]
  <2>1. CASE i < k
    BY <1>1, <1>2, <1>4, <2>1 DEF n
  <2>2. CASE i >= k
    <3>1. i - (k - 1) \in 1..(n - k)
      BY <1>4, <2>2
    <3>2. (front \o back)[i] = back[i - (k - 1)]
      BY <1>1, <1>2, <1>4, <2>2 DEF n
    <3>3. k + (i - (k - 1)) = i + 1
      BY <1>4
    <3> QED
      BY <1>2, <1>4, <2>2, <3>1, <3>2, <3>3 DEF n
  <2>3. i < k \/ i >= k
    BY <1>4
  <2> QED
    BY <2>1, <2>2, <2>3, Zenon
<1> QED
  BY <1>3, <1>5, <1>6 DEF n

\* An endpoint that is taken out of the list is gone, and no other one is.
LEMMA RemoveFirstFacts ==
  ASSUME NEW S, NEW s \in Seq(S), IsInjective(s), NEW e
  PROVE  LET r == RemoveFirst(s, e)
         IN  /\ r \in Seq(S) /\ IsInjective(r)
             /\ e \notin ToSet(r) /\ ToSet(s) \subseteq ToSet(r) \cup {e}
<1>1. CASE ~\E i \in 1..Len(s) : s[i] = e
  BY <1>1 DEF RemoveFirst, ToSet
<1>2. CASE \E i \in 1..Len(s) : s[i] = e
  <2>1. PICK k \in 1..Len(s) : s[k] = e
    BY <1>2
  <2>2. \A i \in 1..Len(s) : s[i] = e => i = k
    BY <2>1 DEF IsInjective
  <2>3. {i \in 1..Len(s) : s[i] = e} = {k}
    BY <2>1, <2>2
  <2>4. Min({k}) = k
    BY DEF Min
  <2>5. SelectInSeq(s, LAMBDA v : v = e) = k
    BY <2>3, <2>4 DEF SelectInSeq
  <2>6. RemoveFirst(s, e) = RemoveAt(s, k)
    BY <1>2, <2>5 DEF RemoveFirst
  <2> DEFINE r == RemoveAt(s, k)
  <2>7. /\ r \in Seq(S) /\ Len(r) = Len(s) - 1
        /\ \A i \in 1..Len(r) : r[i] = s[IF i < k THEN i ELSE i + 1]
    BY RemoveAtFacts
  <2> HIDE DEF r
  <2>8. IsInjective(r)
    <3> SUFFICES ASSUME NEW i \in 1..Len(r), NEW j \in 1..Len(r), r[i] = r[j]
                 PROVE  i = j
      BY <2>7 DEF IsInjective
    <3> DEFINE old(m) == IF m < k THEN m ELSE m + 1
    <3>1. Len(s) \in Nat /\ old(i) \in 1..Len(s) /\ old(j) \in 1..Len(s)
      BY <2>7
    <3>2. s[old(i)] = s[old(j)]
      BY <2>7
    <3>3. old(i) = old(j)
      BY <3>1, <3>2 DEF IsInjective
    <3> QED
      BY <3>3
  <2>9. e \notin ToSet(r)
    BY <2>2, <2>7 DEF ToSet
  <2>10. ASSUME NEW j \in 1..Len(s), s[j] # e PROVE s[j] \in ToSet(r)
    <3>1. j # k
      BY <2>1, <2>10
    <3>2. CASE j < k
      BY <2>7, <3>2 DEF ToSet
    <3>3. CASE j > k
      <4>1. j - 1 \in 1..Len(r) /\ r[j - 1] = s[j]
        <5>1. Len(s) \in Nat /\ j - 1 \in 1..Len(r) /\ ~(j - 1 < k)
          BY <2>7, <3>3
        <5> QED
          BY <2>7, <5>1
      <4> QED
        BY <2>7, <4>1 DEF ToSet
    <3> QED
      BY <3>1, <3>2, <3>3
  <2>11. ToSet(s) \subseteq ToSet(r) \cup {e}
    BY <2>10 DEF ToSet
  <2> QED
    BY <2>6, <2>7, <2>8, <2>9, <2>11 DEF r
<1> QED
  BY <1>1, <1>2

\* The list of a call: every endpoint once, all configured ones among them,
\* and the user's first where the variable of the network is read.
LEMMA UrlsFacts ==
  ASSUME env \in Nodes \cup {NoUrl}, net \in Nets
  PROVE  /\ Urls \in Seq(Nodes) /\ Urls # <<>> /\ IsInjective(Urls)
         /\ ToSet(Configured[net]) \subseteq ToSet(Urls)
         /\ env # NoUrl => IF net = "doge" THEN Urls = Configured["doge"]
                                           ELSE Urls[1] = env
<1> DEFINE listed == Configured[net]
<1>1. listed \in Seq(Nodes) /\ listed # <<>> /\ IsInjective(listed)
  BY NetAssumption
<1>4. net = "doge" <=> net \notin Overridable
  BY NetAssumption DEF Hinted, Overridable
<1>2. CASE ~(env # NoUrl /\ net \in Overridable)
  BY <1>1, <1>2, <1>4 DEF Urls
<1> HIDE DEF listed
<1>3. CASE env # NoUrl /\ net \in Overridable
  <2> DEFINE r == RemoveFirst(listed, env)
             u == <<env>> \o r
  <2>1. /\ r \in Seq(Nodes) /\ IsInjective(r) /\ env \notin ToSet(r)
        /\ ToSet(listed) \subseteq ToSet(r) \cup {env}
    BY <1>1, RemoveFirstFacts
  <2>2. Urls = u
    BY <1>3 DEF Urls, Others, listed
  <2> HIDE DEF r
  <2>3. /\ u \in Seq(Nodes) /\ Len(u) = Len(r) + 1 /\ u[1] = env
        /\ \A i \in 2..Len(u) : u[i] = r[i - 1]
    <3>1. <<env>> \in Seq(Nodes) /\ Len(<<env>>) = 1 /\ <<env>>[1] = env
      BY <1>3
    <3>2. /\ u \in Seq(Nodes) /\ Len(u) = Len(<<env>>) + Len(r)
          /\ \A i \in 1..(Len(<<env>>) + Len(r)) :
               u[i] = IF i <= Len(<<env>>) THEN <<env>>[i] ELSE r[i - Len(<<env>>)]
      BY <2>1, <3>1, ConcatProperties
    <3>3. Len(r) \in Nat
      BY <2>1
    <3> HIDE DEF u
    <3> QED
      BY <3>1, <3>2, <3>3
  <2> HIDE DEF u
  <2>4. ASSUME NEW i \in 2..Len(u) PROVE u[i] # env
    <3>1. i - 1 \in 1..Len(r) /\ u[i] = r[i - 1]
      BY <2>1, <2>3
    <3>2. r[i - 1] \in ToSet(r)
      BY <3>1 DEF ToSet
    <3> QED
      BY <2>1, <3>1, <3>2, Zenon
  <2>5. IsInjective(u)
    <3> SUFFICES ASSUME NEW i \in 1..Len(u), NEW j \in 1..Len(u), u[i] = u[j]
                 PROVE  i = j
      BY <2>3 DEF IsInjective
    <3>1. CASE i = 1 \/ j = 1
      BY <2>3, <2>4, <3>1
    <3>2. CASE i # 1 /\ j # 1
      <4>1. i \in 2..Len(u) /\ j \in 2..Len(u)
        BY <2>3, <3>2
      <4>2. r[i - 1] = r[j - 1]
        BY <2>3, <4>1
      <4>3. i - 1 \in 1..Len(r) /\ j - 1 \in 1..Len(r)
        BY <2>1, <2>3, <4>1
      <4>4. i - 1 = j - 1
        BY <2>1, <4>2, <4>3 DEF IsInjective
      <4> QED
        BY <4>4
    <3> QED
      BY <3>1, <3>2
  <2>6. env \in ToSet(u)
    BY <2>3 DEF ToSet
  <2>7. ASSUME NEW i \in 1..Len(r) PROVE r[i] \in ToSet(u)
    <3>1. i + 1 \in 1..Len(u) /\ u[i + 1] = r[i]
      BY <2>1, <2>3
    <3> QED
      BY <2>3, <3>1 DEF ToSet
  <2>8. ToSet(r) \subseteq ToSet(u)
    BY <2>1, <2>7 DEF ToSet
  <2> QED
    BY <1>3, <1>4, <2>1, <2>2, <2>3, <2>5, <2>6, <2>8 DEF listed
<1> QED
  BY <1>2, <1>3

Calls == {"idle", "asking", "answered", "success", "failed", "manual"}

\* A call goes once through a list that no step changes, the configured
\* endpoints among it, and it is told of a failure only at the end; what is
\* asked already and what is still to ask are always the two parts of it.
VisitInv ==
  /\ call \in Calls /\ env \in Nodes \cup {NoUrl} /\ net \in Nets
  /\ todo \in Seq(Nodes) /\ asked \in Seq(Nodes)
  /\ call \in {"asking", "answered"} => todo # <<>>
  /\ call = "answered" => asked # <<>>
  /\ IsInjective(Visit)
  /\ call \in {"asking", "answered", "failed"} =>
       ToSet(Configured[net]) \subseteq ToSet(Visit)
  /\ call \in {"asking", "answered"} /\ env # NoUrl =>
       IF net = "doge" THEN Visit = Configured["doge"] ELSE Visit[1] = env

\* The rest of what TypeOK says.
ValuesInv ==
  /\ reply \in [ok : BOOLEAN, id : BOOLEAN]
  /\ txid \in {"none", "id", "noid"}
  /\ accepted \in BOOLEAN /\ unheard \in BOOLEAN
  /\ pool \in [Nodes -> Spends] /\ mined \in BOOLEAN
  /\ due \in BOOLEAN /\ strict \in SUBSET Nodes /\ httpx \in BOOLEAN

\* Moving the first endpoint from one part to the other changes nothing.
LEMMA AskOne ==
  ASSUME NEW S, NEW a \in Seq(S), NEW t \in Seq(S), t # <<>>
  PROVE  /\ Append(a, Head(t)) \in Seq(S) /\ Append(a, Head(t)) # <<>>
         /\ Append(a, Head(t)) \o Tail(t) = a \o t
<1>1. Head(t) \in S /\ Tail(t) \in Seq(S) /\ Append(a, Head(t)) \in Seq(S)
  OBVIOUS
<1>2. Append(a, Head(t)) # <<>>
  <2>1. Len(Append(a, Head(t))) = Len(a) + 1 /\ Len(a) \in Nat /\ Len(<<>>) = 0
    BY <1>1
  <2> QED
    BY <2>1
<1>3. Len(Append(a, Head(t)) \o Tail(t)) = Len(a \o t)
  OBVIOUS
<1>4. \A i \in 1..Len(a \o t) : (Append(a, Head(t)) \o Tail(t))[i] = (a \o t)[i]
  OBVIOUS
<1> QED
  BY <1>1, <1>2, <1>3, <1>4

\* A call that asks an endpoint stays within its list.
LEMMA AskStep ==
  ASSUME VisitInv, Answer \/ LoseRequest
  PROVE  VisitInv'
<1>1. /\ call = "asking" /\ call' = "answered" /\ todo' = todo /\ env' = env
      /\ asked' = Append(asked, Head(todo)) /\ net' = net
  BY DEF Answer, LoseRequest, network
<1>2. todo \in Seq(Nodes) /\ todo # <<>> /\ asked \in Seq(Nodes)
  BY <1>1 DEF VisitInv
<1>3. asked' \in Seq(Nodes) /\ asked' # <<>> /\ Visit' = Visit
  BY <1>1, <1>2, AskOne DEF Visit, Rest
<1> QED
  BY <1>1, <1>2, <1>3 DEF VisitInv, Calls

\* Every step keeps to the list, and a new call makes a new one.
LEMMA VisitStep ==
  ASSUME VisitInv, [Next]_vars
  PROVE  VisitInv'
<1>1. CASE \E u \in Nodes : SetEnv(u)
  <2>1. /\ call \in {"idle", "failed"} /\ env' \in Nodes
        /\ UNCHANGED <<call, todo, asked, net>>
    BY <1>1 DEF SetEnv, network
  <2>2. Visit' = Visit
    BY <2>1 DEF Visit, Rest
  <2> QED
    BY <2>1, <2>2 DEF VisitInv
<1>2. CASE Start
  <2>1. call' = "asking" /\ todo' = Urls /\ asked' = <<>> /\ env' = env
        /\ net' = net
    BY <1>2 DEF Start, network
  <2>2. /\ Urls \in Seq(Nodes) /\ Urls # <<>> /\ IsInjective(Urls)
        /\ ToSet(Configured[net]) \subseteq ToSet(Urls)
        /\ env # NoUrl => IF net = "doge" THEN Urls = Configured["doge"]
                                          ELSE Urls[1] = env
    BY UrlsFacts DEF VisitInv
  <2>3. Visit' = Urls
    BY <2>1, <2>2 DEF Visit, Rest
  <2> QED
    BY <2>1, <2>2, <2>3 DEF VisitInv, Calls
<1>3. CASE Manual
  <2>1. call = "idle" /\ call' = "manual" /\ UNCHANGED <<env, todo, asked, net>>
    BY <1>3 DEF Manual, network
  <2>2. Visit' = Visit
    BY <2>1 DEF Visit, Rest
  <2> QED
    BY <2>1, <2>2 DEF VisitInv, Calls
<1>4. CASE Answer \/ LoseRequest
  BY <1>4, AskStep
<1>5. CASE Succeed
  <2>1. call = "answered" /\ call' = "success" /\ UNCHANGED <<env, todo, asked, net>>
    BY <1>5 DEF Succeed, network
  <2>2. Visit' = asked /\ asked \in Seq(Nodes) /\ Tail(todo) \in Seq(Nodes)
    BY <2>1 DEF Visit, Rest, VisitInv
  <2>3. IsInjective(asked)
    BY <2>1, <2>2 DEF VisitInv, Visit, Rest, IsInjective
  <2> QED
    BY <2>1, <2>2, <2>3 DEF VisitInv, Calls
<1>6. CASE TryNext
  <2>1. /\ call = "answered" /\ todo' = Tail(todo) /\ UNCHANGED <<env, asked, net>>
        /\ call' = IF Tail(todo) = <<>> THEN "failed" ELSE "asking"
    BY <1>6 DEF TryNext, MoveOn, network
  <2>2. Tail(todo) \in Seq(Nodes)
    BY <2>1 DEF VisitInv
  <2>3. Visit' = Visit
    BY <2>1 DEF Visit, Rest
  <2> QED
    BY <2>1, <2>2, <2>3 DEF VisitInv, Calls
<1>7. CASE Network \/ UNCHANGED vars
  <2>1. UNCHANGED <<client, net>>
    BY <1>7 DEF Network, DueNow, OtherSpend, Gossip, MineSpend, vars, network
  <2>2. Visit' = Visit
    BY <2>1 DEF Visit, Rest, client
  <2> QED
    BY <2>1, <2>2 DEF VisitInv, client
<1> QED
  BY <1>1, <1>2, <1>3, <1>4, <1>5, <1>6, <1>7 DEF Next

\* The other values keep their types.
LEMMA ValuesStep ==
  ASSUME ValuesInv, [Next]_vars
  PROVE  ValuesInv'
<1>1. CASE (\E u \in Nodes : SetEnv(u)) \/ Start \/ Manual
  BY <1>1 DEF SetEnv, Start, Manual, ValuesInv, network
<1>2. CASE Answer
  <2>1. PICK n \in Nodes :
          /\ reply' \in Replies(n)
          /\ pool' = IF Takes(n) THEN [pool EXCEPT ![n] = "ours"] ELSE pool
          /\ accepted' = (accepted \/ Takes(n))
          /\ unheard' = (unheard \/ (Takes(n) /\ Unclear(n, reply')))
    BY <1>2 DEF Answer
  <2>2. Replies(n) \subseteq [ok : BOOLEAN, id : BOOLEAN]
    <3>1. /\ NoReply \in [ok : BOOLEAN, id : BOOLEAN]
          /\ Refusal \in [ok : BOOLEAN, id : BOOLEAN]
          /\ Ok(TRUE) \in [ok : BOOLEAN, id : BOOLEAN]
          /\ Ok(FALSE) \in [ok : BOOLEAN, id : BOOLEAN]
      BY DEF NoReply, Refusal, Ok
    <3> QED
      BY <3>1, Zenon DEF Replies
  <2>3. accepted' \in BOOLEAN /\ unheard' \in BOOLEAN
    BY <2>1
  <2>4. pool' \in [Nodes -> Spends]
    BY <2>1 DEF ValuesInv, Spends
  <2> QED
    BY <1>2, <2>1, <2>2, <2>3, <2>4 DEF Answer, ValuesInv
<1>3. CASE LoseRequest
  BY <1>3 DEF LoseRequest, ValuesInv, network, NoReply, Refusal
<1>4. CASE Succeed
  BY <1>4 DEF Succeed, Returns, ValuesInv, network
<1>5. CASE TryNext
  BY <1>5 DEF TryNext, MoveOn, ValuesInv, network
<1>6. CASE Network
  <2>1. UNCHANGED <<client, strict>> /\ mined' \in BOOLEAN /\ due' \in BOOLEAN
    BY <1>6 DEF Network, DueNow, OtherSpend, Gossip, MineSpend, ValuesInv
  <2>2. pool' \in [Nodes -> Spends]
    BY <1>6 DEF Network, DueNow, OtherSpend, Gossip, MineSpend, ValuesInv, Spends
  <2> QED
    BY <2>1, <2>2 DEF ValuesInv, client
<1>7. CASE UNCHANGED vars
  BY <1>7 DEF vars, client, network, ValuesInv
<1> QED
  BY <1>1, <1>2, <1>3, <1>4, <1>5, <1>6, <1>7 DEF Next

\* Every call goes once through one list of endpoints.
THEOREM VisitTheorem == Spec => []VisitInv
<1>1. Init => VisitInv
  BY DEF Init, VisitInv, Visit, Rest, IsInjective, Calls
<1> QED
  BY <1>1, VisitStep, PTL DEF Spec

\* Type correctness.
THEOREM TypeTheorem == Spec => []TypeOK
<1>1. ASSUME Init PROVE ValuesInv
  <2>1. NoReply \in [ok : BOOLEAN, id : BOOLEAN]
    BY DEF NoReply, Refusal
  <2>2. pool \in [Nodes -> Spends]
    BY <1>1 DEF Init, Spends
  <2>3. strict \in SUBSET Nodes
    BY <1>1, NetAssumption DEF Init, Nodes
  <2>4. accepted \in BOOLEAN /\ unheard \in BOOLEAN /\ mined \in BOOLEAN
    BY <1>1, Zenon DEF Init
  <2> QED
    BY <1>1, <2>1, <2>2, <2>3, <2>4, Zenon DEF Init, ValuesInv
<1>2. ASSUME VisitInv, ValuesInv PROVE TypeOK
  <2>1. ToSet(todo) \subseteq Nodes /\ ToSet(asked) \subseteq Nodes
    BY <1>2 DEF VisitInv, ToSet
  <2> QED
    BY <1>2, <2>1, Zenon DEF VisitInv, ValuesInv, TypeOK, Calls
<1> QED
  BY <1>1, <1>2, ValuesStep, VisitTheorem, PTL DEF Spec

\* A call that fails has asked every configured endpoint, and no endpoint is
\* asked twice in one call.
THEOREM ExhaustiveTheorem == Spec => []FailureIsExhaustive
<1>1. ASSUME VisitInv PROVE FailureIsExhaustive
  <2>1. asked \in Seq(Nodes) /\ Rest \in Seq(Nodes)
    BY <1>1 DEF VisitInv, Rest
  <2>4. /\ Len(Visit) = Len(asked) + Len(Rest)
        /\ \A i \in 1..Len(asked) : i \in 1..Len(Visit) /\ Visit[i] = asked[i]
        /\ DOMAIN asked = 1..Len(asked) /\ DOMAIN Visit = 1..Len(Visit)
    BY <2>1, ConcatProperties DEF Visit
  <2>5. IsInjective(Visit)
    BY <1>1 DEF VisitInv
  <2>2. IsInjective(asked)
    BY <2>4, <2>5 DEF IsInjective
  <2>3. call = "failed" => Visit = asked
    BY <2>1 DEF Visit, Rest
  <2> QED
    BY <1>1, <2>2, <2>3 DEF VisitInv, FailureIsExhaustive
<1> QED
  BY <1>1, VisitTheorem, PTL

\* A call asks the endpoint the user put into the variable of the network, and
\* asks it first; for Dogecoin it asks the configured ones and nobody else.
THEOREM HintTheorem == Spec => []HintIsFollowed
<1>1. ASSUME VisitInv PROVE HintIsFollowed
  <2> SUFFICES ASSUME call \in {"asking", "answered"}, env # NoUrl
               PROVE  IF net = "doge" THEN Visit = Configured["doge"]
                                      ELSE Head(Visit) = env
    BY DEF HintIsFollowed
  <2>1. IF net = "doge" THEN Visit = Configured["doge"] ELSE Visit[1] = env
    BY <1>1 DEF VisitInv
  <2>2. Visit \in Seq(Nodes) /\ Visit # <<>>
    <3>1. /\ asked \in Seq(Nodes) /\ Rest \in Seq(Nodes)
          /\ asked # <<>> \/ Rest # <<>>
      BY <1>1 DEF VisitInv, Rest
    <3>2. /\ Visit \in Seq(Nodes) /\ Len(Visit) = Len(asked) + Len(Rest)
          /\ Len(asked) \in Nat /\ Len(Rest) \in Nat
      BY <3>1, ConcatProperties DEF Visit
    <3>3. Len(asked) > 0 \/ Len(Rest) > 0
      BY <3>1
    <3> QED
      BY <3>2, <3>3
  <2> QED
    BY <2>1, <2>2
<1> QED
  BY <1>1, VisitTheorem, PTL

=============================================================================
