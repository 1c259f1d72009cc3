----------------------------- MODULE Broadcast ------------------------------
(***************************************************************************)
(* Broadcasting one signed transaction: the endpoints of a network are     *)
(* asked one after the other until one takes it, and the user is told of   *)
(* success or of failure.  Each endpoint is a node with a mempool of its   *)
(* own; requests and replies get lost, the counterparty spends the same    *)
(* output elsewhere, and the user tries again when it likes, with or       *)
(* without an endpoint of its own in the environment.                      *)
(***************************************************************************)
EXTENDS SequencesExt

CONSTANTS
  Nets,         \* the networks looked at
  Configured,   \* the endpoints of each in NETWORKS, in order
  Own,          \* an endpoint the user may name in the environment
  Blockchair,   \* the endpoints with the Blockchair interface
  NoUrl

\* Mutant: the variable of one network is forgotten.
OverridableShort == {"dgb", "grs", "bel", "ltc", "xec", "rvn"}

\* The networks whose <NET>_BROADCAST_URL is read, and those the failure
\* message tells the user to set it for.
Overridable == {"dgb", "grs", "bel", "ltc", "bch", "xec", "rvn"}
Hinted      == {"dgb", "grs", "bel", "ltc", "bch", "xec", "rvn", "doge"}

Nodes == UNION {ToSet(Configured[n]) : n \in Nets} \cup {Own}

ASSUME NetAssumption ==
  /\ Nets \subseteq Hinted
  /\ \A n \in Nets : /\ Configured[n] \in Seq(Nodes) \ {<<>>}
                     /\ IsInjective(Configured[n])
  /\ NoUrl \notin Nodes

Spends == {"none", "ours", "other"}

\* A reply: status 200 or not, with an id or without.  A reply that is lost is
\* an exception for the client, as a refusal is.
Refusal == [ok |-> FALSE, id |-> FALSE]
Ok(id)  == [ok |-> TRUE,  id |-> id]
NoReply == Refusal

VARIABLES
  net,       \* the network of the transaction
  call,      \* "idle", "asking", "answered", "success", "failed" or "manual"
  env,       \* the endpoint named in the environment
  todo,      \* the endpoints this call has still to ask, the current one first
  asked,     \* those it has asked
  reply,     \* the last reply, or its absence
  txid,      \* what a successful call returned
  accepted,  \* an endpoint has taken the transaction in this call ...
  unheard,   \* ... and its reply was lost or did not say so
  pool,      \* the spend of the output in each node's mempool or chain
  mined,
  due,       \* the height of nLockTime is reached
  strict,    \* the nodes whose policy refuses this kind of transaction
  httpx      \* the HTTP library is installed

client  == <<call, env, todo, asked, reply, txid, accepted, unheard, httpx>>
network == <<net, pool, mined, due, strict>>
vars    == <<client, network>>

TypeOK ==
  /\ net \in Nets
  /\ call \in {"idle", "asking", "answered", "success", "failed", "manual"}
  /\ env \in Nodes \cup {NoUrl}
  /\ ToSet(todo) \subseteq Nodes /\ ToSet(asked) \subseteq Nodes
  /\ reply \in [ok : BOOLEAN, id : BOOLEAN]
  /\ txid \in {"none", "id", "noid"}
  /\ accepted \in BOOLEAN /\ unheard \in BOOLEAN
  /\ pool \in [Nodes -> Spends] /\ mined \in BOOLEAN
  /\ due \in BOOLEAN /\ strict \in SUBSET Nodes /\ httpx \in BOOLEAN
  /\ call \in {"asking", "answered"} => todo # <<>>

Init ==
  /\ net \in Nets
  /\ call = "idle" /\ env = NoUrl /\ todo = <<>> /\ asked = <<>>
  /\ reply = NoReply /\ txid = "none" /\ accepted = FALSE /\ unheard = FALSE
  /\ pool = [n \in Nodes |-> "none"] /\ mined = FALSE /\ due \in BOOLEAN
  /\ strict \in SUBSET ToSet(Configured[net]) /\ httpx \in BOOLEAN

-----------------------------------------------------------------------------
(* The user and the call.                                                  *)

\* The environment is read by every call anew.
SetEnv(u) ==
  /\ call \in {"idle", "failed"} /\ env # u
  /\ env' = u
  /\ UNCHANGED <<call, todo, asked, reply, txid, accepted, unheard, httpx,
                 network>>

\* Mutant: the endpoint of the environment is asked twice if it is configured.
UrlsTwice == IF env # NoUrl /\ net \in Overridable
             THEN <<env>> \o Configured[net] ELSE Configured[net]

\* The code drops every occurrence of the URL; NETWORKS names it once at most.
Others == RemoveFirst(Configured[net], env)
Urls   == IF env # NoUrl /\ net \in Overridable THEN <<env>> \o Others
                                               ELSE Configured[net]

Start ==
  /\ httpx /\ call \in {"idle", "failed"}
  /\ call' = "asking" /\ todo' = Urls /\ asked' = <<>>
  /\ accepted' = FALSE /\ unheard' = FALSE
  /\ UNCHANGED <<env, reply, txid, httpx, network>>

Manual ==
  /\ ~httpx /\ call = "idle"
  /\ call' = "manual"
  /\ UNCHANGED <<env, todo, asked, reply, txid, accepted, unheard, httpx,
                 network>>

\* Mutants: a reply of Blockchair without an id is a success as elsewhere;
\* a reply without an id is an error as at Blockchair, or its body the id.
ReturnsAnything(u, r) ==
  IF ~r.ok THEN "error" ELSE IF r.id THEN "id" ELSE "noid"

ReturnsIdOnly(u, r) == IF r.ok /\ r.id THEN "id" ELSE "error"

ReturnsBody(u, r) ==
  IF ~r.ok THEN "error"
  ELSE IF r.id THEN "id"
  ELSE IF u \in Blockchair THEN "error" ELSE "body"

\* What _broadcast_one returns, or "error" for an exception.  Elsewhere than at
\* Blockchair a reply without an id is a success as well, and the id empty or
\* whatever text the reply has.
Returns(u, r) ==
  IF ~r.ok THEN "error"
  ELSE IF r.id THEN "id"
  ELSE IF u \in Blockchair THEN "error" ELSE "noid"

Succeed ==
  /\ call = "answered"
  /\ Returns(Head(todo), reply) # "error"
  /\ call' = "success" /\ txid' = Returns(Head(todo), reply)
  /\ UNCHANGED <<env, todo, asked, reply, accepted, unheard, httpx, network>>

\* An error moves the call on to the endpoints in rest, if any.
MoveOn(rest) ==
  /\ call = "answered"
  /\ Returns(Head(todo), reply) = "error"
  /\ todo' = rest
  /\ call' = IF rest = <<>> THEN "failed" ELSE "asking"
  /\ UNCHANGED <<env, asked, reply, txid, accepted, unheard, httpx, network>>

\* Mutant: the first error ends the call.
TryNextNone == MoveOn(<<>>)

TryNext == MoveOn(Tail(todo))

-----------------------------------------------------------------------------
(* The endpoints and the network (external, as _broadcast_one reads them). *)

Takes(n) == pool[n] = "none" /\ due /\ n \notin strict

\* A node refuses what it cannot take, and may refuse what it already has; the
\* id comes only from one that has the transaction.  A reply with status 200
\* and no id comes from any endpoint, whatever became of the transaction: an
\* error in JSON, an empty body, a web page.
Replies(n) ==
  {NoReply, Ok(FALSE)}
    \cup (IF Takes(n) \/ pool[n] = "ours" THEN {Ok(TRUE)} ELSE {})
    \cup (IF Takes(n) THEN {} ELSE {Refusal})

\* A reply that does not tell the client that its transaction was taken.
Unclear(n, r) == ~r.ok \/ (n \in Blockchair /\ ~r.id)

\* The request arrives; the reply may still be lost.
Answer ==
  /\ call = "asking" /\ call' = "answered"
  /\ \E n \in Nodes :
       /\ n = Head(todo)
       /\ asked' = Append(asked, n)
       /\ reply' \in Replies(n)
       /\ pool' = IF Takes(n) THEN [pool EXCEPT ![n] = "ours"] ELSE pool
       /\ accepted' = (accepted \/ Takes(n))
       /\ unheard' = (unheard \/ (Takes(n) /\ Unclear(n, reply')))
  /\ UNCHANGED <<env, todo, txid, net, mined, due, strict, httpx>>

LoseRequest ==
  /\ call = "asking" /\ call' = "answered"
  /\ asked' = Append(asked, Head(todo))
  /\ reply' = NoReply
  /\ UNCHANGED <<env, todo, txid, accepted, unheard, httpx, network>>

\* The counterparty's spend of the same output reaches a node.
OtherSpend(n) ==
  /\ pool[n] = "none" /\ ~mined
  /\ pool' = [pool EXCEPT ![n] = "other"]
  /\ UNCHANGED <<net, mined, due, strict, client>>

Gossip(n, p) ==
  /\ pool[n] # "none" /\ pool[p] = "none"
  /\ pool[n] = "ours" => p \notin strict
  /\ pool' = [pool EXCEPT ![p] = pool[n]]
  /\ UNCHANGED <<net, mined, due, strict, client>>

\* A block with either spend reaches every node.
MineSpend(n) ==
  /\ pool[n] # "none" /\ ~mined
  /\ mined' = TRUE /\ pool' = [p \in Nodes |-> pool[n]]
  /\ UNCHANGED <<net, due, strict, client>>

DueNow ==
  /\ ~due /\ due' = TRUE
  /\ UNCHANGED <<net, pool, mined, strict, client>>

Network ==
  DueNow \/ \E n, p \in Nodes : OtherSpend(n) \/ Gossip(n, p) \/ MineSpend(n)

Next ==
  \/ (\E u \in Nodes : SetEnv(u)) \/ Start \/ Manual
  \/ Answer \/ LoseRequest \/ Succeed \/ TryNext
  \/ Network

\* The user tries again after a failure, every call runs, and a request to a
\* node that would take the transaction does not get lost for ever.
Fairness ==
  /\ WF_vars(Start) /\ WF_vars(Answer \/ LoseRequest)
  /\ WF_vars(Succeed) /\ WF_vars(TryNext) /\ WF_vars(DueNow)
  /\ SF_vars(Answer /\ Head(todo) \notin strict)

Spec == Init /\ [][Next]_vars /\ Fairness

-----------------------------------------------------------------------------
(* Properties                                                              *)

Known == \E n \in Nodes : pool[n] = "ours"
Taken == \E n \in Nodes : pool[n] # "none"

\* The call ended with a reply that has no id, of an endpoint without the
\* Blockchair interface.
Bare == txid = "noid" /\ Head(todo) \notin Blockchair

\* What the user is told went out did go out, whatever the endpoints answer: an
\* endpoint has the transaction, unless it lost against the counterparty's
\* since then.  The one success that may be false is that of Bare, which the
\* code reports as any other.
SuccessIsTrue == call = "success" => Known \/ mined \/ Bare

\* Failure means that nobody took the transaction in this call, except for an
\* endpoint whose reply was lost or did not give the id.
FailureIsTrue == call = "failed" /\ accepted => unheard

\* A call that fails has asked every configured endpoint, and none twice.
FailureIsExhaustive ==
  /\ IsInjective(asked)
  /\ call = "failed" => ToSet(Configured[net]) \subseteq ToSet(asked)

\* The endpoints of a call that it has not asked, and all of them, in order.
Rest ==
  IF call = "asking" THEN todo
  ELSE IF call = "answered" THEN Tail(todo) ELSE <<>>

Visit == asked \o Rest

\* On a network whose failure message names a variable, the next call asks the
\* endpoint the user put there, and asks it first; but for Dogecoin, whose
\* DOGE_BROADCAST_URL the message names and no call reads: it asks the
\* configured endpoints as before.
HintIsFollowed ==
  call \in {"asking", "answered"} /\ env # NoUrl =>
    IF net = "doge" THEN Visit = Configured["doge"] ELSE Head(Visit) = env

\* If some endpoint of the calls would take the transaction, trying again gets
\* it into the network, unless the counterparty's spend is there first, or a
\* reply without an id ends the trying.
DeliversEventually ==
  (httpx /\ <>[](~(ToSet(Urls) \subseteq strict)))
    => <>(Taken \/ (call = "success" /\ Bare))

=============================================================================
