--------------------------- MODULE RequestsProof ---------------------------
(***************************************************************************)
(* Proofs about Requests, for any number of requests, ids and replies.      *)
(***************************************************************************)
EXTENDS Requests, TLAPS

\* The types of the records in TypeOK.
ReqType == [pc : {"ready", "send", "wait", "remove", "done"}, id : Ids \cup {None},
            ch : Seq(Requests), result : Requests \cup {None}, replies : 0 .. MaxReplies]
ServerType == [pc : {"idle", "respond", "push"}, cur : Requests \cup {None},
               sender : Ids \cup {None}, left : 0 .. MaxReplies, to : Requests \cup {None}]

\* A request draws its id when it starts, and has nothing before.
Drawn == \A r \in Requests :
  /\ req[r].pc = "ready" <=> req[r].id = None
  /\ req[r].pc = "ready" => req[r].result = None

\* An id stands for a request that has drawn it.
Registered == \A id \in Ids : lookup[id] # None => req[lookup[id]].id = id

\* A request is in the mailbox once, and not before it has been sent.
Queued ==
  /\ \A i, j \in 1..Len(inbox) : inbox[i] = inbox[j] => i = j
  /\ \A i \in 1..Len(inbox) :
       req[inbox[i]].pc \notin {"ready", "send"} /\ inbox[i] # server.cur

\* The server replies to the id of the request that it was given, and pushes
\* to a response with that id.
Serving ==
  /\ server.pc = "idle" <=> server.cur = None
  /\ server.cur # None => /\ req[server.cur].pc \notin {"ready", "send"}
                          /\ server.sender = req[server.cur].id
                          /\ server.left <= req[server.cur].replies
  /\ server.pc = "push" => server.left > 0 /\ req[server.to].id = server.sender

\* What is in the channel of a response answers a request with its id.
Answered == \A r \in Requests :
  /\ \A i \in 1..Len(req[r].ch) : req[req[r].ch[i]].id = req[r].id
  /\ req[r].result # None => req[req[r].result].id = req[r].id

\* Whether no reply to the request has been sent.
Unanswered(r) ==
  \/ req[r].pc \in {"ready", "send"}
  \/ \E i \in 1..Len(inbox) : inbox[i] = r
  \/ server.cur = r /\ server.left = req[r].replies

\* Until then the channel is empty.
Fresh == \A r \in Requests : Unanswered(r) /\ ~Collided(r) => req[r].ch = <<>>

IInv == /\ TypeOK /\ Drawn /\ Registered /\ Queued /\ Serving /\ Answered /\ Fresh
        /\ PendingRegistered

\* TypeOK, with the names of the record types.
LEMMA TypeFacts ==
  ASSUME TypeOK
  PROVE  req \in [Requests -> ReqType] /\ inbox \in Seq(Requests)
BY Zenon DEF TypeOK, ReqType

\* A response whose pc alone is changed keeps its type.
LEMMA PcTyped ==
  ASSUME NEW f \in [Requests -> ReqType], NEW r \in Requests,
         NEW pc \in {"ready", "send", "wait", "remove", "done"}
  PROVE  [f EXCEPT ![r].pc = pc] \in [Requests -> ReqType]
<1>1. f[r] \in ReqType
  BY Zenon
<1>2. [f[r] EXCEPT !.pc = pc] \in ReqType
  BY <1>1, Zenon DEF ReqType
<1> QED BY <1>2, Zenon

\* A response whose number of replies alone is changed keeps its type.
LEMMA RepliesTyped ==
  ASSUME NEW rec \in ReqType, NEW n \in 0..MaxReplies
  PROVE  [rec EXCEPT !.replies = n] \in ReqType
BY Zenon DEF ReqType

\* A response whose channel alone is changed keeps its type.
LEMMA ChTyped ==
  ASSUME NEW rec \in ReqType, NEW q \in Seq(Requests)
  PROVE  [rec EXCEPT !.ch = q] \in ReqType
BY Zenon DEF ReqType

\* A request put at the end of a queue of requests.
LEMMA AppendTyped ==
  ASSUME NEW q \in Seq(Requests), NEW r \in Requests
  PROVE  Append(q, r) \in Seq(Requests)
OBVIOUS

\* What is left in a channel after a receive from it.
LEMMA TailFacts ==
  ASSUME NEW q \in Seq(Requests), q # <<>>
  PROVE  /\ Head(q) \in Requests /\ Tail(q) \in Seq(Requests)
         /\ Head(q) = q[1] /\ Len(Tail(q)) <= Len(q)
         /\ \A i \in 1..Len(Tail(q)) : i + 1 \in 1..Len(q) /\ Tail(q)[i] = q[i + 1]
OBVIOUS

\* The initial state.
LEMMA InitIInv == Init => IInv
<1> SUFFICES ASSUME Init PROVE IInv
  BY Zenon
<1> USE RequestsAssumption DEF Init, Response, Idle
<1>1. TypeOK
  BY DEF TypeOK
<1>2. Drawn /\ Registered /\ Queued /\ Serving /\ Answered
  BY DEF Drawn, Registered, Queued, Serving, Answered
<1>3. Fresh /\ PendingRegistered
  BY Zenon DEF Fresh, PendingRegistered
<1> QED BY <1>1, <1>2, <1>3, Zenon DEF IInv

\* Request draws an id; a request that finds it taken has collided.
LEMMA RequestStep ==
  ASSUME IInv, NEW r \in Requests, NEW id \in Ids, Request(r, id)
  PROVE  IInv'
<1> USE RequestsAssumption DEF IInv
<1>1. /\ req[r].pc = "ready" /\ req[r].id = None
      /\ req' = [req EXCEPT ![r].pc = "send", ![r].id = id]
      /\ lookup' = IF lookup[id] = None THEN [lookup EXCEPT ![id] = r] ELSE lookup
      /\ UNCHANGED <<alive, inbox, server>>
  BY Zenon DEF Request, Drawn
<1>2. /\ req'[r].pc = "send" /\ req'[r].id = id /\ req'[r].ch = req[r].ch
      /\ req'[r].result = req[r].result /\ req'[r].replies = req[r].replies
      /\ \A s \in Requests \ {r} : req'[s] = req[s]
  BY <1>1 DEF TypeOK
<1>3. TypeOK'
  BY <1>1 DEF TypeOK
<1>4. \A s \in Requests : Collided(s) => Collided(s)'
  BY <1>1, <1>2, Zenon DEF Collided, TypeOK
<1>5. Drawn'
  BY <1>1, <1>2 DEF Drawn, TypeOK
<1>6. Registered'
  BY <1>1, <1>2 DEF Registered, TypeOK
<1>7. Queued'
  BY <1>1, <1>2 DEF Queued, TypeOK
<1>8. Serving'
  BY <1>1, <1>2 DEF Serving, TypeOK
<1>9. req[r].ch = <<>>
  BY <1>1, Zenon DEF Fresh, Unanswered, Collided
<1>10. Answered'
  <2>1. \A s \in Requests \ {r} : \A i \in 1..Len(req[s].ch) : req[s].ch[i] # r
    <3> SUFFICES ASSUME NEW s \in Requests \ {r}, NEW i \in 1..Len(req[s].ch), req[s].ch[i] = r
                 PROVE  FALSE
      BY Zenon
    <3>1. req[s].id = None /\ req[s].pc = "ready"
      BY <1>1, Zenon DEF Answered, Drawn
    <3>2. ~Collided(s) /\ Unanswered(s)
      BY <3>1, Zenon DEF Collided, Unanswered
    <3>3. req[s].ch = <<>>
      BY <3>2, Zenon DEF Fresh
    <3> QED BY <3>3
  <2>2. \A s \in Requests \ {r} : req[s].result # None => req[s].result # r
    BY <1>1, Zenon DEF Answered, Drawn
  <2>3. \A s \in Requests : req[s].ch \in Seq(Requests) /\ req[s].result \in Requests \cup {None}
    BY Zenon DEF TypeOK
  <2>4. \A s \in Requests \ {r} : \A i \in 1..Len(req[s].ch) :
          req[s].ch[i] \in Requests /\ req'[req[s].ch[i]].id = req'[s].id
    BY <1>2, <2>1, <2>3 DEF Answered
  <2>5. \A s \in Requests \ {r} : req[s].result # None => req'[req[s].result].id = req'[s].id
    BY <1>2, <2>2, <2>3, Zenon DEF Answered
  <2>6. req[r].result = None /\ Len(req'[r].ch) = 0
    BY <1>1, <1>2, <1>9 DEF Drawn
  <2> QED BY <1>2, <2>4, <2>5, <2>6 DEF Answered
<1>11. Fresh'
  BY <1>1, <1>2, <1>4, <1>9, Zenon DEF Fresh, Unanswered
<1>12. PendingRegistered'
  <2> SUFFICES ASSUME NEW s \in Requests, req'[s].pc \in {"send", "wait"}, ~Collided(s)'
               PROVE  lookup'[req'[s].id] = s
    BY Zenon DEF PendingRegistered
  <2>1. CASE s = r
    <3>1. lookup[id] = None
      <4> SUFFICES ASSUME lookup[id] # None PROVE FALSE
        BY Zenon
      <4>1. lookup[id] \in Requests /\ req[lookup[id]].id = id
        BY Zenon DEF Registered, TypeOK
      <4>2. lookup[id] # r /\ req'[lookup[id]].id = id
        BY <4>1, <1>1, <1>2, Zenon
      <4> QED BY <2>1, <1>2, <4>1, <4>2, Zenon DEF Collided
    <3> QED BY <2>1, <3>1, <1>1, <1>2 DEF TypeOK
  <2>2. CASE s # r
    <3>1. req[s].id \in Ids /\ req[s].id # id
      BY <2>2, <1>2 DEF Collided, TypeOK, Drawn
    <3> QED BY <2>2, <3>1, <1>1, <1>2, <1>4, Zenon DEF PendingRegistered, TypeOK
  <2> QED BY <2>1, <2>2, Zenon
<1> QED BY <1>3, <1>5, <1>6, <1>7, <1>8, <1>10, <1>11, <1>12, Zenon

\* A step that leaves the ids alone leaves the collisions alone.
LEMMA SameCollisions ==
  ASSUME \A r \in Requests : req'[r].id = req[r].id
  PROVE  \A r \in Requests : Collided(r)' <=> Collided(r)
BY Zenon DEF Collided

\* So are the answers, if the channels and the results are left alone too.
LEMMA SameAnswers ==
  ASSUME TypeOK, Answered,
         \A r \in Requests : /\ req'[r].id = req[r].id /\ req'[r].ch = req[r].ch
                             /\ req'[r].result = req[r].result
  PROVE  Answered'
<1>1. \A r \in Requests : \A i \in 1..Len(req[r].ch) : req[r].ch[i] \in Requests
  BY DEF TypeOK
<1>2. \A r \in Requests : req[r].result \in Requests \cup {None}
  BY Zenon DEF TypeOK
<1> QED BY <1>1, <1>2 DEF Answered

\* The request is put in the mailbox of a live server.
LEMMA SendStep ==
  ASSUME IInv, NEW r \in Requests, NEW target, Send(r, target)
  PROVE  IInv'
<1> USE RequestsAssumption DEF IInv
<1>1. /\ req[r].pc = "send" /\ req' = [req EXCEPT ![r].pc = "wait"]
      /\ inbox' = inbox \/ inbox' = Append(inbox, r)
      /\ UNCHANGED <<lookup, alive, server>>
  BY Zenon DEF Send
<1>2. /\ req'[r].pc = "wait" /\ req'[r].id = req[r].id /\ req'[r].ch = req[r].ch
      /\ req'[r].result = req[r].result /\ req'[r].replies = req[r].replies
      /\ \A s \in Requests \ {r} : req'[s] = req[s]
  BY <1>1, Zenon DEF TypeOK
<1>3. TypeOK'
  <2> HIDE DEF IInv
  <2>0. TypeOK
    BY Zenon DEF IInv
  <2>1. inbox' \in Seq(Requests)
    BY <1>1, <2>0, TypeFacts, AppendTyped, Zenon
  <2>2. req' \in [Requests -> ReqType]
    BY <1>1, <2>0, TypeFacts, PcTyped, Zenon
  <2> USE DEF IInv
  <2> QED BY <1>1, <2>1, <2>2, Zenon DEF TypeOK, ReqType
<1>4. \A s \in Requests : Collided(s)' <=> Collided(s)
  BY <1>2, SameCollisions, Zenon
<1>5. Drawn'
  BY <1>1, <1>2 DEF Drawn
<1>6. Registered'
  BY <1>1, <1>2 DEF Registered, TypeOK
<1>7. inbox' = inbox \/ (/\ Len(inbox') = Len(inbox) + 1 /\ inbox'[Len(inbox) + 1] = r
                         /\ \A i \in 1..Len(inbox) : inbox'[i] = inbox[i])
  BY <1>1 DEF TypeOK
<1>8. /\ \A i \in 1..Len(inbox) : inbox[i] \in Requests /\ inbox[i] # r
      /\ Len(inbox) \in Nat /\ server.cur # r
  BY <1>1 DEF Queued, Serving, TypeOK
<1>9. Queued'
  BY <1>1, <1>2, <1>7, <1>8 DEF Queued
<1>10. Serving'
  BY <1>1, <1>2 DEF Serving, TypeOK
<1>11. Answered'
  BY <1>2, SameAnswers, Zenon
<1>12. Fresh'
  <2>1. ~Collided(r) => req[r].ch = <<>>
    BY <1>1, Zenon DEF Fresh, Unanswered
  <2>2. \A s \in Requests \ {r} : Unanswered(s)' => Unanswered(s)
    BY <1>1, <1>2, <1>7, <1>8 DEF Unanswered
  <2> QED BY <1>2, <1>4, <2>1, <2>2, Zenon DEF Fresh
<1>13. PendingRegistered'
  BY <1>1, <1>2, <1>4 DEF PendingRegistered
<1> QED BY <1>3, <1>5, <1>6, <1>9, <1>10, <1>11, <1>12, <1>13, Zenon

\* The server takes the first request, to which nobody has replied.
LEMMA ReceiveStep ==
  ASSUME IInv, NEW n \in 0..MaxReplies, Receive(n)
  PROVE  IInv'
<1> USE RequestsAssumption DEF IInv
<1> DEFINE c == Head(inbox)
<1>1. /\ server.pc = "idle" /\ inbox # <<>> /\ c \in Requests /\ c = inbox[1]
      /\ server' = [server EXCEPT !.pc = "respond", !.cur = c, !.left = n, !.sender = req[c].id]
      /\ req' = [req EXCEPT ![c].replies = n]
      /\ UNCHANGED <<lookup, alive>>
  BY DEF Receive, TypeOK
<1>2. /\ inbox' \in Seq(Requests) /\ Len(inbox') = Len(inbox) - 1
      /\ Len(inbox) \in Nat \ {0} /\ \A i \in 1..Len(inbox') : inbox'[i] = inbox[i + 1]
  BY <1>1 DEF Receive, TypeOK
<1> HIDE DEF c
<1>3. /\ \A s \in Requests : /\ req'[s].pc = req[s].pc /\ req'[s].id = req[s].id
                             /\ req'[s].ch = req[s].ch /\ req'[s].result = req[s].result
      /\ req'[c].replies = n
      /\ \A s \in Requests \ {c} : req'[s].replies = req[s].replies
      /\ server'.pc = "respond" /\ server'.cur = c /\ server'.left = n
      /\ server'.sender = req[c].id /\ server'.to = server.to
  BY <1>1 DEF TypeOK
<1>4. TypeOK'
  <2>1. req' \in [Requests -> ReqType]
    <3>1. req \in [Requests -> ReqType]
      BY Zenon DEF TypeOK, ReqType
    <3>2. [req[c] EXCEPT !.replies = n] \in ReqType
      BY <1>1, <3>1, RepliesTyped, Zenon
    <3> QED BY <1>1, <3>1, <3>2, Zenon
  <2>2. req[c].id \in Ids \cup {None}
    BY <1>1, Zenon DEF TypeOK
  <2>3. server' \in ServerType
    BY <1>1, <2>2, Zenon DEF TypeOK, ServerType
  <2> QED BY <1>1, <1>2, <1>3, <2>1, <2>3, Zenon DEF TypeOK, ReqType, ServerType
<1>5. \A s \in Requests : Collided(s)' <=> Collided(s)
  BY <1>3, SameCollisions, Zenon
<1>6. Drawn' /\ Answered'
  BY <1>3, SameAnswers, Zenon DEF Drawn
<1>7. Registered' /\ PendingRegistered'
  BY <1>1, <1>3, <1>5, SMTT(60) DEF Registered, PendingRegistered, TypeOK
<1>8. /\ \A i \in 1..Len(inbox') : i + 1 \in 1..Len(inbox) /\ inbox'[i] # c
      /\ req[c].pc \notin {"ready", "send"}
  BY <1>1, <1>2 DEF Queued
<1>9. Queued'
  <2>1. \A i \in 1..Len(inbox') : inbox'[i] \in Requests /\ inbox'[i] = inbox[i + 1]
    BY <1>2
  <2>2. \A i \in 1..Len(inbox') : req'[inbox'[i]].pc \notin {"ready", "send"}
    BY <1>3, <1>8, <2>1 DEF Queued
  <2>3. \A i, j \in 1..Len(inbox') : inbox'[i] = inbox'[j] => i = j
    <3> SUFFICES ASSUME NEW i \in 1..Len(inbox'), NEW j \in 1..Len(inbox'),
                        inbox'[i] = inbox'[j]
                 PROVE  i = j
      BY Zenon
    <3>1. i + 1 = j + 1
      BY <1>8, <2>1, Zenon DEF Queued
    <3> QED BY <3>1
  <2> QED BY <1>3, <1>8, <2>2, <2>3, Zenon DEF Queued
<1>10. Serving'
  BY <1>1, <1>3, <1>8 DEF Serving
<1>11. Fresh'
  <2>1. Unanswered(c)
    BY <1>1, <1>2 DEF Unanswered
  <2>2. \A s \in Requests \ {c} : Unanswered(s)' => Unanswered(s)
    BY <1>2, <1>3, <1>8 DEF Unanswered
  <2> QED BY <1>1, <1>3, <1>5, <2>1, <2>2 DEF Fresh
<1> QED BY <1>4, <1>6, <1>7, <1>9, <1>10, <1>11, Zenon

\* Steps that change only the server: a lookup, or the end of Receive.
LEMMA ServerOnlyStep ==
  ASSUME IInv, Respond \/ ReceiveReturns
  PROVE  IInv'
<1> USE RequestsAssumption DEF IInv
<1>1. UNCHANGED <<lookup, req, alive, inbox>> /\ server.pc = "respond" /\ server.left \in Nat
  BY DEF Respond, ReceiveReturns, TypeOK
<1>2. \A r \in Requests : Collided(r)' <=> Collided(r)
  BY <1>1, SameCollisions, Zenon
<1>3. Drawn' /\ Registered' /\ Answered' /\ PendingRegistered'
  BY <1>1, <1>2, SameAnswers, Zenon DEF Drawn, Registered, PendingRegistered
<1>4. server.cur \in Requests /\ server.sender \in Ids
  BY <1>1, Zenon DEF Serving, Drawn, TypeOK
<1>5. CASE ReceiveReturns
  <2>1. server' = [pc |-> "idle", cur |-> None, sender |-> server.sender, left |-> 0, to |-> None]
    BY <1>5, Zenon DEF ReceiveReturns, Idle
  <2>2. TypeOK'
    BY <1>1, <1>4, <2>1 DEF TypeOK
  <2>3. Serving' /\ Queued'
    BY <1>1, <2>1 DEF Serving, Queued, TypeOK
  <2>4. Fresh'
    BY <1>1, <1>2, <2>1, Zenon DEF Fresh, Unanswered
  <2> QED BY <1>3, <2>2, <2>3, <2>4, Zenon
<1>6. CASE Respond /\ lookup[server.sender] = None
  <2>1. server.left > 0 /\ server' = [server EXCEPT !.left = @ - 1]
    BY <1>6, Zenon DEF Respond
  <2>2. /\ server'.pc = "respond" /\ server'.cur = server.cur /\ server'.to = server.to
        /\ server'.sender = server.sender /\ server'.left = server.left - 1
    BY <1>1, <2>1, Zenon DEF TypeOK
  <2>3. TypeOK'
    <3>1. server \in ServerType /\ server.left - 1 \in 0..MaxReplies
      BY <2>1 DEF TypeOK, ServerType
    <3>2. server' \in ServerType
      BY <2>1, <3>1, Zenon DEF ServerType
    <3> QED BY <1>1, <2>2, <3>2, Zenon DEF TypeOK, ServerType
  <2>4. req[server.cur].replies \in Nat /\ server.left <= req[server.cur].replies
    BY <1>4 DEF Serving, TypeOK
  <2>5. Serving' /\ Queued'
    BY <1>1, <1>4, <2>2, <2>4 DEF Serving, Queued
  <2>6. Fresh'
    BY <1>1, <1>2, <2>1, <2>2, <2>4 DEF Fresh, Unanswered
  <2> QED BY <1>3, <2>3, <2>5, <2>6, Zenon
<1>7. CASE Respond /\ lookup[server.sender] # None
  <2>1. /\ server.left > 0 /\ lookup[server.sender] \in Requests
        /\ server' = [server EXCEPT !.pc = "push", !.to = lookup[server.sender]]
    BY <1>4, <1>7, Zenon DEF Respond, TypeOK
  <2>2. /\ server'.pc = "push" /\ server'.cur = server.cur /\ server'.left = server.left
        /\ server'.sender = server.sender /\ server'.to = lookup[server.sender]
    BY <2>1, Zenon DEF TypeOK
  <2>3. TypeOK'
    <3>1. server \in ServerType
      BY Zenon DEF TypeOK, ServerType
    <3>2. server' \in ServerType
      BY <2>1, <3>1, Zenon DEF ServerType
    <3> QED BY <1>1, <2>1, <2>2, <3>2, Zenon DEF TypeOK, ServerType
  <2>4. req[lookup[server.sender]].id = server.sender
    BY <1>4, <2>1, Zenon DEF Registered
  <2>5. Serving' /\ Queued'
    BY <1>1, <1>4, <2>1, <2>2, <2>4, Zenon DEF Serving, Queued
  <2>6. Fresh'
    BY <1>1, <1>2, <2>2, Zenon DEF Fresh, Unanswered
  <2> QED BY <1>3, <2>3, <2>5, <2>6, Zenon
<1> QED BY <1>5, <1>6, <1>7, Zenon

\* A push goes to the request that is being served, or to one with its id.
LEMMA ResponseSendStep ==
  ASSUME IInv, ResponseSend
  PROVE  IInv'
<1> USE RequestsAssumption DEF IInv
<1> DEFINE c == server.cur
           t == server.to
<1>1. /\ server.pc = "push" /\ t \in Requests /\ c \in Requests
      /\ req' = [req EXCEPT ![t].ch = Append(@, c)]
      /\ server' = [server EXCEPT !.pc = "respond", !.left = @ - 1, !.to = None]
      /\ UNCHANGED <<lookup, alive, inbox>>
  BY Zenon DEF ResponseSend, TypeOK, Serving
<1>2. /\ server.left \in Nat /\ server.left > 0 /\ req[c].replies \in Nat
      /\ server.left <= req[c].replies /\ server.sender = req[c].id /\ req[t].id = req[c].id
      /\ req[c].pc \notin {"ready", "send"} /\ req[c].id # None
  BY <1>1 DEF Serving, Drawn, TypeOK
<1>3. /\ server'.pc = "respond" /\ server'.cur = c /\ server'.to = None
      /\ server'.sender = server.sender /\ server'.left = server.left - 1
  BY <1>1, <1>2, Zenon DEF TypeOK
<1>4. /\ \A r \in Requests : /\ req'[r].pc = req[r].pc /\ req'[r].id = req[r].id
                             /\ req'[r].replies = req[r].replies /\ req'[r].result = req[r].result
      /\ req'[t].ch = Append(req[t].ch, c)
      /\ \A r \in Requests \ {t} : req'[r].ch = req[r].ch
  BY <1>1 DEF TypeOK
<1>5. TypeOK'
  <2>1. req \in [Requests -> ReqType] /\ server \in ServerType
    BY Zenon DEF TypeOK, ReqType, ServerType
  <2>2. Append(req[t].ch, c) \in Seq(Requests)
    BY <1>1, <2>1 DEF ReqType
  <2>3. [req[t] EXCEPT !.ch = Append(@, c)] \in ReqType
    BY <1>1, <2>1, <2>2, ChTyped, Zenon
  <2>4. req' \in [Requests -> ReqType]
    BY <1>1, <2>1, <2>3, Zenon
  <2>5. server.left - 1 \in 0..MaxReplies
    BY <1>2, <2>1 DEF ServerType
  <2>6. server' \in ServerType
    BY <1>1, <2>1, <2>5, Zenon DEF ServerType
  <2> QED BY <1>1, <1>3, <2>4, <2>6, Zenon DEF TypeOK, ReqType, ServerType
<1>6. \A r \in Requests : Collided(r)' <=> Collided(r)
  BY <1>4, SameCollisions, Zenon
<1>7. Drawn' /\ Registered' /\ PendingRegistered'
  BY <1>1, <1>4, <1>6 DEF Drawn, Registered, PendingRegistered, TypeOK
<1>8. Queued' /\ Serving'
  BY <1>1, <1>2, <1>3, <1>4, SMTT(60) DEF Queued, Serving, TypeOK
<1>9. Answered'
  <2> HIDE DEF c, t
  <2>1. \A r \in Requests : /\ req[r].ch \in Seq(Requests)
                            /\ req[r].result \in Requests \cup {None}
    BY Zenon DEF TypeOK
  <2>2. /\ Len(req'[t].ch) = Len(req[t].ch) + 1 /\ req'[t].ch[Len(req[t].ch) + 1] = c
        /\ \A i \in 1..Len(req[t].ch) : req'[t].ch[i] = req[t].ch[i] /\ req[t].ch[i] \in Requests
    BY <1>1, <1>4, <2>1
  <2>3. \A i \in 1..Len(req'[t].ch) : req'[req'[t].ch[i]].id = req'[t].id
    <3>1. Len(req[t].ch) \in Nat
      BY <1>1, <2>1
    <3>2. \A i \in 1..Len(req[t].ch) : req[req[t].ch[i]].id = req[t].id
      BY <1>1, Zenon DEF Answered
    <3> QED BY <1>1, <1>2, <1>4, <2>2, <3>1, <3>2
  <2>4. \A r \in Requests \ {t} : \A i \in 1..Len(req[r].ch) :
          req[r].ch[i] \in Requests /\ req[req[r].ch[i]].id = req[r].id
    BY <2>1 DEF Answered
  <2>5. \A r \in Requests : req'[r].result # None => req'[req'[r].result].id = req'[r].id
    BY <1>4, <2>1 DEF Answered
  <2>6. \A r \in Requests \ {t} : \A i \in 1..Len(req'[r].ch) :
          req'[req'[r].ch[i]].id = req'[r].id
    BY <1>4, <2>4
  <2> QED BY <2>3, <2>5, <2>6 DEF Answered
<1>10. Fresh'
  <2>1. \A r \in Requests : r = t /\ r # c => Collided(r)
    BY <1>1, <1>2, Zenon DEF Collided
  <2>2. \A r \in Requests : r = c => ~Unanswered(r)'
    BY <1>1, <1>2, <1>3, <1>4 DEF Unanswered, Queued
  <2>3. \A r \in Requests \ {c} : Unanswered(r)' => Unanswered(r)
    BY <1>1, <1>3, <1>4, Zenon DEF Unanswered
  <2> SUFFICES ASSUME NEW r \in Requests, Unanswered(r)', ~Collided(r)'
               PROVE  req'[r].ch = <<>>
    BY Zenon DEF Fresh
  <2>4. r # c /\ r # t /\ Unanswered(r) /\ ~Collided(r)
    BY <1>6, <2>1, <2>2, <2>3, Zenon
  <2> QED BY <1>4, <2>4, Zenon DEF Fresh
<1> QED BY <1>5, <1>7, <1>8, <1>9, <1>10, Zenon

\* Result takes what is in the channel, or gives up.
LEMMA ResultStep ==
  ASSUME IInv, NEW r \in Requests, ResultReply(r) \/ ResultTimeout(r)
  PROVE  IInv'
<1> USE RequestsAssumption DEF IInv
<1>1. /\ req[r].pc = "wait" /\ UNCHANGED <<lookup, alive, inbox, server>>
      /\ req[r].ch \in Seq(Requests)
  BY Zenon DEF ResultReply, ResultTimeout, TypeOK
<1>2. PICK v \in Requests \cup {None}, q \in Seq(Requests) :
        /\ req' = [req EXCEPT ![r].pc = "remove", ![r].result = v, ![r].ch = q]
        /\ v = req[r].result \/ (req[r].ch # <<>> /\ v = req[r].ch[1])
        /\ Len(q) <= Len(req[r].ch)
        /\ q = req[r].ch \/ \A i \in 1..Len(q) : i + 1 \in 1..Len(req[r].ch) /\ q[i] = req[r].ch[i + 1]
  <2>1. CASE ResultReply(r)
    <3>1. /\ Head(req[r].ch) \in Requests /\ Tail(req[r].ch) \in Seq(Requests)
          /\ req[r].ch # <<>> /\ Head(req[r].ch) = req[r].ch[1]
          /\ Len(Tail(req[r].ch)) <= Len(req[r].ch)
          /\ \A i \in 1..Len(Tail(req[r].ch)) :
               i + 1 \in 1..Len(req[r].ch) /\ Tail(req[r].ch)[i] = req[r].ch[i + 1]
      <4>1. req[r].ch # <<>>
        BY <2>1, Zenon DEF ResultReply
      <4> HIDE DEF IInv
      <4> QED BY <1>1, <4>1, TailFacts, Zenon
    <3>2. req' = [req EXCEPT ![r].pc = "remove", ![r].result = Head(req[r].ch),
                             ![r].ch = Tail(req[r].ch)]
      BY <2>1, Zenon DEF ResultReply, TypeOK
    <3> QED BY <3>1, <3>2, Zenon
  <2>2. CASE ResultTimeout(r)
    <3>1. req' = [req EXCEPT ![r].pc = "remove", ![r].result = req[r].result,
                             ![r].ch = req[r].ch]
      BY <2>2, Zenon DEF ResultTimeout, TypeOK
    <3>2. req[r].result \in Requests \cup {None} /\ Len(req[r].ch) <= Len(req[r].ch)
      BY <1>1 DEF TypeOK
    <3> QED BY <1>1, <3>1, <3>2, Zenon
  <2> QED BY <2>1, <2>2, Zenon
<1>3. /\ req'[r].pc = "remove" /\ req'[r].id = req[r].id /\ req'[r].ch = q
      /\ req'[r].result = v /\ req'[r].replies = req[r].replies
      /\ \A s \in Requests \ {r} : req'[s] = req[s]
  BY <1>2 DEF TypeOK
<1>4. TypeOK'
  <2>1. req \in [Requests -> ReqType]
    BY Zenon DEF TypeOK, ReqType
  <2>2. [req[r] EXCEPT !.pc = "remove", !.result = v, !.ch = q] \in ReqType
    BY <2>1, Zenon DEF ReqType
  <2>3. req' = [req EXCEPT ![r] = [req[r] EXCEPT !.pc = "remove", !.result = v, !.ch = q]]
    BY <1>2, <2>1, Zenon
  <2>4. req' \in [Requests -> ReqType]
    BY <2>1, <2>2, <2>3, Zenon
  <2> QED BY <1>1, <2>4, Zenon DEF TypeOK, ReqType
<1>5. \A s \in Requests : Collided(s)' <=> Collided(s)
  BY <1>3, SameCollisions, Zenon
<1>6. Drawn' /\ Registered' /\ PendingRegistered'
  <2>1. \A s \in Requests : req'[s].id = req[s].id /\ (req'[s].pc = "ready" <=> req[s].pc = "ready")
    BY <1>1, <1>3, Zenon
  <2>2. Drawn'
    BY <1>1, <1>3, Zenon DEF Drawn
  <2>3. Registered'
    BY <1>1, <2>1 DEF Registered, TypeOK
  <2> QED BY <1>1, <1>3, <1>5, <2>2, <2>3, Zenon DEF PendingRegistered
<1>7. Queued' /\ Serving'
  <2>1. \A s \in Requests : /\ req'[s].pc \in {"ready", "send"} <=> req[s].pc \in {"ready", "send"}
                            /\ req'[s].id = req[s].id /\ req'[s].replies = req[s].replies
    BY <1>1, <1>3, Zenon
  <2>2. /\ \A i \in 1..Len(inbox) : inbox[i] \in Requests
        /\ server.cur \in Requests \cup {None} /\ (server.pc = "push" => server.to \in Requests)
    BY DEF TypeOK
  <2> QED BY <1>1, <2>1, <2>2 DEF Queued, Serving
<1>8. Answered'
  <2>1. \A s \in Requests : /\ \A i \in 1..Len(req[s].ch) : req[s].ch[i] \in Requests
                            /\ req[s].result \in Requests \cup {None}
                            /\ Len(req[s].ch) \in Nat /\ (req[s].ch # <<>> => Len(req[s].ch) > 0)
    BY DEF TypeOK
  <2>2. \A s \in Requests : req'[s].id = req[s].id
    BY <1>3, Zenon
  <2>3. \A i \in 1..Len(q) : q[i] \in Requests /\ req[q[i]].id = req[r].id
    <3>1. CASE q = req[r].ch
      BY <3>1, <2>1, Zenon DEF Answered
    <3>2. CASE \A i \in 1..Len(q) : i + 1 \in 1..Len(req[r].ch) /\ q[i] = req[r].ch[i + 1]
      BY <3>2, <2>1 DEF Answered
    <3> QED BY <1>2, <3>1, <3>2, Zenon
  <2>4. v # None => v \in Requests /\ req[v].id = req[r].id
    BY <1>2, <2>1 DEF Answered
  <2>5. \A i \in 1..Len(req'[r].ch) : req'[req'[r].ch[i]].id = req'[r].id
    BY <1>3, <2>2, <2>3, Zenon
  <2>6. \A s \in Requests \ {r} : \A i \in 1..Len(req'[s].ch) : req'[req'[s].ch[i]].id = req'[s].id
    BY <1>3, <2>1, <2>2 DEF Answered
  <2>7. \A s \in Requests : req'[s].result # None => req'[req'[s].result].id = req'[s].id
    BY <1>3, <2>1, <2>2, <2>4 DEF Answered
  <2> QED BY <2>5, <2>6, <2>7 DEF Answered
<1>9. Fresh'
  <2>1. req[r].ch = <<>> => q = <<>>
    BY <1>2
  <2>2. \A s \in Requests : Unanswered(s)' => Unanswered(s)
    BY <1>1, <1>3, Zenon DEF Unanswered
  <2> QED BY <1>3, <1>5, <2>1, <2>2, Zenon DEF Fresh
<1> QED BY <1>4, <1>6, <1>7, <1>8, <1>9, Zenon

\* The id is removed, whoever it stands for: only a request that has collided
\* can lose it.
LEMMA RemoveStep ==
  ASSUME IInv, NEW r \in Requests, ResultRemove(r)
  PROVE  IInv'
<1> USE RequestsAssumption DEF IInv
<1>1. /\ req[r].pc = "remove" /\ req' = [req EXCEPT ![r].pc = "done"]
      /\ lookup' = [lookup EXCEPT ![req[r].id] = None]
      /\ UNCHANGED <<alive, inbox, server>>
  BY Zenon DEF ResultRemove
<1>2. /\ req'[r].pc = "done" /\ req'[r].id = req[r].id /\ req'[r].ch = req[r].ch
      /\ req'[r].result = req[r].result /\ req'[r].replies = req[r].replies
      /\ \A s \in Requests \ {r} : req'[s] = req[s]
  BY <1>1, Zenon DEF TypeOK
<1>3. TypeOK'
  <2>1. req' \in [Requests -> ReqType]
    BY <1>1, TypeFacts, PcTyped, Zenon
  <2>2. lookup' \in [Ids -> Requests \cup {None}]
    BY <1>1, Zenon DEF TypeOK
  <2> QED BY <1>1, <2>1, <2>2, Zenon DEF TypeOK, ReqType
<1>4. \A s \in Requests : Collided(s)' <=> Collided(s)
  BY <1>2, SameCollisions, Zenon
<1>5. Drawn' /\ Answered'
  BY <1>1, <1>2, SameAnswers DEF Drawn
<1>6. Registered'
  BY <1>1, <1>2 DEF Registered, TypeOK
<1>7. Queued' /\ Serving'
  BY <1>1, <1>2 DEF Queued, Serving, TypeOK
<1>8. Fresh'
  BY <1>1, <1>2, <1>4 DEF Fresh, Unanswered
<1>9. PendingRegistered'
  <2> SUFFICES ASSUME NEW s \in Requests, req'[s].pc \in {"send", "wait"}, ~Collided(s)'
               PROVE  lookup'[req'[s].id] = s
    BY Zenon DEF PendingRegistered
  <2>1. s # r /\ req[s].id # req[r].id /\ req[s].id \in Ids /\ ~Collided(s)
    BY <1>1, <1>2, <1>4 DEF Collided, Drawn, TypeOK
  <2> QED BY <1>1, <1>2, <2>1, Zenon DEF PendingRegistered, TypeOK
<1> QED BY <1>3, <1>5, <1>6, <1>7, <1>8, <1>9, Zenon

\* Every step of the requests and of the server.
LEMMA NextIInv == IInv /\ [Next]_vars => IInv'
<1> SUFFICES ASSUME IInv, [Next]_vars PROVE IInv'
  BY Zenon
<1>1. ASSUME Stop PROVE IInv'
  <2>1. UNCHANGED <<lookup, req, inbox, server>> /\ alive' \in BOOLEAN
    BY <1>1, Zenon DEF Stop
  <2>2. TypeOK'
    BY <2>1, Zenon DEF IInv, TypeOK
  <2>3. \A r \in Requests : (Collided(r)' <=> Collided(r)) /\ (Unanswered(r)' <=> Unanswered(r))
    BY <2>1, Zenon DEF Collided, Unanswered
  <2>4. Fresh' /\ PendingRegistered'
    BY <2>1, <2>3, Zenon DEF IInv, Fresh, PendingRegistered
  <2> QED BY <2>1, <2>2, <2>4, Zenon DEF IInv, Drawn, Registered, Queued, Serving, Answered
<1>2. ASSUME UNCHANGED vars PROVE IInv'
  <2>1. UNCHANGED <<lookup, req, alive, inbox, server>>
    BY <1>2, Zenon DEF vars
  <2>2. \A r \in Requests : (Collided(r)' <=> Collided(r)) /\ (Unanswered(r)' <=> Unanswered(r))
    BY <2>1, Zenon DEF Collided, Unanswered
  <2>3. Fresh' /\ PendingRegistered'
    BY <2>1, <2>2, Zenon DEF IInv, Fresh, PendingRegistered
  <2> QED BY <2>1, <2>3 DEF IInv, TypeOK, Drawn, Registered, Queued, Serving, Answered
<1> QED BY <1>1, <1>2, RequestStep, SendStep, ReceiveStep, ServerOnlyStep, ResponseSendStep,
           ResultStep, RemoveStep, Zenon DEF Next, Result, ServerStep

\* The invariant holds throughout.
LEMMA Invariance == Spec => []IInv
BY InitIInv, NextIInv, PTL DEF Spec

\* The registry, the requests, the mailbox and the server stay well formed;
\* in particular the server never pushes to a response that is not there.
THEOREM RequestTypes == Spec => []TypeOK
<1>1. IInv => TypeOK
  BY Zenon DEF IInv
<1> QED BY <1>1, Invariance, PTL

\* A request that waits and has its id for itself is registered under it,
\* although Result removes by id.
THEOREM WaitingIsRegistered == Spec => []PendingRegistered
<1>1. IInv => PendingRegistered
  BY Zenon DEF IInv
<1> QED BY <1>1, Invariance, PTL

\* Result never returns the answer to another request, unless two requests
\* have drawn the same id.
THEOREM OwnAnswer == Spec => []Attribution
<1>1. IInv => Attribution
  <2> SUFFICES ASSUME IInv, NEW r \in Requests, req[r].result # None, ~Collided(r)
               PROVE  req[r].result = r
    BY Zenon DEF Attribution
  <2>1. /\ req[r].result \in Requests /\ req[req[r].result].id = req[r].id
        /\ req[r].id # None
    BY Zenon DEF IInv, TypeOK, Answered, Drawn
  <2> QED BY <2>1, Zenon DEF Collided
<1> QED BY <1>1, Invariance, PTL

\* A server that replies at most once never waits at the channel of a
\* response, however many requests there are.
THEOREM RoomForReply == Spec => []ReplyNeverBlocks
<1>1. IInv => ReplyNeverBlocks
  <2> SUFFICES ASSUME IInv, server.pc = "push", req[server.cur].replies <= 1, ~Collided(server.cur)
               PROVE  req[server.to].ch = <<>>
    BY Zenon DEF ReplyNeverBlocks
  <2>1. /\ server.cur \in Requests /\ server.to \in Requests
        /\ server.left \in Nat /\ req[server.cur].replies \in Nat
        /\ server.left > 0 /\ server.left <= req[server.cur].replies
        /\ req[server.to].id = req[server.cur].id /\ req[server.cur].id # None
    BY DEF IInv, TypeOK, Serving, Drawn
  <2>2. server.to = server.cur
    BY <2>1, Zenon DEF Collided
  <2>3. server.left = req[server.cur].replies
    BY <2>1
  <2>4. Unanswered(server.cur)
    BY <2>3, Zenon DEF Unanswered
  <2> QED BY <2>1, <2>2, <2>4, Zenon DEF IInv, Fresh
<1> QED BY <1>1, Invariance, PTL
=============================================================================
