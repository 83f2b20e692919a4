---------------------------- MODULE ClusterProof ----------------------------
(***************************************************************************)
(* Proofs about Cluster, for any nodes, kinds, ids, calls and bounds.       *)
(***************************************************************************)
EXTENDS Cluster, TLAPS

-----------------------------------------------------------------------------
(* Types *)

PIDs == [host : Nodes, id : Ids]

\* Sets of PIDs that agents know and send: one PID for an id.
OneEach(ps) == \A p, q \in ps : p.id = q.id => p = q
Known == {ps \in SUBSET PIDs : OneEach(ps)}

\* Lists of members that a provider sends: it is one of them.
MemberSets(n) == {ms \in SUBSET Nodes : n \in ms}
Lists(n) == {Members(ms) : ms \in MemberSets(n)}

\* Messages to the provider of n.
Letters(n) == {Handshake} \cup {Members(ms) : ms \in SUBSET Nodes}
              \cup {MemberLeave(m) : m \in Nodes \ {n}}

\* Messages from agent to agent.
News == {Topology(ps) : ps \in Known} \cup {Activation(p) : p \in PIDs}
Ends == {Deactivation(p) : p \in PIDs}
Asks == {ActivationRequest(c) : c \in Calls}
Blanks == {Nil("Activation"), Nil("Deactivation")}
Mails == News \cup Ends \cup Asks \cup Blanks

NodeSets == SUBSET Nodes
KindSets == SUBSET Kinds
Waits == Calls \cup {None}
Agent == [members : NodeSets, kinds : KindSets, activated : Known, waiting : Waits]
Reply == [call : Calls, success : BOOLEAN, pid : PIDs]
Spawning == [pid : Spawns, members : NodeSets \cup {None}]

Todo == [calls : SUBSET Calls, deactivate : SUBSET (PIDs \cup {None}),
         spawns : SUBSET Spawns, left : Nat]
Counts == [provider : Nat, agent : Nat]

PlinkOK(l) ==
  /\ DOMAIN l = Nodes /\ \A n \in Nodes : DOMAIN l[n] = Nodes
  /\ \A n, s \in Nodes : l[n][s] \in Seq(Letters(n))

LinkOK(l) ==
  /\ DOMAIN l = Nodes /\ \A n \in Nodes : DOMAIN l[n] = Nodes \cup {Provider}
  /\ \A n, s \in Nodes : l[n][s] \in Seq(Mails)
  /\ \A n \in Nodes : l[n][Provider] \in Seq(Lists(n))

\* Calls waited for are those of the node; an agent without members has not
\* heard of its provider yet.
Typed ==
  /\ provider \in [Nodes -> NodeSets] /\ \A n \in Nodes : n \in provider[n]
  /\ PlinkOK(plink) /\ LinkOK(link)
  /\ agent \in [Nodes -> Agent]
  /\ \A n \in Nodes :
       /\ agent[n].waiting # None => agent[n].waiting.node = n
       /\ agent[n].members # {} => n \in agent[n].members
  /\ replies \subseteq Reply
  /\ actors \subseteq PIDs /\ poisoned \subseteq actors
  /\ todo \in Todo
  /\ spawning \subseteq Spawning
  /\ panics \in [Nodes -> Counts]

-----------------------------------------------------------------------------
(* Queues *)

Holds(q, x) == \E k \in 1..Len(q) : q[k] = x
Plus(S, x) == S \cup {x}
HoldsPlus(p, q, m) == \A x : Holds(p, x) <=> Holds(q, x) \/ x = m
Contents(q) == {q[k] : k \in 1..Len(q)}

\* What the agents have sent to the agent of n.
MailOf(l, n) == UNION {Contents(l[n][s]) : s \in Nodes}
Mail(n) == MailOf(link, n)

LEMMA AppendHolds ==
  ASSUME NEW S, NEW q \in Seq(S), NEW m \in S
  PROVE  /\ Append(q, m) \in Seq(S) /\ Append(q, m) # <<>>
         /\ Contents(Append(q, m)) = Plus(Contents(q), m)
         /\ HoldsPlus(Append(q, m), q, m)
<1> DEFINE p == Append(q, m)
           e == Len(q)
<1>1. /\ p \in Seq(S) /\ p # <<>> /\ e \in Nat /\ Len(p) = e + 1 /\ p[e + 1] = m
      /\ \A k \in 1..e : p[k] = q[k] /\ k \in 1..(e + 1)
      /\ \A k \in 1..(e + 1) : k \in 1..e \/ k = e + 1
      /\ e + 1 \in 1..(e + 1)
  OBVIOUS
<1> HIDE DEF p, e
<1>2. Contents(p) = {p[k] : k \in 1..(e + 1)} /\ Contents(q) = {q[k] : k \in 1..e}
  BY <1>1, Zenon DEF Contents, e
<1>3. \A x : x \in Contents(p) <=> x \in Contents(q) \/ x = m
  <2>1. ASSUME NEW x, x \in Contents(p) PROVE x \in Contents(q) \/ x = m
    <3>1. PICK k \in 1..(e + 1) : x = p[k]
      BY <1>2, <2>1, Zenon
    <3>2. CASE k \in 1..e
      BY <1>1, <1>2, <3>1, <3>2, Zenon
    <3>3. CASE k = e + 1
      BY <1>1, <3>1, <3>3, Zenon
    <3> QED BY <1>1, <3>2, <3>3, Zenon
  <2>2. m \in Contents(p)
    BY <1>1, <1>2, Zenon
  <2>3. ASSUME NEW x, x \in Contents(q) PROVE x \in Contents(p)
    <3>1. PICK k \in 1..e : x = q[k]
      BY <1>2, <2>3, Zenon
    <3> QED BY <1>1, <1>2, <3>1, Zenon
  <2> QED BY <2>1, <2>2, <2>3, Zenon
<1>4. \A x, s : Holds(s, x) <=> x \in Contents(s)
  BY Zenon DEF Holds, Contents
<1>5. Contents(p) = Plus(Contents(q), m)
  BY <1>3, Zenon DEF Plus
<1>6. HoldsPlus(p, q, m)
  BY <1>3, <1>4, Zenon DEF HoldsPlus
<1> QED BY <1>1, <1>5, <1>6, Zenon DEF p

LEMMA TailHolds ==
  ASSUME NEW S, NEW q \in Seq(S), q # <<>>
  PROVE  /\ Tail(q) \in Seq(S) /\ Head(q) \in S
         /\ Contents(q) = Plus(Contents(Tail(q)), Head(q))
         /\ HoldsPlus(q, Tail(q), Head(q))
<1> DEFINE p == Tail(q)
<1>1. PICK e \in Nat : /\ p \in Seq(S) /\ e = Len(p) /\ Len(q) = e + 1 /\ q[1] = Head(q)
                       /\ \A k \in 1..e : p[k] = q[k + 1] /\ k + 1 \in 1..(e + 1)
                       /\ 1 \in 1..(e + 1) /\ q[1] \in S
                       /\ \A k \in 1..(e + 1) : k = 1 \/ \E j \in 1..e : k = j + 1
  <2>1. Len(p) \in Nat /\ Len(q) = Len(p) + 1 /\ p \in Seq(S) /\ q[1] = Head(q) /\ q[1] \in S
    OBVIOUS
  <2>2. \A k \in 1..Len(p) : p[k] = q[k + 1] /\ k + 1 \in 1..(Len(p) + 1)
    OBVIOUS
  <2>3. \A k \in 1..(Len(p) + 1) : k = 1 \/ (k - 1 \in 1..Len(p) /\ k = (k - 1) + 1)
    BY <2>1
  <2> HIDE DEF p
  <2> QED BY <2>1, <2>2, <2>3
<1> HIDE DEF p
<1>2. Contents(q) = {q[k] : k \in 1..(e + 1)} /\ Contents(p) = {p[k] : k \in 1..e}
  BY <1>1, Zenon DEF Contents
<1>3. \A x : x \in Contents(q) <=> x \in Contents(p) \/ x = Head(q)
  <2>1. ASSUME NEW x, x \in Contents(q) PROVE x \in Contents(p) \/ x = Head(q)
    <3>1. PICK k \in 1..(e + 1) : x = q[k]
      BY <1>2, <2>1, Zenon
    <3>2. CASE k = 1
      BY <1>1, <3>1, <3>2, Zenon
    <3>3. CASE k # 1
      <4>1. PICK j \in 1..e : k = j + 1
        BY <1>1, <3>3, Zenon
      <4> QED BY <1>1, <1>2, <3>1, <4>1, Zenon
    <3> QED BY <3>2, <3>3, Zenon
  <2>2. Head(q) \in Contents(q)
    BY <1>1, <1>2, Zenon
  <2>3. ASSUME NEW x, x \in Contents(p) PROVE x \in Contents(q)
    <3>1. PICK k \in 1..e : x = p[k]
      BY <1>2, <2>3, Zenon
    <3> QED BY <1>1, <1>2, <3>1, Zenon
  <2> QED BY <2>1, <2>2, <2>3, Zenon
<1>4. \A x, s : Holds(s, x) <=> x \in Contents(s)
  BY Zenon DEF Holds, Contents
<1>5. Contents(q) = Plus(Contents(p), Head(q))
  BY <1>3, Zenon DEF Plus
<1>6. HoldsPlus(q, p, Head(q))
  BY <1>3, <1>4, Zenon DEF HoldsPlus
<1> QED BY <1>1, <1>5, <1>6, Zenon DEF p

\* One queue of many is set.
Sets(e, l, n, s, v) ==
  /\ DOMAIN e = DOMAIN l /\ \A m \in DOMAIN l : DOMAIN e[m] = DOMAIN l[m]
  /\ e[n][s] = v
  /\ \A m \in DOMAIN l : \A t \in DOMAIN l[m] : m # n \/ t # s => e[m][t] = l[m][t]

LEMMA Except ==
  ASSUME NEW l, NEW n \in DOMAIN l, NEW s \in DOMAIN l[n], NEW v
  PROVE  Sets([l EXCEPT ![n][s] = v], l, n, s, v)
<1> DEFINE e == [l EXCEPT ![n][s] = v]
<1>1. DOMAIN e = DOMAIN l /\ \A m \in DOMAIN l : e[m] = IF m = n THEN [l[n] EXCEPT ![s] = v] ELSE l[m]
  BY Zenon
<1> HIDE DEF e
<1>2. \A m \in DOMAIN l : DOMAIN e[m] = DOMAIN l[m]
  BY <1>1, Zenon
<1>3. \A m \in DOMAIN l : \A t \in DOMAIN l[m] : e[m][t] = IF m = n /\ t = s THEN v ELSE l[m][t]
  BY <1>1, Zenon
<1>4. Sets(e, l, n, s, v)
  BY <1>1, <1>2, <1>3, Zenon DEF Sets
<1> QED BY <1>4, Zenon DEF e

LEMMA NoneApart ==
  /\ \A c \in Calls : c # None
  /\ \A n \in Nodes : n # None /\ n # Nowhere
  /\ Nowhere # None
<1>1. /\ None \notin Calls \cup Nodes \cup [host : Nodes, id : Ids] \cup {"nowhere"}
      /\ {"provider", "nowhere"} \cap Nodes = {}
  BY ClusterAssumption, Zenon
<1> QED BY <1>1, Zenon DEF Nowhere

LEMMA ProviderNoNode == Provider \notin Nodes
BY ClusterAssumption, Zenon DEF Provider

\* The mail of a node is that of its queues.
LEMMA MailByQueue ==
  ASSUME NEW l, NEW n, NEW x
  PROVE  x \in MailOf(l, n) <=> \E s \in Nodes : x \in Contents(l[n][s])
BY Zenon DEF MailOf

LEMMA MailSame ==
  ASSUME NEW l, NEW e, NEW n, \A t \in Nodes : e[n][t] = l[n][t]
  PROVE  MailOf(e, n) = MailOf(l, n)
<1>1. ASSUME NEW x, x \in MailOf(e, n) PROVE x \in MailOf(l, n)
  BY <1>1, MailByQueue, Zenon
<1>2. ASSUME NEW x, x \in MailOf(l, n) PROVE x \in MailOf(e, n)
  <2>1. PICK t \in Nodes : x \in Contents(l[n][t])
    BY <1>2, MailByQueue, Zenon
  <2>2. x \in Contents(e[n][t])
    BY <2>1, Zenon
  <2> QED BY <2>2, MailByQueue, Zenon
<1> QED BY <1>1, <1>2, Zenon

MailPlus(e, l, n, msg) == \A x : x \in MailOf(e, n) <=> x \in MailOf(l, n) \/ x = msg

Adds(e, l, n, s, msg) ==
  /\ s \in Nodes /\ Contents(e[n][s]) = Plus(Contents(l[n][s]), msg)
  /\ \A t \in Nodes : t # s => e[n][t] = l[n][t]

LEMMA MailGrows ==
  ASSUME NEW l, NEW e, NEW n, NEW s, NEW msg, Adds(e, l, n, s, msg)
  PROVE  MailPlus(e, l, n, msg)
<1>0. /\ s \in Nodes /\ Contents(e[n][s]) = Plus(Contents(l[n][s]), msg)
      /\ \A t \in Nodes : t # s => e[n][t] = l[n][t]
  BY Zenon DEF Adds
<1>1. ASSUME NEW x, x \in MailOf(e, n) PROVE x \in MailOf(l, n) \/ x = msg
  <2>1. PICK t \in Nodes : x \in Contents(e[n][t])
    BY <1>1, MailByQueue, Zenon
  <2>2. CASE t = s
    <3>1. x \in Contents(l[n][s]) \/ x = msg
      BY <1>0, <2>1, <2>2, Zenon DEF Plus
    <3> QED BY <1>0, <3>1, MailByQueue, Zenon
  <2>3. CASE t # s
    <3>1. x \in Contents(l[n][t])
      BY <1>0, <2>1, <2>3, Zenon
    <3> QED BY <1>0, <3>1, MailByQueue, Zenon
  <2> QED BY <2>2, <2>3, Zenon
<1>2. ASSUME NEW x, x \in MailOf(l, n) PROVE x \in MailOf(e, n)
  <2>1. PICK t \in Nodes : x \in Contents(l[n][t])
    BY <1>2, MailByQueue, Zenon
  <2>2. x \in Contents(e[n][t])
    <3>1. CASE t = s
      BY <1>0, <2>1, <3>1, Zenon DEF Plus
    <3>2. CASE t # s
      BY <1>0, <2>1, <3>2, Zenon
    <3> QED BY <3>1, <3>2, Zenon
  <2> QED BY <2>2, MailByQueue, Zenon
<1>3. msg \in MailOf(e, n)
  <2>1. msg \in Contents(e[n][s])
    BY <1>0, Zenon DEF Plus
  <2> QED BY <1>0, <2>1, MailByQueue, Zenon
<1> QED BY <1>1, <1>2, <1>3, Zenon DEF MailPlus

MailPosted(e, l, n, s, msg) ==
  /\ LinkOK(e) /\ \A m \in Nodes : e[m][Provider] = l[m][Provider]
  /\ MailPlus(e, l, n, msg)
  /\ \A m \in Nodes : m # n => MailOf(e, m) = MailOf(l, m)
  /\ e[n][s] = Append(l[n][s], msg)
  /\ \A m, t \in Nodes : m # n \/ t # s => e[m][t] = l[m][t]

\* An agent sends a message to another.
LEMMA PostedMail ==
  ASSUME NEW l, LinkOK(l), NEW n \in Nodes, NEW s \in Nodes, NEW msg \in Mails,
         NEW e, Sets(e, l, n, s, Append(l[n][s], msg))
  PROVE  MailPosted(e, l, n, s, msg)
<1>2. /\ DOMAIN e = Nodes /\ \A m \in Nodes : DOMAIN e[m] = Nodes \cup {Provider}
      /\ e[n][s] = Append(l[n][s], msg)
      /\ \A m \in Nodes : \A t \in Nodes \cup {Provider} : m # n \/ t # s => e[m][t] = l[m][t]
  BY Zenon DEF LinkOK, Sets
<1>3. /\ Append(l[n][s], msg) \in Seq(Mails)
      /\ Contents(Append(l[n][s], msg)) = Plus(Contents(l[n][s]), msg)
  <2>1. l[n][s] \in Seq(Mails)
    BY Zenon DEF LinkOK
  <2> QED BY <2>1, AppendHolds, Zenon
<1>4. \A m \in Nodes : e[m][Provider] = l[m][Provider]
  BY <1>2, ProviderNoNode, Zenon
<1>5. LinkOK(e)
  BY <1>2, <1>3, <1>4, Zenon DEF LinkOK
<1>7. MailPlus(e, l, n, msg)
  <2>1. \A u \in Nodes : u # s => e[n][u] = l[n][u]
    BY <1>2, Zenon
  <2>2. Contents(e[n][s]) = Plus(Contents(l[n][s]), msg)
    BY <1>2, <1>3, Zenon
  <2>3. Adds(e, l, n, s, msg)
    BY <2>1, <2>2, Zenon DEF Adds
  <2> QED BY <2>3, MailGrows, Zenon
<1>8. ASSUME NEW m \in Nodes, m # n PROVE MailOf(e, m) = MailOf(l, m)
  <2>1. \A u \in Nodes : e[m][u] = l[m][u]
    BY <1>2, <1>8, Zenon
  <2> QED BY <2>1, MailSame, Zenon
<1>9. \A m, t \in Nodes : m # n \/ t # s => e[m][t] = l[m][t]
  BY <1>2, ZenonT(40)
<1> QED BY <1>2, <1>4, <1>5, <1>7, <1>8, <1>9, Zenon DEF MailPosted

AllPosted(e, l, ns, s, msg) ==
  /\ LinkOK(e) /\ \A m \in Nodes : e[m][Provider] = l[m][Provider]
  /\ \A m \in Nodes : m \in ns => MailPlus(e, l, m, msg)
  /\ \A m \in Nodes : m \notin ns => MailOf(e, m) = MailOf(l, m)
  /\ \A m, t \in Nodes :
       e[m][t] = l[m][t] \/ (t = s /\ e[m][t] = Append(l[m][s], msg))

\* It sends one to each of a set of nodes.
LEMMA PostedAll ==
  ASSUME NEW l, LinkOK(l), NEW ns, NEW s \in Nodes, NEW msg \in Mails,
         NEW e, e = PostAll(l, ns, s, msg)
  PROVE  AllPosted(e, l, ns, s, msg)
<1>1. /\ DOMAIN e = Nodes
      /\ \A m \in Nodes : e[m] = IF m \in ns THEN [l[m] EXCEPT ![s] = Append(l[m][s], msg)]
                                 ELSE l[m]
  BY Zenon DEF PostAll
<1>2. ASSUME NEW m \in Nodes
      PROVE  /\ DOMAIN e[m] = Nodes \cup {Provider}
             /\ m \in ns => e[m][s] = Append(l[m][s], msg)
             /\ \A t \in Nodes \cup {Provider} : m \notin ns \/ t # s => e[m][t] = l[m][t]
  BY <1>1, <1>2, Zenon DEF LinkOK
<1>3. ASSUME NEW m \in Nodes
      PROVE  /\ Append(l[m][s], msg) \in Seq(Mails)
             /\ Contents(Append(l[m][s], msg)) = Plus(Contents(l[m][s]), msg)
  <2>1. l[m][s] \in Seq(Mails)
    BY <1>3, Zenon DEF LinkOK
  <2> QED BY <2>1, AppendHolds, Zenon
<1>4. \A m \in Nodes : e[m][Provider] = l[m][Provider]
  BY <1>2, ProviderNoNode, Zenon
<1>5. LinkOK(e)
  <2>1. ASSUME NEW m \in Nodes, NEW t \in Nodes PROVE e[m][t] \in Seq(Mails)
    <3>1. e[m][t] = l[m][t] \/ e[m][t] = Append(l[m][s], msg)
      BY <2>1, <1>2, Zenon
    <3> QED BY <3>1, <1>3, <2>1, Zenon DEF LinkOK
  <2> QED BY <1>1, <1>2, <1>4, <2>1, Zenon DEF LinkOK
<1>6. ASSUME NEW m \in Nodes, m \in ns PROVE MailPlus(e, l, m, msg)
  <2>1. \A u \in Nodes : u # s => e[m][u] = l[m][u]
    BY <1>2, Zenon
  <2>2. Contents(e[m][s]) = Plus(Contents(l[m][s]), msg)
    BY <1>2, <1>3, <1>6, Zenon
  <2>3. Adds(e, l, m, s, msg)
    BY <2>1, <2>2, Zenon DEF Adds
  <2> QED BY <2>3, MailGrows, Zenon
<1>7. \A m \in Nodes : m \notin ns => MailOf(e, m) = MailOf(l, m)
  BY <1>1, Zenon DEF MailOf
<1>8. ASSUME NEW m \in Nodes, NEW t \in Nodes
      PROVE  e[m][t] = l[m][t] \/ (t = s /\ e[m][t] = Append(l[m][s], msg))
  <2>1. CASE m \in ns /\ t = s
    BY <1>2, <2>1, Zenon
  <2>2. CASE m \notin ns \/ t # s
    <3>1. t \in Nodes \cup {Provider}
      BY <1>8, Zenon
    <3> QED BY <1>2, <1>8, <2>2, <3>1, Zenon
  <2> QED BY <2>1, <2>2, Zenon
<1> QED BY <1>4, <1>5, <1>6, <1>7, <1>8, Zenon DEF AllPosted

ListPosted(e, l, n, list) ==
  /\ LinkOK(e) /\ e[n][Provider] = Append(l[n][Provider], list)
  /\ \A m \in Nodes : m # n => e[m][Provider] = l[m][Provider]
  /\ \A m, t \in Nodes : e[m][t] = l[m][t]

\* The provider sends a list.
LEMMA PostedList ==
  ASSUME NEW l, LinkOK(l), NEW n \in Nodes, NEW list \in Lists(n),
         NEW e, Sets(e, l, n, Provider, Append(l[n][Provider], list))
  PROVE  ListPosted(e, l, n, list)
<1>2. /\ DOMAIN e = Nodes /\ \A m \in Nodes : DOMAIN e[m] = Nodes \cup {Provider}
      /\ e[n][Provider] = Append(l[n][Provider], list)
      /\ \A m \in Nodes : \A t \in Nodes \cup {Provider} :
           m # n \/ t # Provider => e[m][t] = l[m][t]
  BY Zenon DEF LinkOK, Sets
<1>3. Append(l[n][Provider], list) \in Seq(Lists(n))
  <2>1. l[n][Provider] \in Seq(Lists(n))
    BY Zenon DEF LinkOK
  <2> QED BY <2>1, AppendHolds, Zenon
<1>4. ASSUME NEW m \in Nodes, NEW t \in Nodes PROVE e[m][t] = l[m][t]
  <2>1. t # Provider
    BY <1>4, ProviderNoNode, Zenon
  <2> QED BY <1>2, <1>4, <2>1, Zenon
<1>5. \A m \in Nodes : m # n => e[m][Provider] = l[m][Provider]
  BY <1>2, Zenon
<1>6. LinkOK(e)
  BY <1>2, <1>3, <1>4, <1>5, Zenon DEF LinkOK
<1> QED BY <1>2, <1>4, <1>5, <1>6, Zenon DEF ListPosted

MailTaken(e, l, n, s) ==
  /\ LinkOK(e) /\ \A m \in Nodes : e[m][Provider] = l[m][Provider]
  /\ Head(l[n][s]) \in Mails
  /\ MailPlus(l, e, n, Head(l[n][s]))
  /\ \A m \in Nodes : m # n => MailOf(e, m) = MailOf(l, m)
  /\ e[n][s] = Tail(l[n][s])
  /\ \A m, t \in Nodes : m # n \/ t # s => e[m][t] = l[m][t]

\* An agent takes a message of another.
LEMMA TakenMail ==
  ASSUME NEW l, LinkOK(l), NEW n \in Nodes, NEW s \in Nodes, l[n][s] # <<>>,
         NEW e, Sets(e, l, n, s, Tail(l[n][s]))
  PROVE  MailTaken(e, l, n, s)
<1>2. /\ DOMAIN e = Nodes /\ \A m \in Nodes : DOMAIN e[m] = Nodes \cup {Provider}
      /\ e[n][s] = Tail(l[n][s])
      /\ \A m \in Nodes : \A t \in Nodes \cup {Provider} : m # n \/ t # s => e[m][t] = l[m][t]
  BY Zenon DEF LinkOK, Sets
<1>3. /\ Tail(l[n][s]) \in Seq(Mails) /\ Head(l[n][s]) \in Mails
      /\ Contents(l[n][s]) = Plus(Contents(Tail(l[n][s])), Head(l[n][s]))
  <2>1. l[n][s] \in Seq(Mails)
    BY Zenon DEF LinkOK
  <2> QED BY <2>1, TailHolds, Zenon
<1>4. \A m \in Nodes : e[m][Provider] = l[m][Provider]
  BY <1>2, ProviderNoNode, Zenon
<1>5. LinkOK(e)
  BY <1>2, <1>3, <1>4, Zenon DEF LinkOK
<1>7. MailPlus(l, e, n, Head(l[n][s]))
  <2>1. \A u \in Nodes : u # s => l[n][u] = e[n][u]
    BY <1>2, Zenon
  <2>2. Contents(l[n][s]) = Plus(Contents(e[n][s]), Head(l[n][s]))
    BY <1>2, <1>3, Zenon
  <2>3. Adds(l, e, n, s, Head(l[n][s]))
    BY <2>1, <2>2, Zenon DEF Adds
  <2> QED BY <2>3, MailGrows, Zenon
<1>8. ASSUME NEW m \in Nodes, m # n PROVE MailOf(e, m) = MailOf(l, m)
  <2>1. \A u \in Nodes : e[m][u] = l[m][u]
    BY <1>2, <1>8, Zenon
  <2> QED BY <2>1, MailSame, Zenon
<1>9. ASSUME NEW m \in Nodes, NEW t \in Nodes, m # n \/ t # s PROVE e[m][t] = l[m][t]
  <2>1. t \in Nodes \cup {Provider}
    BY <1>9, Zenon
  <2> QED BY <1>2, <1>9, <2>1, Zenon
<1> QED BY <1>2, <1>3, <1>4, <1>5, <1>7, <1>8, <1>9, Zenon DEF MailTaken

ListTaken(e, l, n) ==
  /\ LinkOK(e) /\ Head(l[n][Provider]) \in Lists(n)
  /\ e[n][Provider] = Tail(l[n][Provider])
  /\ \A m \in Nodes : m # n => e[m][Provider] = l[m][Provider]
  /\ \A m, t \in Nodes : e[m][t] = l[m][t]

\* It takes a list of its provider.
LEMMA TakenList ==
  ASSUME NEW l, LinkOK(l), NEW n \in Nodes, l[n][Provider] # <<>>,
         NEW e, Sets(e, l, n, Provider, Tail(l[n][Provider]))
  PROVE  ListTaken(e, l, n)
<1>2. /\ DOMAIN e = Nodes /\ \A m \in Nodes : DOMAIN e[m] = Nodes \cup {Provider}
      /\ e[n][Provider] = Tail(l[n][Provider])
      /\ \A m \in Nodes : \A t \in Nodes \cup {Provider} :
           m # n \/ t # Provider => e[m][t] = l[m][t]
  BY Zenon DEF LinkOK, Sets
<1>3. Tail(l[n][Provider]) \in Seq(Lists(n)) /\ Head(l[n][Provider]) \in Lists(n)
  <2>1. l[n][Provider] \in Seq(Lists(n))
    BY Zenon DEF LinkOK
  <2> QED BY <2>1, TailHolds, Zenon
<1>4. ASSUME NEW m \in Nodes, NEW t \in Nodes PROVE e[m][t] = l[m][t]
  <2>1. t # Provider
    BY <1>4, ProviderNoNode, Zenon
  <2> QED BY <1>2, <1>4, <2>1, Zenon
<1>5. \A m \in Nodes : m # n => e[m][Provider] = l[m][Provider]
  BY <1>2, Zenon
<1>6. LinkOK(e)
  BY <1>2, <1>3, <1>4, <1>5, Zenon DEF LinkOK
<1> QED BY <1>2, <1>3, <1>4, <1>5, <1>6, Zenon DEF ListTaken

\* The messages of the providers.
LEMMA LetterKinds ==
  ASSUME NEW n, NEW msg \in Letters(n)
  PROVE  /\ msg.type = "Handshake" => msg = Handshake
         /\ msg.type = "Members" => msg.members \in NodeSets /\ msg = Members(msg.members)
         /\ msg.type = "memberLeave" =>
              msg.node \in Nodes /\ msg.node # n /\ msg = MemberLeave(msg.node)
BY DEF Letters, NodeSets, Handshake, Members, MemberLeave

LEMMA LettersApart ==
  /\ \A ms : Handshake # Members(ms) /\ Members(ms).members = ms
  /\ \A m : Handshake # MemberLeave(m) /\ MemberLeave(m).node = m
  /\ \A m, ms : Members(ms) # MemberLeave(m)
  /\ \A n : Handshake \in Letters(n)
  /\ \A n, ms : ms \in NodeSets => Members(ms) \in Letters(n)
  /\ \A n, m : m \in Nodes /\ m # n => MemberLeave(m) \in Letters(n)
<1>1. "Handshake" # "Members" /\ "Handshake" # "memberLeave" /\ "Members" # "memberLeave"
  OBVIOUS
<1>2. /\ Handshake.type = "Handshake"
      /\ \A ms : Members(ms).type = "Members" /\ Members(ms).members = ms
      /\ \A m : MemberLeave(m).type = "memberLeave" /\ MemberLeave(m).node = m
  BY Zenon DEF Handshake, Members, MemberLeave
<1>3. /\ \A n : Handshake \in Letters(n)
      /\ \A n, ms : ms \in NodeSets => Members(ms) \in Letters(n)
      /\ \A n, m : m \in Nodes /\ m # n => MemberLeave(m) \in Letters(n)
  BY Zenon DEF Letters, NodeSets
<1> QED BY <1>1, <1>2, <1>3, Zenon

\* The lists of members.
LEMMA ListKinds ==
  /\ \A n : \A list \in Lists(n) :
       /\ list.type = "Members" /\ list.members \in MemberSets(n)
       /\ list = Members(list.members)
  /\ \A n : \A ms \in MemberSets(n) : Members(ms) \in Lists(n) /\ Members(ms).members = ms
<1>1. \A ms : Members(ms).type = "Members" /\ Members(ms).members = ms
  BY Zenon DEF Members
<1> QED BY <1>1, Zenon DEF Lists

\* The messages of the agents.
LEMMA MailKinds ==
  ASSUME NEW msg \in Mails
  PROVE  /\ msg.type # "Members" /\ msg.pids \in SUBSET PIDs
         /\ msg.type \in {"ActorTopology", "Activation"} /\ ~IsNil(msg) =>
              msg \in News /\ msg.pids \in Known
         /\ msg.type = "Deactivation" =>
              \A p \in msg.pids : p \in PIDs /\ msg = Deactivation(p) /\ msg \in Ends
         /\ msg.type = "ActivationRequest" =>
              msg.call \in Calls /\ msg = ActivationRequest(msg.call) /\ msg \in Asks
<1>0. /\ "ActorTopology" # "Members" /\ "Activation" # "Members" /\ "Deactivation" # "Members"
      /\ "ActivationRequest" # "Members" /\ "ActorTopology" # "Deactivation"
      /\ "ActorTopology" # "ActivationRequest" /\ "Activation" # "Deactivation"
      /\ "Activation" # "ActivationRequest" /\ "Deactivation" # "ActivationRequest"
      /\ "ActorTopology" # "Activation"
  OBVIOUS
<1>1. ASSUME NEW ps \in Known, msg = Topology(ps) PROVE msg.type = "ActorTopology" /\ msg.pids = ps
  BY <1>1, Zenon DEF Topology
<1>2. ASSUME NEW p \in PIDs, msg = Activation(p) PROVE msg.type = "Activation" /\ msg.pids = {p}
  BY <1>2, Zenon DEF Activation
<1>3. ASSUME NEW p \in PIDs, msg = Deactivation(p) PROVE msg.type = "Deactivation" /\ msg.pids = {p}
  BY <1>3, Zenon DEF Deactivation
<1>4. ASSUME NEW c \in Calls, msg = ActivationRequest(c)
      PROVE  msg.type = "ActivationRequest" /\ msg.call = c /\ msg.pids = {PID(c.node, c.id)}
  BY <1>4, Zenon DEF ActivationRequest
<1>5. \A p \in PIDs : {p} \in Known
  BY Zenon DEF Known, OneEach
<1>6. \A c \in Calls : PID(c.node, c.id) \in PIDs
  BY ClusterAssumption, Zenon DEF PID, PIDs
<1>7. \A ps \in Known : ps \in SUBSET PIDs
  BY Zenon DEF Known
<1>8. CASE \E ps \in Known : msg = Topology(ps)
  BY <1>0, <1>1, <1>7, <1>8, Zenon DEF News
<1>9. CASE \E p \in PIDs : msg = Activation(p)
  BY <1>0, <1>2, <1>5, <1>9, Zenon DEF News
<1>10. CASE \E p \in PIDs : msg = Deactivation(p)
  BY <1>0, <1>3, <1>10, Zenon DEF Ends
<1>11. CASE \E c \in Calls : msg = ActivationRequest(c)
  BY <1>0, <1>4, <1>6, <1>11, Zenon DEF Asks
<1>12. CASE msg \in Blanks
  <2>1. msg.pids = {} /\ (msg.type = "Activation" \/ msg.type = "Deactivation")
    BY <1>12 DEF Blanks, Nil
  <2> QED BY <1>0, <2>1, Zenon DEF IsNil
<1> QED BY <1>8, <1>9, <1>10, <1>11, <1>12, Zenon DEF Mails, News, Ends, Asks

LEMMA MailsApart ==
  /\ \A p \in PIDs : /\ Activation(p) \in News /\ Activation(p).pids = {p}
                     /\ Activation(p).type = "Activation"
                     /\ Deactivation(p) \in Ends /\ Deactivation(p).pids = {p}
  /\ \A ps \in Known : /\ Topology(ps) \in News /\ Topology(ps).pids = ps
                       /\ Topology(ps).type = "ActorTopology"
  /\ \A c \in Calls : /\ ActivationRequest(c) \in Asks /\ ActivationRequest(c).call = c
                      /\ ActivationRequest(c).pids = {PID(c.node, c.id)}
  /\ \A x : /\ ~(x \in News /\ x \in Ends) /\ ~(x \in News /\ x \in Asks)
            /\ ~(x \in Ends /\ x \in Asks)
            /\ x \in News \/ x \in Ends \/ x \in Asks => x \in Mails
  /\ \A x \in Blanks : x \in Mails /\ x \notin News /\ x \notin Ends /\ x \notin Asks
<1>0. /\ "ActorTopology" # "Deactivation" /\ "ActorTopology" # "ActivationRequest"
      /\ "Activation" # "Deactivation" /\ "Activation" # "ActivationRequest"
      /\ "Deactivation" # "ActivationRequest"
  OBVIOUS
<1>1. /\ \A p : /\ Activation(p).type = "Activation" /\ Activation(p).pids = {p}
                /\ Deactivation(p).type = "Deactivation" /\ Deactivation(p).pids = {p}
      /\ \A ps : Topology(ps).type = "ActorTopology" /\ Topology(ps).pids = ps
      /\ \A c : /\ ActivationRequest(c).type = "ActivationRequest" /\ ActivationRequest(c).call = c
                /\ ActivationRequest(c).pids = {PID(c.node, c.id)}
  BY Zenon DEF Activation, Deactivation, Topology, ActivationRequest
<1>2. /\ \A x \in News : x.type = "ActorTopology" \/ x.type = "Activation"
      /\ \A x \in Ends : x.type = "Deactivation"
      /\ \A x \in Asks : x.type = "ActivationRequest"
  BY <1>1, ZenonT(40) DEF News, Ends, Asks
<1>3. \A x : /\ ~(x \in News /\ x \in Ends) /\ ~(x \in News /\ x \in Asks)
             /\ ~(x \in Ends /\ x \in Asks)
  BY <1>0, <1>2, Zenon
<1>4. /\ \A p \in PIDs : Activation(p) \in News /\ Deactivation(p) \in Ends
      /\ \A ps \in Known : Topology(ps) \in News
      /\ \A c \in Calls : ActivationRequest(c) \in Asks
      /\ \A x : x \in News \/ x \in Ends \/ x \in Asks => x \in Mails
  BY Zenon DEF News, Ends, Asks, Mails
<1>5. ASSUME NEW x \in Blanks
      PROVE  x \in Mails /\ x \notin News /\ x \notin Ends /\ x \notin Asks
  <2>1. x.pids = {} /\ (x.type = "Activation" \/ x.type = "Deactivation")
    BY DEF Blanks, Nil
  <2>2. \A p : x # Activation(p) /\ x # Deactivation(p)
    BY <1>1, <2>1, Zenon
  <2>3. (\A ps : x # Topology(ps)) /\ \A c : x # ActivationRequest(c)
    <3>1. "ActorTopology" # "Activation"
      OBVIOUS
    <3> QED BY <1>0, <1>1, <2>1, <3>1, Zenon
  <2> QED BY <2>2, <2>3, Zenon DEF Mails, News, Ends, Asks
<1> QED BY <1>1, <1>3, <1>4, <1>5, Zenon

-----------------------------------------------------------------------------
(* What is in the mail *)

\* News of the actor q, a deactivation of the id i, a request for c.
ToldBy(l, n, q) == \E msg \in MailOf(l, n) : msg \in News /\ q \in msg.pids
DeactsBy(l, n, i) == \E p \in PIDs : p.id = i /\ Deactivation(p) \in MailOf(l, n)
AskBy(l, n, s, c) == ActivationRequest(c) \in Contents(l[n][s])

\* At most one message of a queue is a request.
Alone(q) == \A j, k \in 1..Len(q) : q[j] \in Asks /\ q[k] \in Asks => j = k

NoAsk(q) == \A x \in Contents(q) : x \notin Asks

LEMMA AloneAppend ==
  ASSUME NEW q \in Seq(Mails), NEW msg \in Mails,
         (Alone(q) /\ msg \notin Asks) \/ NoAsk(q)
  PROVE  Alone(Append(q, msg))
<1> DEFINE p == Append(q, msg)
           e == Len(q)
<1>1. /\ e \in Nat /\ Len(p) = e + 1 /\ p[e + 1] = msg
      /\ \A k \in 1..e : p[k] = q[k]
      /\ \A k \in 1..(e + 1) : k \in 1..e \/ k = e + 1
  OBVIOUS
<1> HIDE DEF p, e
<1>2. ASSUME NEW j \in 1..(e + 1), NEW k \in 1..(e + 1), p[j] \in Asks, p[k] \in Asks PROVE j = k
  <2>1. CASE NoAsk(q)
    <3>1. \A i \in 1..e : q[i] \notin Asks
      BY <2>1, Zenon DEF NoAsk, Contents, e
    <3> QED BY <1>1, <1>2, <3>1, Zenon
  <2>2. CASE Alone(q) /\ msg \notin Asks
    <3>1. \A a, b \in 1..e : q[a] \in Asks /\ q[b] \in Asks => a = b
      BY <2>2, Zenon DEF Alone, e
    <3> QED BY <1>1, <1>2, <2>2, <3>1, Zenon
  <2> QED BY <2>1, <2>2, Zenon
<1> QED BY <1>1, <1>2, Zenon DEF Alone, p

LEMMA AloneTail ==
  ASSUME NEW q \in Seq(Mails), q # <<>>, Alone(q)
  PROVE  Alone(Tail(q)) /\ (Head(q) \in Asks => NoAsk(Tail(q)))
<1> DEFINE p == Tail(q)
           e == Len(p)
<1>1. /\ e \in Nat /\ Len(q) = e + 1 /\ Head(q) = q[1]
      /\ \A k \in 1..e : p[k] = q[k + 1] /\ k + 1 \in 1..(e + 1) /\ k + 1 # 1
      /\ 1 \in 1..(e + 1)
  OBVIOUS
<1> HIDE DEF p, e
<1>2. \A a, b \in 1..(e + 1) : q[a] \in Asks /\ q[b] \in Asks => a = b
  BY <1>1, Zenon DEF Alone
<1>3. ASSUME NEW j \in 1..e, NEW k \in 1..e, p[j] \in Asks, p[k] \in Asks PROVE j = k
  <2>1. j + 1 = k + 1
    BY <1>1, <1>2, <1>3, Zenon
  <2> QED BY <1>1, <2>1
<1>4. ASSUME Head(q) \in Asks, NEW k \in 1..e PROVE p[k] \notin Asks
  BY <1>1, <1>2, <1>4, Zenon
<1>5. Alone(p)
  BY <1>3, Zenon DEF Alone, e
<1>6. Head(q) \in Asks => NoAsk(p)
  BY <1>4, Zenon DEF NoAsk, Contents, e
<1> QED BY <1>5, <1>6, Zenon DEF p

\* A message more in the mail of some agents.
MailIs(e, l, ns, msg) ==
  \A m \in Nodes : \A x : x \in MailOf(e, m) <=> x \in MailOf(l, m) \/ (m \in ns /\ x = msg)

NewsSent(e, l, ns, ps) ==
  \A m \in Nodes : \A q : ToldBy(e, m, q) <=> ToldBy(l, m, q) \/ (m \in ns /\ q \in ps)
EndsSent(e, l, ns, id) ==
  \A m \in Nodes : \A i : DeactsBy(e, m, i) <=> DeactsBy(l, m, i) \/ (m \in ns /\ i = id)
ActsSent(e, l, ns, msg) ==
  \A m \in Nodes : \A q \in PIDs :
    Activation(q) \in MailOf(e, m) <=> Activation(q) \in MailOf(l, m) \/ (m \in ns /\ msg = Activation(q))

NewsSame(e, l) == \A m \in Nodes : \A q : ToldBy(e, m, q) <=> ToldBy(l, m, q)
EndsSame(e, l) == \A m \in Nodes : \A i : DeactsBy(e, m, i) <=> DeactsBy(l, m, i)
ActsSame(e, l) ==
  \A m \in Nodes : \A q \in PIDs : Activation(q) \in MailOf(e, m) <=> Activation(q) \in MailOf(l, m)
AsksSame(e, l) ==
  \A m, t \in Nodes : /\ Alone(l[m][t]) => Alone(e[m][t])
                      /\ \A c \in Calls : AskBy(e, m, t, c) <=> AskBy(l, m, t, c)

LEMMA NewsMail ==
  ASSUME NEW e, NEW l, NEW ns, NEW msg \in News, MailIs(e, l, ns, msg)
  PROVE  NewsSent(e, l, ns, msg.pids) /\ EndsSame(e, l) /\ ActsSent(e, l, ns, msg)
<1>1. \A m \in Nodes : \A x : x \in MailOf(e, m) <=> x \in MailOf(l, m) \/ (m \in ns /\ x = msg)
  BY Zenon DEF MailIs
<1>2. NewsSent(e, l, ns, msg.pids)
  BY <1>1 DEF NewsSent, ToldBy
<1>3. \A p \in PIDs : Deactivation(p) # msg
  BY MailsApart, Zenon
<1>4. EndsSame(e, l)
  BY <1>1, <1>3, Zenon DEF EndsSame, DeactsBy
<1>5. ActsSent(e, l, ns, msg)
  BY <1>1 DEF ActsSent
<1> QED BY <1>2, <1>4, <1>5, Zenon

LEMMA EndMail ==
  ASSUME NEW e, NEW l, NEW ns, NEW p \in PIDs, MailIs(e, l, ns, Deactivation(p))
  PROVE  NewsSame(e, l) /\ EndsSent(e, l, ns, p.id) /\ ActsSame(e, l)
<1>1. PICK msg : msg = Deactivation(p)
  BY Zenon
<1>2. \A m \in Nodes : \A x : x \in MailOf(e, m) <=> x \in MailOf(l, m) \/ (m \in ns /\ x = msg)
  BY <1>1 DEF MailIs
<1>3. msg \notin News /\ \A q \in PIDs : Activation(q) # msg
  BY <1>1, MailsApart, ZenonT(40)
<1>4. \A q \in PIDs : Deactivation(q) = msg => q = p
  <2>1. ASSUME NEW q \in PIDs, Deactivation(q) = msg PROVE q = p
    <3>1. Deactivation(q).pids = {q} /\ Deactivation(p).pids = {p}
      BY MailsApart, Zenon
    <3>2. {q} = {p}
      BY <1>1, <2>1, <3>1, Zenon
    <3> QED BY <3>2, Zenon
  <2> QED BY <2>1, Zenon
<1>5. NewsSame(e, l)
  BY <1>2, <1>3 DEF NewsSame, ToldBy
<1>6. ActsSame(e, l)
  BY <1>2, <1>3, Zenon DEF ActsSame
<1>7. EndsSent(e, l, ns, p.id)
  BY <1>1, <1>2, <1>4, Zenon DEF EndsSent, DeactsBy
<1> QED BY <1>5, <1>6, <1>7, Zenon

LEMMA AskMail ==
  ASSUME NEW e, NEW l, NEW ns, NEW msg \in Asks, MailIs(e, l, ns, msg)
  PROVE  NewsSame(e, l) /\ EndsSame(e, l) /\ ActsSame(e, l)
<1>1. \A m \in Nodes : \A x : x \in MailOf(e, m) <=> x \in MailOf(l, m) \/ (m \in ns /\ x = msg)
  BY Zenon DEF MailIs
<1>2. msg \notin News /\ \A q \in PIDs : Activation(q) # msg /\ Deactivation(q) # msg
  BY MailsApart, Zenon
<1>3. NewsSame(e, l)
  BY <1>1, <1>2 DEF NewsSame, ToldBy
<1>4. EndsSame(e, l)
  BY <1>1, <1>2, Zenon DEF EndsSame, DeactsBy
<1>5. ActsSame(e, l)
  BY <1>1, <1>2, Zenon DEF ActsSame
<1> QED BY <1>3, <1>4, <1>5, Zenon

LEMMA BlankMail ==
  ASSUME NEW e, NEW l, NEW ns, NEW msg \in Blanks, MailIs(e, l, ns, msg)
  PROVE  NewsSame(e, l) /\ EndsSame(e, l) /\ ActsSame(e, l)
<1>1. \A m \in Nodes : \A x : x \in MailOf(e, m) <=> x \in MailOf(l, m) \/ (m \in ns /\ x = msg)
  BY Zenon DEF MailIs
<1>2. msg \notin News /\ \A q \in PIDs : Activation(q) # msg /\ Deactivation(q) # msg
  BY MailsApart, Zenon
<1>3. NewsSame(e, l)
  BY <1>1, <1>2 DEF NewsSame, ToldBy
<1>4. EndsSame(e, l)
  BY <1>1, <1>2, Zenon DEF EndsSame, DeactsBy
<1>5. ActsSame(e, l)
  BY <1>1, <1>2, Zenon DEF ActsSame
<1> QED BY <1>3, <1>4, <1>5, Zenon

QueuesSame(e, l) == \A m, t \in Nodes : e[m][t] = l[m][t]

\* Queues between agents that are the same have the same mail.
LEMMA NoMail ==
  ASSUME NEW e, NEW l, QueuesSame(e, l)
  PROVE  NewsSame(e, l) /\ EndsSame(e, l) /\ ActsSame(e, l) /\ AsksSame(e, l)
<1>1. \A m \in Nodes : MailOf(e, m) = MailOf(l, m)
  BY MailSame, Zenon DEF QueuesSame
<1>2. NewsSame(e, l)
  BY <1>1, Zenon DEF NewsSame, ToldBy
<1>3. EndsSame(e, l)
  BY <1>1, Zenon DEF EndsSame, DeactsBy
<1>4. ActsSame(e, l)
  BY <1>1, Zenon DEF ActsSame
<1>5. AsksSame(e, l)
  BY Zenon DEF AsksSame, AskBy, QueuesSame
<1> QED BY <1>2, <1>3, <1>4, <1>5, Zenon

\* Other messages leave the requests alone.
LEMMA PostAsks ==
  ASSUME NEW e, NEW l, NEW ns, NEW s \in Nodes, NEW msg \in Mails, msg \notin Asks,
         LinkOK(l), AllPosted(e, l, ns, s, msg)
  PROVE  AsksSame(e, l)
<1>1. \A m, t \in Nodes : l[m][t] \in Seq(Mails)
  BY Zenon DEF LinkOK
<1>2. \A m, t \in Nodes : e[m][t] = l[m][t] \/ e[m][t] = Append(l[m][t], msg)
  BY Zenon DEF AllPosted
<1>3. ASSUME NEW m \in Nodes, NEW t \in Nodes
      PROVE  /\ Alone(l[m][t]) => Alone(e[m][t])
             /\ \A c \in Calls : AskBy(e, m, t, c) <=> AskBy(l, m, t, c)
  <2>1. CASE e[m][t] = l[m][t]
    BY <2>1, Zenon DEF AskBy
  <2>2. CASE e[m][t] = Append(l[m][t], msg)
    <3>1. l[m][t] \in Seq(Mails)
      BY <1>1, <1>3, Zenon
    <3>2. Contents(Append(l[m][t], msg)) = Plus(Contents(l[m][t]), msg)
      BY <3>1, AppendHolds, Zenon
    <3>3. Alone(l[m][t]) => Alone(Append(l[m][t], msg))
      BY <3>1, AloneAppend, Zenon
    <3>4. \A c \in Calls : ActivationRequest(c) # msg
      BY MailsApart, ZenonT(40)
    <3>5. Alone(l[m][t]) => Alone(e[m][t])
      BY <2>2, <3>3, Zenon
    <3>6. \A c \in Calls : AskBy(e, m, t, c) <=> AskBy(l, m, t, c)
      BY <2>2, <3>2, <3>4 DEF AskBy, Plus
    <3> QED BY <3>5, <3>6, Zenon
  <2> QED BY <1>2, <1>3, <2>1, <2>2, Zenon
<1> QED BY <1>3, Zenon DEF AsksSame

LEMMA TakeAsks ==
  ASSUME NEW e, NEW l, NEW n \in Nodes, NEW s \in Nodes, LinkOK(l), l[n][s] # <<>>,
         MailTaken(e, l, n, s), Head(l[n][s]) \notin Asks
  PROVE  AsksSame(e, l)
<1>1. l[n][s] \in Seq(Mails)
  BY Zenon DEF LinkOK
<1>2. e[n][s] = Tail(l[n][s]) /\ \A m, t \in Nodes : m # n \/ t # s => e[m][t] = l[m][t]
  BY Zenon DEF MailTaken
<1>3. ASSUME NEW m \in Nodes, NEW t \in Nodes
      PROVE  /\ Alone(l[m][t]) => Alone(e[m][t])
             /\ \A c \in Calls : AskBy(e, m, t, c) <=> AskBy(l, m, t, c)
  <2>1. CASE m # n \/ t # s
    BY <1>2, <1>3, <2>1, Zenon DEF AskBy
  <2>2. CASE m = n /\ t = s
    <3>2. Contents(l[n][s]) = Plus(Contents(Tail(l[n][s])), Head(l[n][s]))
      BY <1>1, TailHolds, Zenon
    <3>3. Alone(l[n][s]) => Alone(Tail(l[n][s]))
      BY <1>1, AloneTail, Zenon
    <3>4. \A c \in Calls : ActivationRequest(c) # Head(l[n][s])
      BY MailsApart, ZenonT(40)
    <3> QED BY <1>2, <2>2, <3>2, <3>3, <3>4, Zenon DEF AskBy, Plus
  <2> QED BY <2>1, <2>2, Zenon
<1> QED BY <1>3, Zenon DEF AsksSame

LEMMA PostedIs ==
  ASSUME NEW e, NEW l, NEW ns, NEW s, NEW msg, AllPosted(e, l, ns, s, msg)
  PROVE  MailIs(e, l, ns, msg)
<1>1. /\ \A m \in Nodes : m \in ns => MailPlus(e, l, m, msg)
      /\ \A m \in Nodes : m \notin ns => MailOf(e, m) = MailOf(l, m)
  BY Zenon DEF AllPosted
<1>2. ASSUME NEW m \in Nodes, NEW x
      PROVE  x \in MailOf(e, m) <=> x \in MailOf(l, m) \/ (m \in ns /\ x = msg)
  <2>1. CASE m \in ns
    BY <1>1, <1>2, <2>1, Zenon DEF MailPlus
  <2>2. CASE m \notin ns
    BY <1>1, <1>2, <2>2, Zenon
  <2> QED BY <2>1, <2>2, Zenon
<1> QED BY <1>2, Zenon DEF MailIs

LEMMA TakenIs ==
  ASSUME NEW e, NEW l, NEW n \in Nodes, NEW s, MailTaken(e, l, n, s)
  PROVE  MailIs(l, e, {n}, Head(l[n][s]))
<1>1. PICK msg : msg = Head(l[n][s])
  BY Zenon
<1>2. MailPlus(l, e, n, msg) /\ \A m \in Nodes : m # n => MailOf(e, m) = MailOf(l, m)
  BY <1>1, Zenon DEF MailTaken
<1>3. ASSUME NEW m \in Nodes, NEW x
      PROVE  x \in MailOf(l, m) <=> x \in MailOf(e, m) \/ (m \in {n} /\ x = msg)
  <2>1. CASE m = n
    BY <1>2, <1>3, <2>1, Zenon DEF MailPlus
  <2>2. CASE m # n
    BY <1>2, <1>3, <2>2, Zenon
  <2> QED BY <2>1, <2>2, Zenon
<1>4. MailIs(l, e, {n}, msg)
  BY <1>3, Zenon DEF MailIs
<1> QED BY <1>1, <1>4, Zenon

-----------------------------------------------------------------------------
(* The queues of the providers *)

PlinkPlus(e, l, n, s, x) ==
  \A m, t \in Nodes : \A y : Holds(e[m][t], y) <=> Holds(l[m][t], y) \/ (m = n /\ t = s /\ y = x)

\* A message is sent to a provider.
LEMMA PlinkPost ==
  ASSUME NEW l, PlinkOK(l), NEW n \in Nodes, NEW s \in Nodes, NEW x \in Letters(n)
  PROVE  PlinkOK(Post(l, n, s, x)) /\ PlinkPlus(Post(l, n, s, x), l, n, s, x)
<1>1. PICK e : e = Post(l, n, s, x)
  BY Zenon
<1>2. n \in DOMAIN l /\ s \in DOMAIN l[n] /\ l[n][s] \in Seq(Letters(n))
  BY Zenon DEF PlinkOK
<1>3. Sets(e, l, n, s, Append(l[n][s], x))
  BY <1>1, <1>2, Except, Zenon DEF Post
<1>4. /\ DOMAIN e = Nodes /\ \A m \in Nodes : DOMAIN e[m] = Nodes
      /\ e[n][s] = Append(l[n][s], x)
      /\ \A m, t \in Nodes : m # n \/ t # s => e[m][t] = l[m][t]
  BY <1>3, Zenon DEF PlinkOK, Sets
<1>5. /\ Append(l[n][s], x) \in Seq(Letters(n))
      /\ HoldsPlus(Append(l[n][s], x), l[n][s], x)
  BY <1>2, AppendHolds, Zenon
<1>6. \A m, t \in Nodes : (m = n /\ t = s) \/ e[m][t] = l[m][t]
  BY <1>4, Zenon
<1>7. PlinkOK(e)
  BY <1>4, <1>5, <1>6, Zenon DEF PlinkOK
<1>8. PlinkPlus(e, l, n, s, x)
  <2>1. ASSUME NEW m \in Nodes, NEW t \in Nodes, NEW y
        PROVE  Holds(e[m][t], y) <=> Holds(l[m][t], y) \/ (m = n /\ t = s /\ y = x)
    <3>1. CASE m = n /\ t = s
      BY <1>4, <1>5, <3>1, Zenon DEF HoldsPlus
    <3>2. CASE ~(m = n /\ t = s)
      BY <1>6, <2>1, <3>2, Zenon
    <3> QED BY <3>1, <3>2, Zenon
  <2> QED BY <2>1, Zenon DEF PlinkPlus
<1> QED BY <1>1, <1>7, <1>8, Zenon

\* A provider takes a message.
LEMMA PlinkTake ==
  ASSUME NEW l, PlinkOK(l), NEW n \in Nodes, NEW s \in Nodes, l[n][s] # <<>>
  PROVE  /\ PlinkOK([l EXCEPT ![n][s] = Tail(l[n][s])])
         /\ PlinkPlus(l, [l EXCEPT ![n][s] = Tail(l[n][s])], n, s, Head(l[n][s]))
         /\ Head(l[n][s]) \in Letters(n)
<1>1. PICK e : e = [l EXCEPT ![n][s] = Tail(l[n][s])]
  BY Zenon
<1>2. n \in DOMAIN l /\ s \in DOMAIN l[n] /\ l[n][s] \in Seq(Letters(n))
  BY Zenon DEF PlinkOK
<1>3. Sets(e, l, n, s, Tail(l[n][s]))
  BY <1>1, <1>2, Except, Zenon
<1>4. /\ DOMAIN e = Nodes /\ \A m \in Nodes : DOMAIN e[m] = Nodes
      /\ e[n][s] = Tail(l[n][s])
      /\ \A m, t \in Nodes : m # n \/ t # s => e[m][t] = l[m][t]
  BY <1>3, Zenon DEF PlinkOK, Sets
<1>5. /\ Tail(l[n][s]) \in Seq(Letters(n)) /\ Head(l[n][s]) \in Letters(n)
      /\ HoldsPlus(l[n][s], Tail(l[n][s]), Head(l[n][s]))
  BY <1>2, TailHolds, Zenon
<1>6. \A m, t \in Nodes : (m = n /\ t = s) \/ e[m][t] = l[m][t]
  BY <1>4, Zenon
<1>7. PlinkOK(e)
  BY <1>4, <1>5, <1>6, Zenon DEF PlinkOK
<1>8. PlinkPlus(l, e, n, s, Head(l[n][s]))
  <2>1. ASSUME NEW m \in Nodes, NEW t \in Nodes, NEW y
        PROVE  Holds(l[m][t], y) <=> Holds(e[m][t], y) \/ (m = n /\ t = s /\ y = Head(l[n][s]))
    <3>1. CASE m = n /\ t = s
      BY <1>4, <1>5, <3>1, Zenon DEF HoldsPlus
    <3>2. CASE ~(m = n /\ t = s)
      BY <1>6, <2>1, <3>2, Zenon
    <3> QED BY <3>1, <3>2, Zenon
  <2> QED BY <2>1, Zenon DEF PlinkPlus
<1> QED BY <1>1, <1>5, <1>7, <1>8, Zenon

\* A provider that starts again shakes hands with its bootstrap members.
LEMMA PlinkGreet ==
  ASSUME NEW l, PlinkOK(l), NEW ns, NEW s \in Nodes
  PROVE  /\ PlinkOK(PostAll(l, ns, s, Handshake))
         /\ \A m, t \in Nodes : \A y : Holds(PostAll(l, ns, s, Handshake)[m][t], y) =>
              Holds(l[m][t], y) \/ y = Handshake
<1>1. PICK e : e = PostAll(l, ns, s, Handshake)
  BY Zenon
<1>2. /\ DOMAIN e = Nodes
      /\ \A m \in Nodes : e[m] = IF m \in ns THEN [l[m] EXCEPT ![s] = Append(l[m][s], Handshake)]
                                 ELSE l[m]
  BY <1>1, Zenon DEF PostAll
<1>3. ASSUME NEW m \in Nodes, NEW t \in Nodes
      PROVE  DOMAIN e[m] = Nodes /\ (e[m][t] = l[m][t] \/ e[m][t] = Append(l[m][t], Handshake))
  <2>1. DOMAIN l[m] = Nodes
    BY <1>3, Zenon DEF PlinkOK
  <2> QED BY <1>2, <1>3, <2>1, Zenon
<1>4. ASSUME NEW m \in Nodes, NEW t \in Nodes
      PROVE  /\ l[m][t] \in Seq(Letters(m)) /\ Append(l[m][t], Handshake) \in Seq(Letters(m))
             /\ HoldsPlus(Append(l[m][t], Handshake), l[m][t], Handshake)
  <2>1. l[m][t] \in Seq(Letters(m)) /\ Handshake \in Letters(m)
    BY <1>4, LettersApart, Zenon DEF PlinkOK
  <2> QED BY <2>1, AppendHolds, Zenon
<1>5. PlinkOK(e)
  <2>1. ASSUME NEW m \in Nodes, NEW t \in Nodes PROVE e[m][t] \in Seq(Letters(m))
    BY <1>3, <1>4, <2>1, Zenon
  <2> QED BY <1>2, <1>3, <2>1, Zenon DEF PlinkOK
<1>6. ASSUME NEW m \in Nodes, NEW t \in Nodes, NEW y, Holds(e[m][t], y)
      PROVE  Holds(l[m][t], y) \/ y = Handshake
  <2>1. CASE e[m][t] = l[m][t]
    BY <1>6, <2>1, Zenon
  <2>2. CASE e[m][t] = Append(l[m][t], Handshake)
    BY <1>4, <1>6, <2>2, Zenon DEF HoldsPlus
  <2> QED BY <1>3, <2>1, <2>2, Zenon
<1> QED BY <1>1, <1>5, <1>6, Zenon

\* Messages to a provider are lost.
LEMMA PlinkLose ==
  ASSUME NEW l, PlinkOK(l), NEW n \in Nodes, NEW s \in Nodes
  PROVE  /\ PlinkOK([l EXCEPT ![n][s] = <<>>])
         /\ \A m, t \in Nodes : \A y :
              Holds([l EXCEPT ![n][s] = <<>>][m][t], y) => Holds(l[m][t], y)
<1>1. PICK e : e = [l EXCEPT ![n][s] = <<>>]
  BY Zenon
<1>2. n \in DOMAIN l /\ s \in DOMAIN l[n] /\ l[n][s] \in Seq(Letters(n))
  BY Zenon DEF PlinkOK
<1>3. Sets(e, l, n, s, <<>>)
  BY <1>1, <1>2, Except, Zenon
<1>4. /\ DOMAIN e = Nodes /\ \A m \in Nodes : DOMAIN e[m] = Nodes
      /\ e[n][s] = <<>>
      /\ \A m, t \in Nodes : m # n \/ t # s => e[m][t] = l[m][t]
  BY <1>3, Zenon DEF PlinkOK, Sets
<1>5. <<>> \in Seq(Letters(n)) /\ \A y : ~Holds(<<>>, y)
  BY DEF Holds
<1>6. \A m, t \in Nodes : (m = n /\ t = s) \/ e[m][t] = l[m][t]
  BY <1>4, Zenon
<1>7. PlinkOK(e)
  BY <1>4, <1>5, <1>6, Zenon DEF PlinkOK
<1>8. ASSUME NEW m \in Nodes, NEW t \in Nodes, NEW y, Holds(e[m][t], y) PROVE Holds(l[m][t], y)
  <2>1. ~(m = n /\ t = s)
    BY <1>4, <1>5, <1>8, Zenon
  <2>2. e[m][t] = l[m][t]
    BY <1>6, <1>8, <2>1, Zenon
  <2> QED BY <1>8, <2>2, Zenon
<1> QED BY <1>1, <1>7, <1>8, Zenon

-----------------------------------------------------------------------------
(* Membership *)

Justified(n, m) == <<n, m>> \in unreachable \/ "restart" \in race

\* From the members of an agent to each list under way, and from list to list,
\* the member m does not disappear.
Chain(q, ms, m) ==
  \A k \in 1..Len(q) :
    /\ m \in ms => m \in q[k].members
    /\ \A j \in 1..(k - 1) : m \in q[j].members => m \in q[k].members

\* The members that the agent has when it has taken all lists.
Latest(q, ms) == IF q = <<>> THEN ms ELSE q[Len(q)].members

ChainGrows(p, q, ms, list) ==
  /\ Latest(p, ms) = list.members
  /\ \A m : Chain(q, ms, m) /\ (m \in Latest(q, ms) => m \in list.members) => Chain(p, ms, m)

LEMMA ChainAppend ==
  ASSUME NEW S, NEW q \in Seq(S), NEW ms, NEW list \in S
  PROVE  ChainGrows(Append(q, list), q, ms, list)
<1> DEFINE p == Append(q, list)
           e == Len(q)
<1>1. /\ p \in Seq(S) /\ p # <<>> /\ e \in Nat /\ Len(p) = e + 1 /\ p[e + 1] = list
      /\ \A k \in 1..e : p[k] = q[k]
      /\ q = <<>> <=> e = 0
  OBVIOUS
<1> HIDE DEF p, e
<1>2. Latest(p, ms) = list.members
  BY <1>1, Zenon DEF Latest
<1>3. ASSUME NEW m, Chain(q, ms, m), m \in Latest(q, ms) => m \in list.members
      PROVE  Chain(p, ms, m)
  <2>1. \A k \in 1..e : /\ m \in ms => m \in q[k].members
                        /\ \A j \in 1..(k - 1) : m \in q[j].members => m \in q[k].members
    BY <1>3, Zenon DEF Chain, e
  <2>2. Latest(q, ms) = IF e = 0 THEN ms ELSE q[e].members
    BY <1>1, Zenon DEF Latest, e
  <2>3. m \in ms => m \in Latest(q, ms)
    BY <1>1, <2>1, <2>2
  <2>4. \A j \in 1..e : m \in q[j].members => m \in Latest(q, ms)
    <3>1. ASSUME NEW j \in 1..e, m \in q[j].members PROVE m \in Latest(q, ms)
      <4>1. e # 0 /\ (j = e \/ j \in 1..(e - 1)) /\ e \in 1..e
        BY <1>1
      <4>2. m \in q[e].members
        BY <2>1, <3>1, <4>1, Zenon
      <4> QED BY <2>2, <4>1, <4>2, Zenon
    <3> QED BY <3>1, Zenon
  <2>5. ASSUME NEW k \in 1..(e + 1)
        PROVE  /\ m \in ms => m \in p[k].members
               /\ \A j \in 1..(k - 1) : m \in p[j].members => m \in p[k].members
    <3>1. CASE k \in 1..e
      <4>1. \A j \in 1..(k - 1) : p[j] = q[j]
        BY <1>1, <3>1
      <4> QED BY <1>1, <2>1, <3>1, <4>1, Zenon
    <3>2. CASE k = e + 1
      <4>1. \A j \in 1..(k - 1) : p[j] = q[j] /\ j \in 1..e
        BY <1>1, <3>2
      <4> QED BY <1>1, <1>3, <2>3, <2>4, <3>2, <4>1, Zenon
    <3>3. k \in 1..e \/ k = e + 1
      BY <1>1
    <3> QED BY <3>1, <3>2, <3>3, Zenon
  <2> QED BY <1>1, <2>5, Zenon DEF Chain
<1> QED BY <1>2, <1>3, Zenon DEF p, ChainGrows

ChainShrinks(p, q, ms, list) ==
  /\ Latest(p, list.members) = Latest(q, ms)
  /\ \A m : Chain(q, ms, m) => Chain(p, list.members, m) /\ (m \in ms => m \in list.members)

LEMMA ChainTail ==
  ASSUME NEW S, NEW q \in Seq(S), q # <<>>, NEW ms
  PROVE  ChainShrinks(Tail(q), q, ms, Head(q))
<1> DEFINE p == Tail(q)
           e == Len(p)
<1>1. /\ p \in Seq(S) /\ e \in Nat /\ Len(q) = e + 1 /\ Head(q) = q[1]
      /\ \A k \in 1..e : p[k] = q[k + 1]
  OBVIOUS
<1> HIDE DEF p
<1>4. p = <<>> <=> e = 0
  BY <1>1
<1> HIDE DEF e
<1>2. Latest(p, Head(q).members) = Latest(q, ms)
  <2>1. Latest(q, ms) = q[e + 1].members
    BY <1>1, Zenon DEF Latest
  <2>2. CASE e = 0
    <3>1. q[e + 1] = q[1]
      BY <2>2
    <3> QED BY <1>1, <1>4, <2>1, <2>2, <3>1, Zenon DEF Latest
  <2>3. CASE e # 0
    <3>1. p[e] = q[e + 1] /\ p # <<>>
      BY <1>1, <1>4, <2>3
    <3> QED BY <2>1, <3>1, Zenon DEF Latest, e
  <2> QED BY <2>2, <2>3, Zenon
<1>3. ASSUME NEW m, Chain(q, ms, m)
      PROVE  Chain(p, Head(q).members, m) /\ (m \in ms => m \in Head(q).members)
  <2>1. \A k \in 1..(e + 1) :
          /\ m \in ms => m \in q[k].members
          /\ \A j \in 1..(k - 1) : m \in q[j].members => m \in q[k].members
    BY <1>1, <1>3, Zenon DEF Chain
  <2>2. ASSUME NEW k \in 1..e
        PROVE  /\ m \in q[1].members => m \in p[k].members
               /\ \A j \in 1..(k - 1) : m \in p[j].members => m \in p[k].members
    <3>1. /\ k + 1 \in 1..(e + 1) /\ 1 \in 1..((k + 1) - 1) /\ p[k] = q[k + 1]
          /\ \A j \in 1..(k - 1) : j + 1 \in 1..((k + 1) - 1) /\ p[j] = q[j + 1]
      BY <1>1
    <3> QED BY <2>1, <3>1, Zenon
  <2>3. 1 \in 1..(e + 1)
    BY <1>1
  <2> QED BY <1>1, <2>1, <2>2, <2>3, Zenon DEF Chain, e
<1> QED BY <1>2, <1>3, Zenon DEF p, ChainShrinks

\* The lists on their way to an agent lead from its members to those of its
\* provider, and only members disappear that may.  An agent that has been
\* restarted has no members until its provider sends another list.
Views ==
  /\ \A n, s, m \in Nodes : Holds(plink[n][s], MemberLeave(m)) => <<n, m>> \in unreachable
  /\ \A n, m \in Nodes : ~Justified(n, m) => Chain(link[n][Provider], agent[n].members, m)
  /\ \A n \in Nodes :
       \/ Latest(link[n][Provider], agent[n].members) = provider[n]
       \/ panics[n].agent # 0 /\ Latest(link[n][Provider], agent[n].members) = {}

\* A handshake is on its way, or has been taken and its answer is on its way, or
\* has been taken too.
Joining ==
  unreachable = {} => \A n \in Nodes : \A m \in Bootstrap[n] :
    \/ Holds(plink[m][n], Handshake)
    \/ /\ n \in provider[m]
       /\ \/ m \in provider[n]
          \/ \E ms \in SUBSET Nodes : m \in ms /\ Holds(plink[n][m], Members(ms))

KindsInv ==
  \A n \in Nodes :
    /\ KindsOf(agent[n].members \cup {n}) \subseteq agent[n].kinds
    /\ panics[n].agent = 0 => agent[n].kinds = KindsOf(agent[n].members \cup {n})

\* A provider panics only about a member that is lost.
Calm ==
  \A n \in Nodes :
    /\ panics[n].agent # 0 => "panic" \in race
    /\ panics[n].provider # 0 => "restart" \in race /\ unreachable # {}

-----------------------------------------------------------------------------
(* Activation *)

\* A deactivation of the id is under way.
Deacts(n, i) == DeactsBy(link, n, i)
Ending(i) == (\E n \in Nodes : Deacts(n, i)) \/ (\E p \in poisoned : p.id = i)

\* An activation of the id is under way, and not announced yet.
Starting(i) ==
  \/ \E n \in Nodes : agent[n].waiting # None /\ agent[n].waiting.id = i
  \/ \E w \in spawning : w.pid.id = i

\* The news of an actor on its way to n.
Told(n, q) == ToldBy(link, n, q)
Knows(n, q) == q \in agent[n].activated \/ Told(n, q)
Informed(n, i) == \E q \in PIDs : q.id = i /\ Knows(n, q)

\* None of the races that make an agent miss something.
Mild == race \subseteq {"apart"} /\ unreachable = {}

\* A request is the only one of its sender, which waits for its answer.
Asking ==
  /\ \A n, s \in Nodes : Alone(link[n][s])
  /\ \A n, s \in Nodes : \A c \in Calls : AskBy(link, n, s, c) =>
       /\ s = c.node /\ agent[s].waiting = c /\ n \in agent[s].members
       /\ \A r \in replies : r.call # c
       /\ \A m \in Nodes : \A d \in Calls : AskBy(link, m, s, d) => m = n
  /\ \A r \in replies :
       /\ agent[r.call.node].waiting = r.call
       /\ r.pid.id = r.call.id /\ r.pid.host \in agent[r.call.node].members
       /\ r.success => r.pid \in actors
       /\ \A t \in replies : t.call = r.call => t = r

\* The members that a Spawn has been given are still those of its agent.
SpawningInv ==
  \A w \in spawning :
    /\ w.pid \in actors
    /\ w.members # None =>
         w.members = agent[w.pid.host].members /\ w.pid.host \in w.members

\* Once an actor is deactivated, all agents are told, and nobody tells them
\* otherwise.
EndingInv ==
  \A i \in Ids : Ending(i) =>
    /\ ~Starting(i)
    /\ \A n \in Nodes : agent[n].members = Nodes
    /\ \A n \in Nodes : \A q \in PIDs : q.id = i =>
         /\ ~Told(n, q)
         /\ q \in agent[n].activated => Deacts(n, i)
    /\ \A p \in actors : p.id = i => p \in poisoned \/ Deacts(p.host, i)

\* What agents know of is running.
Valid == \A n \in Nodes : \A q \in PIDs : Knows(n, q) => q \in actors \/ Ending(q.id)

\* Who announces an actor: an agent that waits for the response, the Spawn on
\* its node, or an agent that has told all its members, itself included.
ByReply(p) == \E r \in replies : r.success /\ r.pid = p
BySpawn(p) == \E w \in spawning : w.pid = p
ByAgent(p) ==
  \E a \in Nodes :
    /\ p.host \in agent[a].members
    /\ \A n \in agent[a].members : Informed(n, p.id)
    /\ \E q \in PIDs : q.id = p.id /\ (q \in agent[a].activated \/ Activation(q) \in Mail(a))
Reported(p) == ByReply(p) \/ BySpawn(p) \/ ByAgent(p)

Announced == \A p \in actors : Reported(p) \/ Ending(p.id)

Sound == Asking /\ SpawningInv /\ EndingInv /\ Valid /\ Announced
MildInv == Mild => Sound

\* Before the response to a request nobody has the id.
Single ==
  /\ \A n, m \in Nodes : agent[n].waiting # None /\ agent[m].waiting # None
       /\ agent[n].waiting.id = agent[m].waiting.id => n = m
  /\ \A n, s \in Nodes : \A c \in Calls : AskBy(link, n, s, c) =>
       \A p \in actors : p.id # c.id
  /\ Unique

SingleInv == race = {} /\ unreachable = {} => Single

IInv == Typed /\ Views /\ Joining /\ KindsInv /\ Calm /\ MildInv /\ SingleInv

-----------------------------------------------------------------------------
(* Steps of a provider *)

\* The members of a provider change, and its agent is sent the list.
LEMMA SetsMembers ==
  ASSUME Typed, NEW n \in Nodes, NEW ms \in MemberSets(n), SetMembers(n, ms)
  PROVE  /\ provider' \in [Nodes -> NodeSets] /\ \A m \in Nodes : m \in provider'[m]
         /\ provider'[n] = ms /\ \A m \in Nodes : m # n => provider'[m] = provider[m]
         /\ LinkOK(link') /\ link'[n][Provider] = Append(link[n][Provider], Members(ms))
         /\ \A m \in Nodes : m # n => link'[m][Provider] = link[m][Provider]
         /\ \A m, t \in Nodes : link'[m][t] = link[m][t]
<1>1. /\ provider' = [provider EXCEPT ![n] = ms]
      /\ link' = [link EXCEPT ![n][Provider] = Append(link[n][Provider], Members(ms))]
  BY Zenon DEF SetMembers, Post
<1>2. ms \in NodeSets /\ n \in ms /\ Members(ms) \in Lists(n)
  BY ListKinds, Zenon DEF MemberSets, NodeSets
<1>3. provider \in [Nodes -> NodeSets] /\ \A m \in Nodes : m \in provider[m]
  BY Zenon DEF Typed
<1>4. /\ provider' \in [Nodes -> NodeSets] /\ provider'[n] = ms
      /\ \A m \in Nodes : m # n => provider'[m] = provider[m]
  BY <1>1, <1>2, <1>3, Zenon
<1>5. \A m \in Nodes : m \in provider'[m]
  BY <1>2, <1>3, <1>4, Zenon
<1>6. LinkOK(link) /\ n \in DOMAIN link /\ Provider \in DOMAIN link[n]
  BY Zenon DEF Typed, LinkOK
<1>7. Sets(link', link, n, Provider, Append(link[n][Provider], Members(ms)))
  BY <1>1, <1>6, Except, Zenon
<1>8. PICK list \in Lists(n) : list = Members(ms)
  BY <1>2, Zenon
<1>9. Sets(link', link, n, Provider, Append(link[n][Provider], list))
  BY <1>7, <1>8, Zenon
<1>10. ListPosted(link', link, n, list)
  BY <1>6, <1>9, PostedList, Zenon
<1> QED BY <1>4, <1>5, <1>8, <1>10, Zenon DEF ListPosted

\* What the members of a provider may become.
ProviderMoves(n, ms) ==
  /\ SetMembers(n, ms) /\ PlinkOK(plink)' /\ race \subseteq race'
  /\ \A m \in Nodes : m \in provider[n] /\ m \notin ms => Justified(n, m)'
  /\ \A m, t, x \in Nodes : Holds(plink[m][t], MemberLeave(x))' => Holds(plink[m][t], MemberLeave(x))
  /\ actors' = actors /\ poisoned' = poisoned /\ spawning' = spawning

\* It has panicked once too often.
ProviderEnds(n) ==
  /\ provider' = provider /\ link' = link /\ PlinkOK(plink)' /\ race \subseteq race'
  /\ \A m, t, x \in Nodes : Holds(plink[m][t], MemberLeave(x))' => Holds(plink[m][t], MemberLeave(x))
  /\ ProgramEnds(n) /\ "restart" \in race'

\* The panics of the providers.
ProviderPanics ==
  /\ panics' \in [Nodes -> Counts]
  /\ \A m \in Nodes :
       /\ panics'[m].agent = panics[m].agent
       /\ panics'[m].provider # panics[m].provider => "restart" \in race' /\ unreachable # {}

LEMMA PanicCounts ==
  ASSUME Typed, NEW n \in Nodes, NEW who \in {"provider", "agent"}, Panic(n, who)
  PROVE  /\ panics' \in [Nodes -> Counts] /\ \A m \in Nodes : m # n => panics'[m] = panics[m]
         /\ panics'[n][who] # 0 /\ panics'[n][who] # panics[n][who]
         /\ \A x \in {"provider", "agent"} : x # who => panics'[n][x] = panics[n][x]
<1>1. /\ panics \in [Nodes -> Counts]
      /\ panics' = [panics EXCEPT ![n][who] = panics[n][who] + 1]
  BY Zenon DEF Typed, Panic
<1>2. panics[n] \in Counts /\ panics[n][who] \in Nat
  BY <1>1 DEF Counts
<1>3. PICK c : c = [panics[n] EXCEPT ![who] = panics[n][who] + 1]
  BY Zenon
<1>4. c \in Counts /\ c[who] = panics[n][who] + 1 /\ c[who] # 0 /\ c[who] # panics[n][who]
  BY <1>2, <1>3 DEF Counts
<1>5. \A x \in {"provider", "agent"} : x # who => c[x] = panics[n][x]
  BY <1>2, <1>3 DEF Counts
<1>6. panics' = [panics EXCEPT ![n] = c]
  BY <1>1, <1>3, Zenon
<1>7. /\ panics' \in [Nodes -> Counts] /\ panics'[n] = c
      /\ \A m \in Nodes : m # n => panics'[m] = panics[m]
  BY <1>1, <1>4, <1>6, Zenon
<1> QED BY <1>4, <1>5, <1>7, Zenon

LEMMA ProviderCounts ==
  ASSUME Typed, NEW n \in Nodes, Panic(n, Provider), "restart" \in race', unreachable # {}
  PROVE  ProviderPanics
<1>1. "provider" # "agent"
  OBVIOUS
<1>2. Panic(n, "provider")
  BY Zenon DEF Provider
<1>3. /\ panics' \in [Nodes -> Counts] /\ \A m \in Nodes : m # n => panics'[m] = panics[m]
      /\ panics'[n]["agent"] = panics[n]["agent"]
  BY <1>1, <1>2, PanicCounts, Zenon
<1> QED BY <1>3, Zenon DEF ProviderPanics

LEMMA ProviderReceives ==
  ASSUME Typed, Views, NEW n \in Nodes, NEW s \in Nodes, ProviderReceive(n, s)
  PROVE  ProviderPanics /\ ((\E ms \in MemberSets(n) : ProviderMoves(n, ms)) \/ ProviderEnds(n))
<1> DEFINE taken == [plink EXCEPT ![n][s] = Tail(plink[n][s])]
<1>1. PICK msg : msg = Head(plink[n][s])
  BY Zenon
<1>2. plink[n][s] # <<>> /\ unreachable' = unreachable
  BY Zenon DEF ProviderReceive
<1>3. PlinkOK(plink)
  BY Zenon DEF Typed
<1>4. PlinkOK(taken) /\ PlinkPlus(plink, taken, n, s, msg) /\ msg \in Letters(n)
  BY <1>1, <1>2, <1>3, PlinkTake, Zenon
<1>5. \A m, t \in Nodes : \A y : Holds(taken[m][t], y) => Holds(plink[m][t], y)
  BY <1>4, Zenon DEF PlinkPlus
<1>6. provider[n] \in NodeSets /\ n \in provider[n]
  BY Zenon DEF Typed
<1>7. \A ms : ms \in MemberSets(n) <=> ms \in NodeSets /\ n \in ms
  BY Zenon DEF MemberSets, NodeSets
<1>11. panics' = panics => ProviderPanics
  BY Zenon DEF ProviderPanics, Typed
<1> HIDE DEF taken
<1>8. CASE msg.type = "Handshake" /\ HandleHandshake(n, s)
  <2>1. PICK ms : ms = provider[n] \cup {s}
    BY Zenon
  <2>2. /\ SetMembers(n, ms) /\ plink' = Post(taken, s, n, Members(ms)) /\ race' = race
        /\ panics' = panics /\ actors' = actors /\ poisoned' = poisoned /\ spawning' = spawning
    BY <1>8, <2>1, Zenon DEF HandleHandshake, taken
  <2>3. ms \in MemberSets(n) /\ Members(ms) \in Letters(s)
    BY <1>6, <1>7, <2>1, LettersApart, Zenon DEF NodeSets
  <2>4. PlinkOK(plink') /\ PlinkPlus(plink', taken, s, n, Members(ms))
    BY <1>4, <2>2, <2>3, PlinkPost, Zenon
  <2>5. \A m, t, x \in Nodes : Holds(plink'[m][t], MemberLeave(x)) => Holds(plink[m][t], MemberLeave(x))
    BY <1>5, <2>4, LettersApart, ZenonT(40) DEF PlinkPlus
  <2>6. \A m \in Nodes : m \in provider[n] => m \in ms
    BY <2>1, Zenon
  <2> QED BY <1>11, <2>2, <2>3, <2>4, <2>5, <2>6, Zenon DEF ProviderMoves
<1>9. CASE msg.type = "Members" /\ HandleProviderMembers(n, s)
  <2>1. PICK ms : ms = provider[n] \cup msg.members
    BY Zenon
  <2>2. /\ SetMembers(n, ms) /\ plink' = taken /\ race' = race
        /\ panics' = panics /\ actors' = actors /\ poisoned' = poisoned /\ spawning' = spawning
    BY <1>1, <1>9, <2>1, Zenon DEF HandleProviderMembers, taken
  <2>3. ms \in MemberSets(n)
    BY <1>4, <1>6, <1>7, <1>9, <2>1, LetterKinds, Zenon DEF NodeSets
  <2>4. \A m \in Nodes : m \in provider[n] => m \in ms
    BY <2>1, Zenon
  <2> QED BY <1>4, <1>5, <1>11, <2>2, <2>3, <2>4, Zenon DEF ProviderMoves
<1>10. CASE msg.type = "memberLeave" /\ HandleMemberLeave(n, s)
  <2>1. PICK m : m = msg.node
    BY Zenon
  <2>2. m \in Nodes /\ m # n /\ msg = MemberLeave(m)
    BY <1>4, <1>10, <2>1, LetterKinds, Zenon
  <2>3. <<n, m>> \in unreachable
    <3>1. Holds(plink[n][s], MemberLeave(m))
      BY <1>4, <2>2, Zenon DEF PlinkPlus
    <3> QED BY <2>2, <3>1, Zenon DEF Views
  <2>4. CASE /\ m \in provider[n] /\ SetMembers(n, provider[n] \ {m}) /\ plink' = taken
             /\ race' = race /\ panics' = panics /\ actors' = actors
             /\ poisoned' = poisoned /\ spawning' = spawning
    <3>1. PICK ms : ms = provider[n] \ {m}
      BY Zenon
    <3>2. ms \in MemberSets(n)
      BY <1>6, <1>7, <2>2, <3>1, Zenon DEF NodeSets
    <3>3. \A x \in Nodes : x \in provider[n] /\ x \notin ms => Justified(n, x)'
      BY <1>2, <2>3, <3>1, Zenon DEF Justified
    <3> QED BY <1>4, <1>5, <1>11, <2>4, <3>1, <3>2, <3>3, Zenon DEF ProviderMoves
  <2>5. CASE /\ SetMembers(n, {n}) /\ plink' = PostAll(taken, Bootstrap[n], n, Handshake)
             /\ race' = race \cup {"restart"} /\ Panic(n, Provider)
             /\ actors' = actors /\ poisoned' = poisoned /\ spawning' = spawning
    <3>1. {n} \in MemberSets(n)
      BY <1>7, Zenon DEF NodeSets
    <3>2. /\ PlinkOK(plink')
          /\ \A k, t \in Nodes : \A y : Holds(plink'[k][t], y) => Holds(taken[k][t], y) \/ y = Handshake
      BY <1>4, <2>5, PlinkGreet, Zenon
    <3>3. \A k, t, x \in Nodes : Holds(plink'[k][t], MemberLeave(x)) => Holds(plink[k][t], MemberLeave(x))
      BY <1>5, <3>2, LettersApart, Zenon
    <3>4. \A x \in Nodes : Justified(n, x)'
      BY <2>5, Zenon DEF Justified
    <3>5. ProviderPanics
      BY <2>3, <2>5, ProviderCounts, Zenon
    <3> QED BY <2>5, <3>1, <3>2, <3>3, <3>4, <3>5, Zenon DEF ProviderMoves
  <2>6. CASE /\ Panic(n, Provider) /\ ProgramEnds(n) /\ plink' = taken
             /\ race' = race \cup {"restart"} /\ provider' = provider /\ link' = link
    <3>1. ProviderPanics
      BY <2>3, <2>6, ProviderCounts, Zenon
    <3> QED BY <1>4, <1>5, <2>6, <3>1, Zenon DEF ProviderEnds
  <2> QED BY <1>1, <1>10, <2>1, <2>4, <2>5, <2>6, Zenon DEF HandleMemberLeave, taken
<1> QED BY <1>1, <1>8, <1>9, <1>10, Zenon DEF ProviderReceive

\* The queues between the agents are as they were, and so is all that they know.
AgentsSame ==
  /\ agent' = agent /\ replies' = replies /\ actors' = actors /\ poisoned' = poisoned
  /\ spawning' = spawning /\ LinkOK(link')
  /\ \A m, t \in Nodes : link'[m][t] = link[m][t]

LEMMA ProviderSteps ==
  ASSUME Typed, Views, NEW n \in Nodes, NEW s \in Nodes, ProviderReceive(n, s),
         ProviderPanics, NEW ms \in MemberSets(n), ProviderMoves(n, ms)
  PROVE  Typed' /\ Views' /\ AgentsSame /\ unreachable' = unreachable /\ race \subseteq race'
<1>2. /\ SetMembers(n, ms) /\ PlinkOK(plink)' /\ race \subseteq race'
      /\ \A m \in Nodes : m \in provider[n] /\ m \notin ms => Justified(n, m)'
      /\ \A m, t, x \in Nodes : Holds(plink[m][t], MemberLeave(x))' => Holds(plink[m][t], MemberLeave(x))
      /\ actors' = actors /\ poisoned' = poisoned /\ spawning' = spawning
  BY Zenon DEF ProviderMoves
<1>3. /\ agent' = agent /\ replies' = replies /\ todo' = todo /\ unreachable' = unreachable
      /\ panics' \in [Nodes -> Counts] /\ \A m \in Nodes : panics'[m].agent = panics[m].agent
  BY Zenon DEF ProviderReceive, ProviderPanics
<1>4. /\ provider' \in [Nodes -> NodeSets] /\ \A m \in Nodes : m \in provider'[m]
      /\ provider'[n] = ms /\ \A m \in Nodes : m # n => provider'[m] = provider[m]
      /\ LinkOK(link') /\ link'[n][Provider] = Append(link[n][Provider], Members(ms))
      /\ \A m \in Nodes : m # n => link'[m][Provider] = link[m][Provider]
      /\ \A m, t \in Nodes : link'[m][t] = link[m][t]
  BY <1>2, SetsMembers, Zenon
<1>5. Typed'
  BY <1>2, <1>3, <1>4, Zenon DEF Typed
<1>6. AgentsSame
  BY <1>2, <1>3, <1>4, Zenon DEF AgentsSame
<1>7. \A k, m \in Nodes : ~Justified(k, m)' => ~Justified(k, m)
  BY <1>2, <1>3, Zenon DEF Justified
<1>8. \A k, t, m \in Nodes : Holds(plink[k][t], MemberLeave(m))' => <<k, m>> \in unreachable'
  BY <1>2, <1>3, Zenon DEF Views
<1>9. PICK q \in Seq(Lists(n)) : q = link[n][Provider]
  BY Zenon DEF Typed, LinkOK
<1>10. PICK list \in Lists(n) : list = Members(ms) /\ list.members = ms
  BY ListKinds, Zenon
<1>15. ChainGrows(Append(q, list), q, agent[n].members, list)
  BY <1>10, ChainAppend, Zenon
<1>11. /\ Latest(Append(q, list), agent[n].members) = list.members
       /\ \A m : Chain(q, agent[n].members, m)
                 /\ (m \in Latest(q, agent[n].members) => m \in list.members) =>
            Chain(Append(q, list), agent[n].members, m)
  BY <1>15, Zenon DEF ChainGrows
<1>12. \A k \in Nodes : \/ Latest(link'[k][Provider], agent[k].members) = provider'[k]
                        \/ panics'[k].agent # 0 /\ Latest(link'[k][Provider], agent[k].members) = {}
  <2>1. ASSUME NEW k \in Nodes
        PROVE  \/ Latest(link'[k][Provider], agent[k].members) = provider'[k]
               \/ panics'[k].agent # 0 /\ Latest(link'[k][Provider], agent[k].members) = {}
    <3>1. CASE k = n
      BY <1>4, <1>9, <1>10, <1>11, <3>1, Zenon
    <3>2. CASE k # n
      BY <1>3, <1>4, <3>2, Zenon DEF Views
    <3> QED BY <3>1, <3>2, Zenon
  <2> QED BY <2>1, Zenon
<1>13. ASSUME NEW k \in Nodes, NEW m \in Nodes, ~Justified(k, m)'
       PROVE  Chain(link'[k][Provider], agent[k].members, m)
  <2>1. Chain(link[k][Provider], agent[k].members, m)
    BY <1>7, <1>13, Zenon DEF Views
  <2>2. CASE k = n
    <3>1. Latest(q, agent[n].members) = provider[n] \/ Latest(q, agent[n].members) = {}
      BY <1>9, Zenon DEF Views
    <3>2. m \in Latest(q, agent[n].members) => m \in list.members
      BY <1>2, <1>10, <1>13, <2>2, <3>1, Zenon
    <3> QED BY <1>4, <1>9, <1>10, <1>11, <2>1, <2>2, <3>2, Zenon
  <2>3. CASE k # n
    BY <1>4, <2>1, <2>3, Zenon
  <2> QED BY <2>2, <2>3, Zenon
<1>14. Views'
  BY <1>3, <1>8, <1>12, <1>13, Zenon DEF Views
<1> QED BY <1>2, <1>3, <1>5, <1>6, <1>14, Zenon

\* The program of a node may end at any time.
LEMMA EndsTyped ==
  ASSUME Typed, NEW n, ProgramEnds(n)
  PROVE  actors' \subseteq PIDs /\ poisoned' \subseteq actors' /\ spawning' \subseteq Spawning
BY Zenon DEF Typed, ProgramEnds

LEMMA ProviderEndSteps ==
  ASSUME Typed, Views, NEW n \in Nodes, NEW s \in Nodes, ProviderReceive(n, s),
         ProviderPanics, ProviderEnds(n)
  PROVE  Typed' /\ Views' /\ agent' = agent /\ unreachable' = unreachable /\ race \subseteq race'
<1>1. /\ provider' = provider /\ link' = link /\ PlinkOK(plink)' /\ race \subseteq race'
      /\ \A m, t, x \in Nodes : Holds(plink[m][t], MemberLeave(x))' => Holds(plink[m][t], MemberLeave(x))
  BY Zenon DEF ProviderEnds
<1>2. /\ agent' = agent /\ replies' = replies /\ todo' = todo /\ unreachable' = unreachable
      /\ panics' \in [Nodes -> Counts] /\ \A m \in Nodes : panics'[m].agent = panics[m].agent
  BY Zenon DEF ProviderReceive, ProviderPanics
<1>3. actors' \subseteq PIDs /\ poisoned' \subseteq actors' /\ spawning' \subseteq Spawning
  BY EndsTyped, Zenon DEF ProviderEnds
<1>4. Typed'
  BY <1>1, <1>2, <1>3, Zenon DEF Typed
<1>5. \A k, m \in Nodes : ~Justified(k, m)' => ~Justified(k, m)
  BY <1>1, <1>2, Zenon DEF Justified
<1>6. Views'
  BY <1>1, <1>2, <1>5, Zenon DEF Views
<1> QED BY <1>1, <1>2, <1>4, <1>6, Zenon

LEMMA ProviderJoins ==
  ASSUME Typed, Views, Joining, NEW n \in Nodes, NEW s \in Nodes, ProviderReceive(n, s)
  PROVE  Joining'
<1> SUFFICES ASSUME unreachable = {}, NEW k \in Nodes, NEW m \in Bootstrap[k]
    PROVE  \/ Holds(plink'[m][k], Handshake)
           \/ /\ k \in provider'[m]
              /\ \/ m \in provider'[k]
                 \/ \E ms \in SUBSET Nodes : m \in ms /\ Holds(plink'[k][m], Members(ms))
  BY Zenon DEF Joining, ProviderReceive
<1> DEFINE taken == [plink EXCEPT ![n][s] = Tail(plink[n][s])]
<1>1. PICK msg : msg = Head(plink[n][s])
  BY Zenon
<1>2. plink[n][s] # <<>> /\ m \in Nodes
  BY ClusterAssumption, Zenon DEF ProviderReceive
<1>3. PlinkOK(plink)
  BY Zenon DEF Typed
<1>4. PlinkOK(taken) /\ PlinkPlus(plink, taken, n, s, msg) /\ msg \in Letters(n)
  BY <1>1, <1>2, <1>3, PlinkTake, Zenon
<1>5. /\ \A x, t \in Nodes : \A y : Holds(plink[x][t], y) =>
           Holds(taken[x][t], y) \/ (x = n /\ t = s /\ y = msg)
      /\ Holds(plink[n][s], msg)
  BY <1>4, Zenon DEF PlinkPlus
<1> HIDE DEF taken
<1>6. /\ provider \in [Nodes -> NodeSets]
      /\ \/ Holds(plink[m][k], Handshake)
         \/ /\ k \in provider[m]
            /\ \/ m \in provider[k]
               \/ \E ms \in SUBSET Nodes : m \in ms /\ Holds(plink[k][m], Members(ms))
  BY Zenon DEF Typed, Joining
<1>7. ASSUME msg.type = "memberLeave" PROVE FALSE
  <2>1. PICK x \in Nodes : msg = MemberLeave(x)
    BY <1>4, <1>7, LetterKinds, Zenon
  <2>2. <<n, x>> \in unreachable
    BY <1>5, <2>1, Zenon DEF Views
  <2> QED BY <2>2, Zenon
<1>8. Handshake.type = "Handshake" /\ \A ms : Members(ms).type = "Members" /\ Members(ms).members = ms
  BY Zenon DEF Handshake, Members
<1>0. "Handshake" # "Members"
  OBVIOUS
<1>9. CASE msg.type = "Handshake" /\ HandleHandshake(n, s)
  <2>1. PICK ms : ms = provider[n] \cup {s}
    BY Zenon
  <2>2. /\ provider' = [provider EXCEPT ![n] = ms] /\ plink' = Post(taken, s, n, Members(ms))
    BY <1>9, <2>1, Zenon DEF HandleHandshake, SetMembers, taken
  <2>3. ms \in NodeSets /\ Members(ms) \in Letters(s)
    BY <1>6, <2>1, LettersApart, Zenon DEF NodeSets
  <2>4. PlinkOK(plink') /\ PlinkPlus(plink', taken, s, n, Members(ms))
    BY <1>4, <2>2, <2>3, PlinkPost, Zenon
  <2>5. /\ provider'[n] = ms /\ \A x \in Nodes : x # n => provider'[x] = provider[x]
    BY <1>6, <2>2, Zenon
  <2>6. \A x \in Nodes : \A y : y \in provider[x] => y \in provider'[x]
    BY <2>1, <2>5, Zenon
  <2>7. \A x, t \in Nodes : \A y : Holds(plink[x][t], y) /\ y # Handshake => Holds(plink'[x][t], y)
    <3>1. msg = Handshake
      BY <1>4, <1>9, LetterKinds, Zenon
    <3> QED BY <1>5, <2>4, <3>1, Zenon DEF PlinkPlus
  <2>8. \A x, t \in Nodes : Holds(plink[x][t], Handshake) =>
          Holds(plink'[x][t], Handshake) \/ (x = n /\ t = s)
    BY <1>5, <2>4, Zenon DEF PlinkPlus
  <2>9. CASE Holds(plink[m][k], Handshake) /\ m = n /\ k = s
    <3>1. k \in provider'[m] /\ m \in ms
      BY <2>1, <2>5, <2>9, Zenon DEF Typed
    <3>2. Holds(plink'[k][m], Members(ms))
      BY <2>4, <2>9, Zenon DEF PlinkPlus
    <3> QED BY <2>3, <3>1, <3>2, Zenon DEF NodeSets
  <2>10. CASE Holds(plink[m][k], Handshake) /\ ~(m = n /\ k = s)
    BY <1>2, <2>8, <2>10, Zenon
  <2>11. CASE k \in provider[m] /\ m \in provider[k]
    BY <1>2, <2>6, <2>11, Zenon
  <2>12. CASE k \in provider[m] /\ \E x \in SUBSET Nodes : m \in x /\ Holds(plink[k][m], Members(x))
    <3>1. PICK x \in SUBSET Nodes : m \in x /\ Holds(plink[k][m], Members(x))
      BY <2>12, Zenon
    <3>2. Members(x) # Handshake
      BY <1>0, <1>8, Zenon
    <3> QED BY <1>2, <2>6, <2>7, <2>12, <3>1, <3>2, Zenon
  <2> QED BY <1>6, <2>9, <2>10, <2>11, <2>12, Zenon
<1>10. CASE msg.type = "Members" /\ HandleProviderMembers(n, s)
  <2>1. PICK ms : ms = provider[n] \cup msg.members
    BY Zenon
  <2>2. /\ provider' = [provider EXCEPT ![n] = ms] /\ plink' = taken
    BY <1>1, <1>10, <2>1, Zenon DEF HandleProviderMembers, SetMembers, taken
  <2>5. /\ provider'[n] = ms /\ \A x \in Nodes : x # n => provider'[x] = provider[x]
    BY <1>6, <2>2, Zenon
  <2>6. \A x \in Nodes : \A y : y \in provider[x] => y \in provider'[x]
    BY <2>1, <2>5, Zenon
  <2>7. CASE Holds(plink[m][k], Handshake)
    BY <1>0, <1>2, <1>5, <1>8, <1>10, <2>2, <2>7, Zenon
  <2>8. CASE k \in provider[m] /\ m \in provider[k]
    BY <1>2, <2>6, <2>8, Zenon
  <2>9. CASE k \in provider[m] /\ \E x \in SUBSET Nodes : m \in x /\ Holds(plink[k][m], Members(x))
    <3>1. PICK x \in SUBSET Nodes : m \in x /\ Holds(plink[k][m], Members(x))
      BY <2>9, Zenon
    <3>2. CASE k = n /\ m = s /\ Members(x) = msg
      <4>1. m \in provider'[k]
        BY <1>8, <2>1, <2>5, <3>1, <3>2, Zenon
      <4> QED BY <1>2, <2>6, <2>9, <4>1, Zenon
    <3>3. CASE Holds(taken[k][m], Members(x))
      BY <1>2, <2>2, <2>6, <2>9, <3>1, <3>3, Zenon
    <3> QED BY <1>2, <1>5, <3>1, <3>2, <3>3, Zenon
  <2> QED BY <1>6, <2>7, <2>8, <2>9, Zenon
<1> QED BY <1>1, <1>7, <1>9, <1>10, Zenon DEF ProviderReceive

\* One call or event fewer is left.
LEMMA EventTodo ==
  ASSUME todo \in Todo, todo.left > 0, todo' = [todo EXCEPT !.left = @ - 1]
  PROVE  todo' \in Todo
BY DEF Todo

LEMMA DiscoverSteps ==
  ASSUME Typed, Views, Joining, NEW n \in Nodes, NEW m \in Nodes, Discover(n, m)
  PROVE  Typed' /\ Views' /\ Joining' /\ AgentsSame /\ unreachable' = unreachable /\ race' = race
         /\ panics' = panics
<1>1. /\ plink' = Post(plink, m, n, Handshake) /\ provider' = provider /\ agent' = agent
      /\ link' = link /\ replies' = replies /\ actors' = actors /\ poisoned' = poisoned
      /\ unreachable' = unreachable /\ race' = race /\ spawning' = spawning /\ panics' = panics
  BY Zenon DEF Discover
<1>11. todo' \in Todo
  BY EventTodo, Zenon DEF Typed, Discover
<1>2. PlinkOK(plink) /\ Handshake \in Letters(m)
  BY LettersApart, Zenon DEF Typed
<1>3. PlinkOK(plink') /\ PlinkPlus(plink', plink, m, n, Handshake)
  BY <1>1, <1>2, PlinkPost, Zenon
<1>4. /\ \A x, t \in Nodes : \A y : Holds(plink[x][t], y) => Holds(plink'[x][t], y)
      /\ \A x, t \in Nodes : \A y : Holds(plink'[x][t], y) => Holds(plink[x][t], y) \/ y = Handshake
  BY <1>3, Zenon DEF PlinkPlus
<1>5. Typed'
  BY <1>1, <1>3, <1>11, Zenon DEF Typed
<1>6. \A x, t, k \in Nodes : Holds(plink'[x][t], MemberLeave(k)) => Holds(plink[x][t], MemberLeave(k))
  BY <1>4, LettersApart, Zenon
<1>7. Views'
  BY <1>1, <1>6, Zenon DEF Views, Justified
<1>8. \A k \in Nodes : \A x \in Bootstrap[k] : x \in Nodes
  BY ClusterAssumption, Zenon
<1>9. Joining'
  <2> SUFFICES ASSUME unreachable = {}, NEW k \in Nodes, NEW x \in Bootstrap[k]
      PROVE  \/ Holds(plink'[x][k], Handshake)
             \/ /\ k \in provider[x]
                /\ \/ x \in provider[k]
                   \/ \E ms \in SUBSET Nodes : x \in ms /\ Holds(plink'[k][x], Members(ms))
    BY <1>1, Zenon DEF Joining
  <2>1. \/ Holds(plink[x][k], Handshake)
        \/ /\ k \in provider[x]
           /\ \/ x \in provider[k]
              \/ \E ms \in SUBSET Nodes : x \in ms /\ Holds(plink[k][x], Members(ms))
    BY Zenon DEF Joining
  <2>2. x \in Nodes
    BY <1>8, Zenon
  <2> QED BY <1>4, <2>1, <2>2, Zenon
<1>10. AgentsSame
  BY <1>1, Zenon DEF AgentsSame, Typed
<1> QED BY <1>1, <1>5, <1>7, <1>9, <1>10, Zenon

ListsSame(e, l) == \A m \in Nodes : e[m][Provider] = l[m][Provider]

\* Messages to an agent are lost.
LEMMA LinkLose ==
  ASSUME NEW l, LinkOK(l), NEW n \in Nodes, NEW s \in Nodes, NEW e, Sets(e, l, n, s, <<>>)
  PROVE  LinkOK(e) /\ ListsSame(e, l)
<1>3. /\ DOMAIN e = Nodes /\ \A m \in Nodes : DOMAIN e[m] = Nodes \cup {Provider}
      /\ e[n][s] = <<>>
      /\ \A m \in Nodes : \A t \in Nodes \cup {Provider} : m # n \/ t # s => e[m][t] = l[m][t]
  BY Zenon DEF LinkOK, Sets
<1>4. <<>> \in Seq(Mails)
  OBVIOUS
<1>5. \A m \in Nodes : e[m][Provider] = l[m][Provider]
  BY <1>3, ProviderNoNode, Zenon
<1>6. LinkOK(e)
  BY <1>3, <1>4, <1>5, Zenon DEF LinkOK
<1> QED BY <1>5, <1>6, Zenon DEF ListsSame

LEMMA UnreachableSteps ==
  ASSUME Typed, Views, NEW n \in Nodes, NEW m \in Nodes, Unreachable(n, m)
  PROVE  Typed' /\ Views' /\ agent' = agent /\ unreachable' # {}
         /\ panics' = panics /\ race' = race
<1>1. /\ n # m /\ provider' = provider /\ agent' = agent /\ replies' = replies
      /\ actors' = actors /\ poisoned' = poisoned /\ race' = race /\ panics' = panics
      /\ spawning' = spawning /\ unreachable' = unreachable \cup {<<n, m>>}
  BY Zenon DEF Unreachable
<1>13. todo' \in Todo
  BY EventTodo, Zenon DEF Typed, Unreachable
<1>2. PICK lose \in BOOLEAN :
        /\ plink' = Post(IF lose THEN [plink EXCEPT ![m][n] = <<>>] ELSE plink,
                         n, n, MemberLeave(m))
        /\ link' = IF lose THEN [link EXCEPT ![m][n] = <<>>] ELSE link
  BY Zenon DEF Unreachable
<1>3. PICK l : l = IF lose THEN [plink EXCEPT ![m][n] = <<>>] ELSE plink
  BY Zenon
<1>4. PlinkOK(l) /\ \A x, t \in Nodes : \A y : Holds(l[x][t], y) => Holds(plink[x][t], y)
  <2>1. PlinkOK(plink)
    BY Zenon DEF Typed
  <2>2. CASE lose
    BY <1>3, <2>1, <2>2, PlinkLose, Zenon
  <2>3. CASE ~lose
    BY <1>3, <2>1, <2>3, Zenon
  <2> QED BY <2>2, <2>3, Zenon
<1>5. MemberLeave(m) \in Letters(n)
  BY <1>1, LettersApart, Zenon
<1>6. PlinkOK(plink') /\ PlinkPlus(plink', l, n, n, MemberLeave(m))
  BY <1>2, <1>3, <1>4, <1>5, PlinkPost, Zenon
<1>7. LinkOK(link') /\ \A x \in Nodes : link'[x][Provider] = link[x][Provider]
  <2>1. LinkOK(link)
    BY Zenon DEF Typed
  <2>2. CASE lose
    <3>1. link' = [link EXCEPT ![m][n] = <<>>]
      BY <1>2, <2>2, Zenon
    <3>2. m \in DOMAIN link /\ n \in DOMAIN link[m]
      BY <2>1, Zenon DEF LinkOK
    <3>3. Sets(link', link, m, n, <<>>)
      BY <3>1, <3>2, Except, Zenon
    <3>4. LinkOK(link') /\ ListsSame(link', link)
      BY <2>1, <3>3, LinkLose, Zenon
    <3> QED BY <3>4, Zenon DEF ListsSame
  <2>3. CASE ~lose
    BY <1>2, <2>1, <2>3, Zenon
  <2> QED BY <2>2, <2>3, Zenon
<1>8. Typed'
  BY <1>1, <1>6, <1>7, <1>13, Zenon DEF Typed
<1>9. ASSUME NEW x \in Nodes, NEW t \in Nodes, NEW k \in Nodes, Holds(plink'[x][t], MemberLeave(k))
      PROVE  <<x, k>> \in unreachable'
  <2>1. CASE Holds(l[x][t], MemberLeave(k))
    BY <1>1, <1>4, <2>1, Zenon DEF Views
  <2>2. CASE x = n /\ MemberLeave(k) = MemberLeave(m)
    <3>1. MemberLeave(k).node = k /\ MemberLeave(m).node = m
      BY LettersApart, Zenon
    <3>2. k = m
      BY <2>2, <3>1, Zenon
    <3> QED BY <1>1, <2>2, <3>2, Zenon
  <2> QED BY <1>6, <1>9, <2>1, <2>2, Zenon DEF PlinkPlus
<1>10. \A x, k \in Nodes : ~Justified(x, k)' => ~Justified(x, k)
  BY <1>1, Zenon DEF Justified
<1>11. Views'
  BY <1>1, <1>7, <1>9, <1>10, Zenon DEF Views
<1>12. unreachable' # {}
  BY <1>1, Zenon
<1> QED BY <1>1, <1>8, <1>11, <1>12, Zenon

-----------------------------------------------------------------------------
(* Steps of an agent *)

\* A step that leaves the members alone.
ViewsSame ==
  /\ plink' = plink /\ provider' = provider /\ unreachable' = unreachable /\ race \subseteq race'
  /\ panics' = panics
  /\ \A n \in Nodes : link'[n][Provider] = link[n][Provider] /\ agent'[n].members = agent[n].members

LEMMA ViewsKept ==
  ASSUME ViewsSame
  PROVE  (Views => Views') /\ (Joining => Joining') /\ (Calm => Calm')
<1>1. /\ plink' = plink /\ provider' = provider /\ unreachable' = unreachable /\ panics' = panics
      /\ \A n \in Nodes : link'[n][Provider] = link[n][Provider] /\ agent'[n].members = agent[n].members
  BY Zenon DEF ViewsSame
<1>2. \A x, k \in Nodes : ~Justified(x, k)' => ~Justified(x, k)
  BY Zenon DEF Justified, ViewsSame
<1>3. ASSUME Views PROVE Views'
  <2>1. \A n, s, m \in Nodes : Holds(plink[n][s], MemberLeave(m))' => (<<n, m>> \in unreachable)'
    BY <1>1, <1>3, Zenon DEF Views
  <2>2. ASSUME NEW n \in Nodes, NEW m \in Nodes, ~Justified(n, m)'
        PROVE  Chain(link'[n][Provider], agent'[n].members, m)
    BY <1>1, <1>2, <1>3, <2>2, Zenon DEF Views
  <2>3. ASSUME NEW n \in Nodes
        PROVE  \/ Latest(link'[n][Provider], agent'[n].members) = provider'[n]
               \/ panics'[n].agent # 0 /\ Latest(link'[n][Provider], agent'[n].members) = {}
    BY <1>1, <1>3, <2>3, Zenon DEF Views
  <2> QED BY <2>1, <2>2, <2>3, Zenon DEF Views
<1>4. ASSUME Joining PROVE Joining'
  BY <1>1, <1>4, Zenon DEF Joining
<1>5. ASSUME Calm PROVE Calm'
  BY <1>1, <1>5, Zenon DEF Calm, ViewsSame
<1> QED BY <1>3, <1>4, <1>5, Zenon

\* One agent changes.
LEMMA AgentSet ==
  ASSUME Typed, NEW n \in Nodes, NEW a \in Agent, agent' = [agent EXCEPT ![n] = a]
  PROVE  /\ agent' \in [Nodes -> Agent] /\ agent'[n] = a
         /\ \A m \in Nodes : m # n => agent'[m] = agent[m]
BY ZenonT(40) DEF Typed
LEMMA AgentFields ==
  ASSUME NEW a \in Agent
  PROVE  /\ a.members \in NodeSets /\ a.kinds \in KindSets /\ a.activated \in Known /\ a.waiting \in Waits
         /\ \A w \in Waits : LET b == [a EXCEPT !.waiting = w] IN
              /\ b \in Agent /\ b.waiting = w
              /\ b.members = a.members /\ b.kinds = a.kinds /\ b.activated = a.activated
         /\ \A ps \in Known : LET b == [a EXCEPT !.activated = ps] IN
              /\ b \in Agent /\ b.activated = ps
              /\ b.members = a.members /\ b.kinds = a.kinds /\ b.waiting = a.waiting
         /\ \A ms \in NodeSets, ks \in KindSets, ps \in Known :
              LET b == [a EXCEPT !.members = ms, !.kinds = ks, !.activated = ps] IN
              /\ b \in Agent /\ b.members = ms /\ b.kinds = ks /\ b.activated = ps
              /\ b.waiting = a.waiting
BY ZenonT(40) DEF Agent

\* An agent that takes a list of members, and what it sends to the new ones.
MembersTaken(n, ms) ==
  /\ link[n][Provider] # <<>> /\ ms = Head(link[n][Provider]).members
  /\ agent' \in [Nodes -> Agent] /\ \A m \in Nodes : m # n => agent'[m] = agent[m]
  /\ agent'[n].members = ms /\ agent'[n].kinds = KindsAfter(n, ms)
  /\ agent'[n].activated = {p \in agent[n].activated : p.host \notin Left(n, ms)}
  /\ agent'[n].waiting = agent[n].waiting
  /\ LinkOK(link') /\ link'[n][Provider] = Tail(link[n][Provider])
  /\ \A m \in Nodes : m # n => link'[m][Provider] = link[m][Provider]
  /\ AsksSame(link', link)
  /\ MailIs(link', link, IF agent[n].activated = {} THEN {} ELSE Joined(n, ms),
            Topology(agent[n].activated))
  /\ race' = race \cup (IF Joined(n, ms) # {} /\ ActivationPending THEN {"join"} ELSE {})
  /\ UNCHANGED <<replies, actors, poisoned, provider, plink, todo, unreachable, spawning, panics>>

LEMMA MembersSteps ==
  ASSUME Typed, NEW n \in Nodes, AgentReceive(n, Provider)
  PROVE  \E ms \in MemberSets(n) : MembersTaken(n, ms)
<1>1. PICK q \in Seq(Lists(n)) : q = link[n][Provider]
  BY Zenon DEF Typed, LinkOK
<1>2. LinkOK(link) /\ link[n][Provider] # <<>> /\ n \in DOMAIN link /\ Provider \in DOMAIN link[n]
  BY Zenon DEF Typed, LinkOK, AgentReceive
<1>3. PICK taken : taken = [link EXCEPT ![n][Provider] = Tail(link[n][Provider])]
  BY Zenon
<1>4. Sets(taken, link, n, Provider, Tail(link[n][Provider]))
  BY <1>2, <1>3, Except, Zenon
<1>5. ListTaken(taken, link, n)
  BY <1>2, <1>4, TakenList, Zenon
<1>6. /\ LinkOK(taken) /\ Head(link[n][Provider]) \in Lists(n)
      /\ taken[n][Provider] = Tail(link[n][Provider])
      /\ \A m \in Nodes : m # n => taken[m][Provider] = link[m][Provider]
      /\ \A m, t \in Nodes : taken[m][t] = link[m][t]
  BY <1>5, Zenon DEF ListTaken
<1>7. PICK list : list = Head(link[n][Provider])
  BY Zenon
<1>8. PICK ms \in MemberSets(n) : ms = list.members
  BY <1>6, <1>7, ListKinds, Zenon
<1>9. list.type = "Members"
  BY <1>6, <1>7, ListKinds, Zenon
<1>10. /\ HandleMembers(n, ms, taken)
       /\ UNCHANGED <<replies, actors, poisoned, provider, plink, todo, unreachable, spawning, panics>>
  <2>1. /\ "Members" \notin {"ActorTopology", "Activation"}
        /\ "Members" \notin {"Activation", "Deactivation"} /\ "Members" # "Deactivation"
        /\ "Members" # "ActivationRequest"
    OBVIOUS
  <2> QED BY <1>3, <1>7, <1>8, <1>9, <2>1, Zenon DEF AgentReceive, IsNil
<1>11. PICK a \in Agent : a = agent[n]
  BY Zenon DEF Typed
<1>12. PICK ks : ks = KindsAfter(n, ms)
  BY Zenon
<1>13. PICK ps : ps = {p \in a.activated : p.host \notin Left(n, ms)}
  BY Zenon
<1>14. ms \in NodeSets /\ ks \in KindSets /\ ps \in Known
  <2>1. ms \in NodeSets
    BY <1>8, Zenon DEF MemberSets, NodeSets
  <2>2. a.kinds \in KindSets /\ a.activated \in Known
    BY <1>11, AgentFields, Zenon
  <2>3. \A m \in Nodes : LocalKinds[m] \in KindSets
    BY ClusterAssumption, Zenon DEF KindSets
  <2>4. \A x : x \in NodeSets => KindsOf(x) \in KindSets
    BY <2>3, Zenon DEF KindsOf, NodeSets, KindSets
  <2>5. Joined(n, ms) \in NodeSets
    BY <2>1, Zenon DEF Joined, NodeSets
  <2>6. ks \in KindSets
    <3>1. KindsOf(Joined(n, ms)) \in KindSets /\ KindsOf(ms) \in KindSets
      BY <2>1, <2>4, <2>5, Zenon
    <3>2. agent[n].kinds \cup KindsOf(Joined(n, ms)) \in KindSets
      BY <1>11, <2>2, <3>1, Zenon DEF KindSets
    <3> QED BY <1>12, <3>1, <3>2, Zenon DEF KindsAfter
  <2>7. ps \in Known
    BY <1>13, <2>2, Zenon DEF Known, OneEach
  <2> QED BY <2>1, <2>6, <2>7, Zenon
<1>15. PICK b : b = [a EXCEPT !.members = ms, !.kinds = ks, !.activated = ps]
  BY Zenon
<1>16. /\ b \in Agent /\ b.members = ms /\ b.kinds = ks /\ b.activated = ps
       /\ b.waiting = a.waiting
  BY <1>11, <1>14, <1>15, ZenonT(40) DEF Agent
<1>17. agent' = [agent EXCEPT ![n] = b]
  <2>1. (agent[n].members \cup Joined(n, ms)) \ Left(n, ms) = ms
    BY Zenon DEF Joined, Left
  <2>2. agent' = [agent EXCEPT ![n].members = ms, ![n].kinds = ks, ![n].activated = ps]
    BY <1>10, <1>11, <1>12, <1>13, <2>1, Zenon DEF HandleMembers
  <2> QED BY <1>11, <1>15, <2>2, Zenon DEF Typed
<1>18. /\ agent' \in [Nodes -> Agent] /\ agent'[n] = b
       /\ \A m \in Nodes : m # n => agent'[m] = agent[m]
  BY <1>16, <1>17, AgentSet, Zenon
<1>19. PICK msg : msg = Topology(agent[n].activated)
  BY Zenon
<1>20. msg \in News /\ msg \in Mails /\ msg \notin Asks
  BY <1>11, <1>19, AgentFields, MailsApart, Zenon
<1>21. PICK ns : ns = IF agent[n].activated = {} THEN {} ELSE Joined(n, ms)
  BY Zenon
<1>22. /\ LinkOK(link') /\ \A m \in Nodes : link'[m][Provider] = taken[m][Provider]
       /\ AsksSame(link', taken) /\ MailIs(link', taken, ns, msg)
  <2>1. CASE agent[n].activated = {}
    <3>1. link' = taken /\ ns = {}
      BY <1>10, <1>21, <2>1, Zenon DEF HandleMembers, SendTopology
    <3>2. AsksSame(link', taken)
      BY <3>1, Zenon DEF AsksSame
    <3>3. MailIs(link', taken, ns, msg)
      BY <3>1, Zenon DEF MailIs
    <3> QED BY <1>6, <3>1, <3>2, <3>3, Zenon
  <2>2. CASE agent[n].activated # {}
    <3>1. link' = PostAll(taken, ns, n, msg)
      BY <1>10, <1>19, <1>21, <2>2, Zenon DEF HandleMembers, SendTopology
    <3>2. AllPosted(link', taken, ns, n, msg)
      BY <1>6, <1>20, <3>1, PostedAll, Zenon
    <3>3. AsksSame(link', taken)
      BY <1>6, <1>20, <3>2, PostAsks, Zenon
    <3>4. MailIs(link', taken, ns, msg)
      BY <3>2, PostedIs, Zenon
    <3> QED BY <3>2, <3>3, <3>4, Zenon DEF AllPosted
  <2> QED BY <2>1, <2>2, Zenon
<1>23. AsksSame(link', link)
  BY <1>6, <1>22, Zenon DEF AsksSame, AskBy
<1>24. MailIs(link', link, ns, msg)
  <2>1. \A m \in Nodes : MailOf(taken, m) = MailOf(link, m)
    BY <1>6, MailSame, Zenon
  <2> QED BY <1>22, <2>1 DEF MailIs
<1>25. race' = race \cup (IF Joined(n, ms) # {} /\ ActivationPending THEN {"join"} ELSE {})
  BY <1>10, Zenon DEF HandleMembers
<1>26. MembersTaken(n, ms)
  BY <1>2, <1>6, <1>7, <1>8, <1>10, <1>11, <1>12, <1>13, <1>16, <1>18, <1>19, <1>21, <1>22, <1>23,
     <1>24, <1>25, Zenon DEF MembersTaken
<1> QED BY <1>26, Zenon
\* Members that an agent gives up are gone for a reason.
LEMMA MembersKept ==
  ASSUME Typed, Views, NEW n \in Nodes, NEW ms \in MemberSets(n), MembersTaken(n, ms)
  PROVE  /\ Typed' /\ Views'
         /\ \A m \in agent[n].members : m \notin ms => Justified(n, m)
<1>1. /\ link[n][Provider] # <<>> /\ ms = Head(link[n][Provider]).members
      /\ agent' \in [Nodes -> Agent] /\ \A m \in Nodes : m # n => agent'[m] = agent[m]
      /\ agent'[n].members = ms /\ agent'[n].waiting = agent[n].waiting
      /\ LinkOK(link') /\ link'[n][Provider] = Tail(link[n][Provider])
      /\ \A m \in Nodes : m # n => link'[m][Provider] = link[m][Provider]
  BY Zenon DEF MembersTaken
<1>2. /\ replies' = replies /\ actors' = actors /\ poisoned' = poisoned /\ provider' = provider
      /\ plink' = plink /\ todo' = todo /\ unreachable' = unreachable /\ spawning' = spawning
      /\ race \subseteq race' /\ panics' = panics
  BY Zenon DEF MembersTaken
<1>3. n \in ms
  BY Zenon DEF MemberSets
<1>4. ASSUME NEW m \in Nodes
      PROVE  /\ agent'[m].waiting # None => agent'[m].waiting.node = m
             /\ agent'[m].members # {} => m \in agent'[m].members
  <2>1. /\ agent[m].waiting # None => agent[m].waiting.node = m
        /\ agent[m].members # {} => m \in agent[m].members
    BY <1>4, Zenon DEF Typed
  <2>2. CASE m = n
    BY <1>1, <1>3, <2>1, <2>2, Zenon
  <2>3. CASE m # n
    BY <1>1, <1>4, <2>1, <2>3, Zenon
  <2> QED BY <2>2, <2>3, Zenon
<1>5. Typed'
  BY <1>1, <1>2, <1>4, Zenon DEF Typed
<1>6. PICK q \in Seq(Lists(n)) : q = link[n][Provider]
  BY Zenon DEF Typed, LinkOK
<1>7. ChainShrinks(Tail(q), q, agent[n].members, Head(q))
  BY <1>1, <1>6, ChainTail, Zenon
<1>8. /\ Latest(Tail(q), ms) = Latest(q, agent[n].members)
      /\ \A m : Chain(q, agent[n].members, m) =>
           Chain(Tail(q), ms, m) /\ (m \in agent[n].members => m \in ms)
  BY <1>1, <1>6, <1>7, Zenon DEF ChainShrinks
<1>9. ASSUME NEW m \in Nodes, m \in agent[n].members, m \notin ms PROVE Justified(n, m)
  BY <1>6, <1>8, <1>9, Zenon DEF Views
<1>10. agent[n].members \subseteq Nodes
  BY AgentFields, Zenon DEF Typed, NodeSets
<1>11. \A k, m \in Nodes : ~Justified(k, m)' => ~Justified(k, m)
  BY <1>2, Zenon DEF Justified
<1>12. ASSUME NEW k \in Nodes, NEW m \in Nodes, ~Justified(k, m)'
       PROVE  Chain(link'[k][Provider], agent'[k].members, m)
  <2>1. Chain(link[k][Provider], agent[k].members, m)
    BY <1>11, <1>12, Zenon DEF Views
  <2>2. CASE k = n
    BY <1>1, <1>6, <1>8, <2>1, <2>2, Zenon
  <2>3. CASE k # n
    BY <1>1, <1>12, <2>1, <2>3, Zenon
  <2> QED BY <2>2, <2>3, Zenon
<1>13. ASSUME NEW k \in Nodes
       PROVE  \/ Latest(link'[k][Provider], agent'[k].members) = provider'[k]
              \/ panics'[k].agent # 0 /\ Latest(link'[k][Provider], agent'[k].members) = {}
  <2>1. \/ Latest(link[k][Provider], agent[k].members) = provider[k]
        \/ panics[k].agent # 0 /\ Latest(link[k][Provider], agent[k].members) = {}
    BY <1>13, Zenon DEF Views
  <2>2. CASE k = n
    BY <1>1, <1>2, <1>6, <1>8, <2>1, <2>2, Zenon
  <2>3. CASE k # n
    BY <1>1, <1>2, <1>13, <2>1, <2>3, Zenon
  <2> QED BY <2>2, <2>3, Zenon
<1>14. \A k, t, m \in Nodes : Holds(plink'[k][t], MemberLeave(m)) => <<k, m>> \in unreachable'
  BY <1>2, Zenon DEF Views
<1>15. Views'
  BY <1>12, <1>13, <1>14, Zenon DEF Views
<1> QED BY <1>5, <1>9, <1>10, <1>15, Zenon

LEMMA KindsJoin ==
  ASSUME NEW A, NEW B
  PROVE  KindsOf(A \cup B) = KindsOf(A) \cup KindsOf(B)
BY Zenon DEF KindsOf

LEMMA MembersKinds ==
  ASSUME Typed, KindsInv, NEW n \in Nodes, NEW ms \in MemberSets(n), MembersTaken(n, ms)
  PROVE  KindsInv'
<1>1. /\ \A m \in Nodes : m # n => agent'[m] = agent[m]
      /\ agent'[n].members = ms /\ agent'[n].kinds = KindsAfter(n, ms) /\ panics' = panics
  BY Zenon DEF MembersTaken
<1>2. n \in ms /\ ms \cup {n} = ms
  BY Zenon DEF MemberSets
<1>3. /\ KindsOf(agent[n].members \cup {n}) \subseteq agent[n].kinds
      /\ panics[n].agent = 0 => agent[n].kinds = KindsOf(agent[n].members \cup {n})
  BY Zenon DEF KindsInv
<1>4. /\ KindsOf(ms) \subseteq KindsAfter(n, ms)
      /\ panics[n].agent = 0 => KindsAfter(n, ms) = KindsOf(ms)
  <2>2. CASE Left(n, ms) = {}
    <3>1. (agent[n].members \cup {n}) \cup Joined(n, ms) = ms
      BY <1>2, <2>2, Zenon DEF Left, Joined
    <3>2. KindsOf((agent[n].members \cup {n}) \cup Joined(n, ms))
            = KindsOf(agent[n].members \cup {n}) \cup KindsOf(Joined(n, ms))
      BY KindsJoin, Zenon
    <3>3. KindsOf(ms) = KindsOf(agent[n].members \cup {n}) \cup KindsOf(Joined(n, ms))
      BY <3>1, <3>2, Zenon
    <3>4. KindsAfter(n, ms) = agent[n].kinds \cup KindsOf(Joined(n, ms))
      BY <2>2, Zenon DEF KindsAfter
    <3> QED BY <1>3, <3>3, <3>4, Zenon
  <2>3. CASE Left(n, ms) # {}
    BY <2>3, Zenon DEF KindsAfter
  <2> QED BY <2>2, <2>3, Zenon
<1>5. ASSUME NEW m \in Nodes
      PROVE  /\ KindsOf(agent'[m].members \cup {m}) \subseteq agent'[m].kinds
             /\ panics'[m].agent = 0 => agent'[m].kinds = KindsOf(agent'[m].members \cup {m})
  <2>1. CASE m = n
    BY <1>1, <1>2, <1>4, <2>1, Zenon
  <2>2. CASE m # n
    BY <1>1, <1>5, <2>2, Zenon DEF KindsInv
  <2> QED BY <2>1, <2>2, Zenon
<1> QED BY <1>5, Zenon DEF KindsInv

LEMMA MembersJoining ==
  ASSUME Joining, Calm, NEW n \in Nodes, NEW ms \in MemberSets(n), MembersTaken(n, ms)
  PROVE  Joining' /\ Calm'
<1>1. /\ plink' = plink /\ provider' = provider /\ unreachable' = unreachable /\ panics' = panics
      /\ race \subseteq race'
  BY Zenon DEF MembersTaken
<1> QED BY <1>1, Zenon DEF Joining, Calm
\* What an agent knows of changes, and nothing else that it has.
AgentKnows(n, ps) ==
  /\ agent' \in [Nodes -> Agent] /\ \A m \in Nodes : m # n => agent'[m] = agent[m]
  /\ agent'[n].members = agent[n].members /\ agent'[n].kinds = agent[n].kinds
  /\ agent'[n].waiting = agent[n].waiting /\ agent'[n].activated = ps

LEMMA KnowsSet ==
  ASSUME Typed, NEW n \in Nodes, NEW ps \in Known, agent' = [agent EXCEPT ![n].activated = ps]
  PROVE  AgentKnows(n, ps)
<1>1. PICK a \in Agent : a = agent[n]
  BY Zenon DEF Typed
<1>2. PICK b : b = [a EXCEPT !.activated = ps]
  BY Zenon
<1>3. /\ b \in Agent /\ b.activated = ps
      /\ b.members = a.members /\ b.kinds = a.kinds /\ b.waiting = a.waiting
  BY <1>2 DEF Agent
<1>4. agent' = [agent EXCEPT ![n] = b]
  BY <1>1, <1>2, Zenon DEF Typed
<1>5. /\ agent' \in [Nodes -> Agent] /\ agent'[n] = b
      /\ \A m \in Nodes : m # n => agent'[m] = agent[m]
  BY <1>3, <1>4, AgentSet, Zenon
<1> QED BY <1>1, <1>3, <1>5, Zenon DEF AgentKnows

AgentWaits(n, w) ==
  /\ agent' \in [Nodes -> Agent] /\ \A m \in Nodes : m # n => agent'[m] = agent[m]
  /\ agent'[n].members = agent[n].members /\ agent'[n].kinds = agent[n].kinds
  /\ agent'[n].activated = agent[n].activated /\ agent'[n].waiting = w

LEMMA WaitsSet ==
  ASSUME Typed, NEW n \in Nodes, NEW w \in Waits, agent' = [agent EXCEPT ![n].waiting = w]
  PROVE  AgentWaits(n, w)
<1>1. PICK a \in Agent : a = agent[n]
  BY Zenon DEF Typed
<1>2. PICK b : b = [a EXCEPT !.waiting = w]
  BY Zenon
<1>3. /\ b \in Agent /\ b.waiting = w
      /\ b.members = a.members /\ b.kinds = a.kinds /\ b.activated = a.activated
  BY <1>2 DEF Agent
<1>4. agent' = [agent EXCEPT ![n] = b]
  BY <1>1, <1>2, Zenon DEF Typed
<1>5. /\ agent' \in [Nodes -> Agent] /\ agent'[n] = b
      /\ \A m \in Nodes : m # n => agent'[m] = agent[m]
  BY <1>3, <1>4, AgentSet, Zenon
<1> QED BY <1>1, <1>3, <1>5, Zenon DEF AgentWaits

\* An agent takes news, the end of an actor, a request.
NewsTaken(n, msg) ==
  /\ msg \in News /\ AgentKnows(n, AddActivated(agent[n].activated, msg.pids))
  /\ AsksSame(link', link) /\ MailIs(link, link', {n}, msg)
  /\ UNCHANGED <<replies, actors, poisoned, spawning, race, unreachable>>

EndTaken(n, p) ==
  /\ p \in PIDs /\ AgentKnows(n, RemoveActivated(agent[n].activated, p))
  /\ AsksSame(link', link) /\ MailIs(link, link', {n}, Deactivation(p))
  /\ poisoned' = poisoned \cup (actors \cap {PID(n, p.id)})
  /\ UNCHANGED <<replies, actors, spawning, race, unreachable>>

AskTaken(n, s, c) ==
  /\ c \in Calls /\ AskBy(link, n, s, c) /\ agent' = agent
  /\ MailIs(link, link', {n}, ActivationRequest(c))
  /\ \A m, t \in Nodes : Alone(link[m][t]) => Alone(link'[m][t])
  /\ Alone(link[n][s]) =>
       \A m, t \in Nodes : \A d \in Calls :
         AskBy(link', m, t, d) <=> AskBy(link, m, t, d) /\ ~(m = n /\ t = s)
  /\ actors' = IF KindOf[c.id] \in LocalKinds[n] THEN actors \cup {PID(n, c.id)} ELSE actors
  /\ replies' = IF agent[c.node].waiting = c
                THEN replies \cup {[call |-> c, success |-> KindOf[c.id] \in LocalKinds[n],
                                    pid |-> PID(n, c.id)]}
                ELSE replies
  /\ UNCHANGED <<poisoned, spawning, race, unreachable>>

\* An agent panics about a nil PID.
NilTaken(n) ==
  /\ LinkOK(link') /\ ListsSame(link', link) /\ "panic" \in race' /\ race \subseteq race'
  /\ panics' \in [Nodes -> Counts] /\ \A m \in Nodes : m # n => panics'[m] = panics[m]
  /\ panics'[n].agent # 0 /\ panics'[n].agent # panics[n].agent
  /\ panics'[n].provider = panics[n].provider
  /\ agent' \in [Nodes -> Agent] /\ \A m \in Nodes : m # n => agent'[m] = agent[m]
  /\ agent'[n].kinds = agent[n].kinds /\ agent'[n].waiting = agent[n].waiting
  /\ agent'[n].members = agent[n].members \/ agent'[n].members = {}
  /\ actors' \subseteq PIDs /\ poisoned' \subseteq actors' /\ spawning' \subseteq Spawning
  /\ UNCHANGED <<provider, plink, replies, todo, unreachable>>

LEMMA NilSteps ==
  ASSUME Typed, NEW n \in Nodes, NEW taken, LinkOK(taken), ListsSame(taken, link),
         HandleNil(n, taken), UNCHANGED <<provider, plink, replies, todo, unreachable>>
  PROVE  NilTaken(n)
<1>0. "provider" # "agent"
  OBVIOUS
<1>1. Panic(n, "agent") /\ race' = race \cup {"panic"} /\ link' = taken
  BY Zenon DEF HandleNil
<1>2. /\ panics' \in [Nodes -> Counts] /\ \A m \in Nodes : m # n => panics'[m] = panics[m]
      /\ panics'[n]["agent"] # 0 /\ panics'[n]["agent"] # panics[n]["agent"]
      /\ panics'[n]["provider"] = panics[n]["provider"]
  BY <1>0, <1>1, PanicCounts, Zenon
<1>3. /\ agent' \in [Nodes -> Agent] /\ \A m \in Nodes : m # n => agent'[m] = agent[m]
      /\ agent'[n].kinds = agent[n].kinds /\ agent'[n].waiting = agent[n].waiting
      /\ agent'[n].members = agent[n].members \/ agent'[n].members = {}
      /\ actors' \subseteq PIDs /\ poisoned' \subseteq actors' /\ spawning' \subseteq Spawning
  <2>1. CASE /\ agent' = [agent EXCEPT ![n].members = {}, ![n].activated = {}]
             /\ UNCHANGED <<actors, poisoned, spawning>>
    <3>1. PICK a \in Agent : a = agent[n]
      BY Zenon DEF Typed
    <3>2. PICK b : b = [a EXCEPT !.members = {}, !.activated = {}]
      BY Zenon
    <3>3. {} \in NodeSets /\ {} \in Known
      BY Zenon DEF NodeSets, Known, OneEach
    <3>4. /\ b \in Agent /\ b.members = {}
          /\ b.kinds = a.kinds /\ b.waiting = a.waiting
      BY <3>2, <3>3 DEF Agent
    <3>5. agent' = [agent EXCEPT ![n] = b]
      BY <2>1, <3>1, <3>2, Zenon DEF Typed
    <3>6. /\ agent' \in [Nodes -> Agent] /\ agent'[n] = b
          /\ \A m \in Nodes : m # n => agent'[m] = agent[m]
      BY <3>4, <3>5, AgentSet, Zenon
    <3> QED BY <2>1, <3>1, <3>4, <3>6, Zenon DEF Typed
  <2>2. CASE ProgramEnds(n) /\ UNCHANGED agent
    BY <2>2, EndsTyped, Zenon DEF Typed
  <2> QED BY <2>1, <2>2, Zenon DEF HandleNil
<1> QED BY <1>1, <1>2, <1>3, Zenon DEF NilTaken

\* The lists still lead to the members of the provider, or there are none.
LEMMA NilKept ==
  ASSUME Typed, Views, Joining, KindsInv, Calm, NEW n \in Nodes, NilTaken(n)
  PROVE  Typed' /\ Views' /\ Joining' /\ KindsInv' /\ Calm'
<1>1. /\ LinkOK(link') /\ ListsSame(link', link) /\ "panic" \in race' /\ race \subseteq race'
      /\ panics' \in [Nodes -> Counts] /\ \A m \in Nodes : m # n => panics'[m] = panics[m]
      /\ panics'[n].agent # 0 /\ panics'[n].provider = panics[n].provider
  BY Zenon DEF NilTaken
<1>2. /\ agent' \in [Nodes -> Agent] /\ \A m \in Nodes : m # n => agent'[m] = agent[m]
      /\ agent'[n].kinds = agent[n].kinds /\ agent'[n].waiting = agent[n].waiting
      /\ agent'[n].members = agent[n].members \/ agent'[n].members = {}
  BY Zenon DEF NilTaken
<1>3. /\ actors' \subseteq PIDs /\ poisoned' \subseteq actors' /\ spawning' \subseteq Spawning
      /\ provider' = provider /\ plink' = plink /\ replies' = replies /\ todo' = todo
      /\ unreachable' = unreachable
  BY Zenon DEF NilTaken
<1>4. ASSUME NEW m \in Nodes
      PROVE  /\ agent'[m].waiting # None => agent'[m].waiting.node = m
             /\ agent'[m].members # {} => m \in agent'[m].members
  <2>1. /\ agent[m].waiting # None => agent[m].waiting.node = m
        /\ agent[m].members # {} => m \in agent[m].members
    BY <1>4, Zenon DEF Typed
  <2>2. agent'[m].waiting = agent[m].waiting
    BY <1>2, <1>4, Zenon
  <2>3. agent'[m].members = agent[m].members \/ agent'[m].members = {}
    BY <1>2, <1>4, Zenon
  <2> QED BY <2>1, <2>2, <2>3, Zenon
<1>5. Typed'
  BY <1>1, <1>2, <1>3, <1>4, Zenon DEF Typed
<1>6. \A x, k \in Nodes : ~Justified(x, k)' => ~Justified(x, k)
  BY <1>1, <1>3, Zenon DEF Justified
<1>7. \A m \in Nodes : link'[m][Provider] = link[m][Provider]
  BY <1>1, Zenon DEF ListsSame
<1>8. ASSUME NEW k \in Nodes, NEW m \in Nodes, ~Justified(k, m)'
      PROVE  Chain(link'[k][Provider], agent'[k].members, m)
  <2>1. Chain(link[k][Provider], agent[k].members, m)
    BY <1>6, <1>8, Zenon DEF Views
  <2>2. CASE agent'[k].members = agent[k].members
    BY <1>7, <1>8, <2>1, <2>2, Zenon
  <2>3. CASE agent'[k].members = {}
    BY <1>7, <1>8, <2>1, <2>3, Zenon DEF Chain
  <2> QED BY <1>2, <1>8, <2>2, <2>3, Zenon
<1>9. ASSUME NEW k \in Nodes
      PROVE  \/ Latest(link'[k][Provider], agent'[k].members) = provider'[k]
             \/ panics'[k].agent # 0 /\ Latest(link'[k][Provider], agent'[k].members) = {}
  <2>1. \/ Latest(link[k][Provider], agent[k].members) = provider[k]
        \/ panics[k].agent # 0 /\ Latest(link[k][Provider], agent[k].members) = {}
    BY <1>9, Zenon DEF Views
  <2>2. CASE k # n
    BY <1>1, <1>2, <1>3, <1>7, <1>9, <2>1, <2>2, Zenon
  <2>3. CASE k = n /\ agent'[n].members = agent[n].members
    BY <1>1, <1>3, <1>7, <1>9, <2>1, <2>3, Zenon
  <2>4. CASE k = n /\ agent'[n].members = {}
    <3>1. CASE link[n][Provider] = <<>>
      BY <1>1, <1>7, <2>4, <3>1, Zenon DEF Latest
    <3>2. CASE link[n][Provider] # <<>>
      <4>1. Latest(link'[n][Provider], agent'[n].members) = Latest(link[n][Provider], agent[n].members)
        BY <1>7, <3>2, Zenon DEF Latest
      <4> QED BY <1>1, <1>3, <2>1, <2>4, <4>1, Zenon
    <3> QED BY <3>1, <3>2, Zenon
  <2> QED BY <1>2, <2>2, <2>3, <2>4, Zenon
<1>10. Views'
  BY <1>3, <1>8, <1>9, Zenon DEF Views
<1>11. Joining'
  BY <1>3, Zenon DEF Joining
<1>12. ASSUME NEW m \in Nodes
       PROVE  /\ KindsOf(agent'[m].members \cup {m}) \subseteq agent'[m].kinds
              /\ panics'[m].agent = 0 => agent'[m].kinds = KindsOf(agent'[m].members \cup {m})
  <2>1. KindsOf(agent[m].members \cup {m}) \subseteq agent[m].kinds
    BY <1>12, Zenon DEF KindsInv
  <2>2. CASE m # n
    BY <1>1, <1>2, <1>12, <2>2, Zenon DEF KindsInv
  <2>3. CASE m = n /\ agent'[n].members = agent[n].members
    BY <1>1, <1>2, <2>1, <2>3, Zenon
  <2>4. CASE m = n /\ agent'[n].members = {}
    <3>1. KindsOf(agent[m].members \cup {m}) = KindsOf(agent[m].members) \cup KindsOf({m})
      BY KindsJoin, Zenon
    <3>2. KindsOf(agent'[m].members \cup {m}) = KindsOf({m})
      <4>1. agent'[m].members \cup {m} = {m}
        BY <2>4, Zenon
      <4> QED BY <4>1, Zenon
    <3> QED BY <1>1, <1>2, <2>1, <2>4, <3>1, <3>2, Zenon
  <2> QED BY <1>2, <2>2, <2>3, <2>4, Zenon
<1>13. KindsInv'
  BY <1>12, Zenon DEF KindsInv
<1>14. Calm'
  <2>1. \A m \in Nodes : panics'[m].provider = panics[m].provider
    BY <1>1, Zenon
  <2> QED BY <1>1, <1>3, <2>1, Zenon DEF Calm
<1> QED BY <1>5, <1>10, <1>11, <1>13, <1>14, Zenon

LEMMA KnownAfter ==
  ASSUME NEW ps \in Known, NEW qs \in Known, NEW p
  PROVE  AddActivated(ps, qs) \in Known /\ RemoveActivated(ps, p) \in Known
<1>1. AddActivated(ps, qs) \in Known
  <2>1. AddActivated(ps, qs) \subseteq PIDs
    BY Zenon DEF Known, AddActivated
  <2>2. OneEach(AddActivated(ps, qs))
    <3>1. ASSUME NEW x \in AddActivated(ps, qs), NEW y \in AddActivated(ps, qs), x.id = y.id
          PROVE  x = y
      <4>1. /\ x \in ps \/ (x \in qs /\ \A q \in ps : q.id # x.id)
            /\ y \in ps \/ (y \in qs /\ \A q \in ps : q.id # y.id)
        BY Zenon DEF AddActivated
      <4>2. CASE x \in ps
        BY <3>1, <4>1, <4>2, Zenon DEF Known, OneEach
      <4>3. CASE x \in qs /\ \A q \in ps : q.id # x.id
        BY <3>1, <4>1, <4>3, Zenon DEF Known, OneEach
      <4> QED BY <4>1, <4>2, <4>3, Zenon
    <3> QED BY <3>1, Zenon DEF OneEach
  <2> QED BY <2>1, <2>2, Zenon DEF Known
<1>2. RemoveActivated(ps, p) \in Known
  BY Zenon DEF Known, OneEach, RemoveActivated
<1> QED BY <1>1, <1>2, Zenon

LEMMA CallPID ==
  ASSUME NEW c \in Calls, NEW n \in Nodes
  PROVE  /\ c.node \in Nodes /\ c.id \in Ids /\ PID(n, c.id) \in PIDs
         /\ PID(n, c.id).host = n /\ PID(n, c.id).id = c.id
<1>1. c.node \in Nodes /\ c.id \in Ids
  BY ClusterAssumption, Zenon
<1> QED BY <1>1, Zenon DEF PID, PIDs

LEMMA MailSteps ==
  ASSUME Typed, NEW n \in Nodes, NEW s \in Nodes, AgentReceive(n, s)
  PROVE  \/ /\ Typed' /\ ViewsSame /\ (KindsInv => KindsInv')
            /\ \/ \E msg : NewsTaken(n, msg)
               \/ \E p : EndTaken(n, p)
               \/ \E c : AskTaken(n, s, c)
         \/ NilTaken(n)
<1>1. LinkOK(link) /\ link[n][s] # <<>> /\ n \in DOMAIN link /\ s \in DOMAIN link[n]
  BY Zenon DEF Typed, LinkOK, AgentReceive
<1>2. PICK taken : taken = [link EXCEPT ![n][s] = Tail(link[n][s])]
  BY Zenon
<1>3. Sets(taken, link, n, s, Tail(link[n][s]))
  BY <1>1, <1>2, Except, Zenon
<1>4. MailTaken(taken, link, n, s)
  BY <1>1, <1>3, TakenMail, Zenon
<1>5. PICK msg \in Mails : msg = Head(link[n][s])
  BY <1>4, Zenon DEF MailTaken
<1>6. MailIs(link, taken, {n}, msg)
  BY <1>4, <1>5, TakenIs, Zenon
<1>7. /\ provider' = provider /\ plink' = plink /\ todo' = todo /\ unreachable' = unreachable
  BY Zenon DEF AgentReceive
<1>8. LinkOK(taken) /\ \A m \in Nodes : taken[m][Provider] = link[m][Provider]
  BY <1>4, Zenon DEF MailTaken
<1>9. agent[n].activated \in Known
  BY AgentFields, Zenon DEF Typed
<1>10. CASE /\ msg.type \in {"ActorTopology", "Activation"} /\ ~IsNil(msg)
            /\ HandleActivation(n, msg.pids, taken)
            /\ UNCHANGED <<replies, actors, poisoned, spawning, panics, race>>
  <2>1. msg \in News /\ msg.pids \in Known
    BY <1>10, MailKinds, Zenon
  <2>2. msg \notin Asks
    BY <2>1, MailsApart, Zenon
  <2>3. AsksSame(taken, link)
    BY <1>1, <1>4, <1>5, <2>2, TakeAsks, Zenon
  <2>4. PICK ps \in Known : ps = AddActivated(agent[n].activated, msg.pids)
    BY <1>9, <2>1, KnownAfter, Zenon
  <2>5. agent' = [agent EXCEPT ![n].activated = ps] /\ link' = taken
    BY <1>10, <2>4, Zenon DEF HandleActivation
  <2>6. AgentKnows(n, ps)
    BY <2>5, KnowsSet, Zenon
  <2>7. NewsTaken(n, msg)
    BY <1>6, <1>7, <1>10, <2>1, <2>3, <2>4, <2>5, <2>6, Zenon DEF NewsTaken
  <2>8. \A m \in Nodes : /\ agent'[m].members = agent[m].members /\ agent'[m].kinds = agent[m].kinds
                         /\ agent'[m].waiting = agent[m].waiting
    BY <2>6, Zenon DEF AgentKnows
  <2>9. Typed'
    BY <1>7, <1>8, <1>10, <2>5, <2>6, <2>8, ZenonT(40) DEF Typed, AgentKnows
  <2>10. ViewsSame
    BY <1>7, <1>8, <1>10, <2>5, <2>8, Zenon DEF ViewsSame
  <2>11. KindsInv => KindsInv'
    BY <1>10, <2>8, Zenon DEF KindsInv
  <2> QED BY <2>7, <2>9, <2>10, <2>11, Zenon
<1>11. CASE /\ msg.type = "Deactivation"
            /\ \E p \in msg.pids : HandleDeactivation(n, p, taken)
            /\ UNCHANGED <<replies, actors, spawning, panics, race>>
  <2>1. PICK p \in msg.pids : HandleDeactivation(n, p, taken)
    BY <1>11, Zenon
  <2>2. p \in PIDs /\ msg = Deactivation(p) /\ msg \in Ends
    BY <1>11, <2>1, MailKinds, Zenon
  <2>3. msg \notin Asks
    BY <2>2, MailsApart, Zenon
  <2>4. AsksSame(taken, link)
    BY <1>1, <1>4, <1>5, <2>3, TakeAsks, Zenon
  <2>5. PICK ps \in Known : ps = RemoveActivated(agent[n].activated, p)
    BY <1>9, KnownAfter, Zenon
  <2>6. /\ agent' = [agent EXCEPT ![n].activated = ps] /\ link' = taken
        /\ poisoned' = poisoned \cup (actors \cap {PID(n, p.id)})
    BY <2>1, <2>5, Zenon DEF HandleDeactivation
  <2>7. AgentKnows(n, ps)
    BY <2>6, KnowsSet, Zenon
  <2>8. EndTaken(n, p)
    BY <1>6, <1>7, <1>11, <2>2, <2>4, <2>5, <2>6, <2>7, Zenon DEF EndTaken
  <2>9. \A m \in Nodes : /\ agent'[m].members = agent[m].members /\ agent'[m].kinds = agent[m].kinds
                         /\ agent'[m].waiting = agent[m].waiting
    BY <2>7, Zenon DEF AgentKnows
  <2>10. poisoned' \subseteq actors'
    BY <1>11, <2>6, Zenon DEF Typed
  <2>11. Typed'
    BY <1>7, <1>8, <1>11, <2>6, <2>7, <2>9, <2>10, ZenonT(40) DEF Typed, AgentKnows
  <2>12. ViewsSame
    BY <1>7, <1>8, <1>11, <2>6, <2>9, Zenon DEF ViewsSame
  <2>13. KindsInv => KindsInv'
    BY <1>11, <2>9, Zenon DEF KindsInv
  <2> QED BY <2>8, <2>11, <2>12, <2>13, Zenon
<1>12. CASE /\ msg.type = "ActivationRequest"
            /\ HandleActivationRequest(n, msg.call, taken)
            /\ UNCHANGED <<agent, poisoned, spawning, panics, race>>
  <2>1. PICK c \in Calls : c = msg.call /\ msg = ActivationRequest(c) /\ msg \in Asks
    BY <1>12, MailKinds, Zenon
  <2>2. PICK ok : ok = (KindOf[c.id] \in LocalKinds[n])
    BY Zenon
  <2>3. /\ link' = taken /\ agent' = agent /\ poisoned' = poisoned /\ race' = race
        /\ spawning' = spawning /\ panics' = panics
        /\ actors' = IF KindOf[c.id] \in LocalKinds[n] THEN actors \cup {PID(n, c.id)} ELSE actors
        /\ replies' = IF agent[c.node].waiting = c
                      THEN replies \cup {[call |-> c, success |-> KindOf[c.id] \in LocalKinds[n],
                                          pid |-> PID(n, c.id)]}
                      ELSE replies
    BY <1>12, <2>1, Zenon DEF HandleActivationRequest
  <2>4. link[n][s] \in Seq(Mails)
    BY <1>1, Zenon DEF LinkOK
  <2>5. Contents(link[n][s]) = Plus(Contents(Tail(link[n][s])), msg)
    BY <1>1, <1>5, <2>4, TailHolds, Zenon
  <2>6. AskBy(link, n, s, c)
    BY <2>1, <2>5, Zenon DEF AskBy, Plus
  <2>7. taken[n][s] = Tail(link[n][s]) /\ \A m, t \in Nodes : m # n \/ t # s => taken[m][t] = link[m][t]
    BY <1>4, Zenon DEF MailTaken
  <2>8. Alone(link[n][s]) => Alone(taken[n][s]) /\ NoAsk(taken[n][s])
    BY <1>1, <1>5, <2>1, <2>4, <2>7, AloneTail, Zenon
  <2>9. ASSUME NEW m \in Nodes, NEW t \in Nodes PROVE Alone(link[m][t]) => Alone(taken[m][t])
    BY <2>7, <2>8, <2>9, Zenon
  <2>10. ASSUME Alone(link[n][s]), NEW m \in Nodes, NEW t \in Nodes, NEW d \in Calls
         PROVE  AskBy(taken, m, t, d) <=> AskBy(link, m, t, d) /\ ~(m = n /\ t = s)
    <3>1. CASE m = n /\ t = s
      <4>1. ActivationRequest(d) \in Asks
        BY MailsApart, Zenon
      <4> QED BY <2>8, <2>10, <3>1, <4>1, Zenon DEF AskBy, NoAsk
    <3>2. CASE ~(m = n /\ t = s)
      BY <2>7, <2>10, <3>2, Zenon DEF AskBy
    <3> QED BY <3>1, <3>2, Zenon
  <2>11. MailIs(link, taken, {n}, ActivationRequest(c))
    BY <1>6, <2>1, Zenon
  <2>12. AskTaken(n, s, c)
    BY <1>7, <2>3, <2>6, <2>9, <2>10, <2>11, Zenon DEF AskTaken
  <2>13. PID(n, c.id) \in PIDs
    BY CallPID, Zenon
  <2>14. [call |-> c, success |-> KindOf[c.id] \in LocalKinds[n], pid |-> PID(n, c.id)] \in Reply
    BY <2>13 DEF Reply
  <2>15. replies' \subseteq Reply
    BY <2>3, <2>14, Zenon DEF Typed
  <2>16. actors' \subseteq PIDs /\ poisoned' \subseteq actors'
    BY <2>3, <2>13, Zenon DEF Typed
  <2>17. Typed'
    BY <1>7, <1>8, <2>3, <2>15, <2>16, Zenon DEF Typed
  <2>18. ViewsSame
    BY <1>7, <1>8, <2>3, Zenon DEF ViewsSame
  <2>19. KindsInv => KindsInv'
    BY <2>3, Zenon DEF KindsInv
  <2> QED BY <2>12, <2>17, <2>18, <2>19, Zenon
<1>13. CASE HandleNil(n, taken) /\ UNCHANGED replies
  <2>1. ListsSame(taken, link)
    BY <1>8, Zenon DEF ListsSame
  <2> QED BY <1>7, <1>8, <1>13, <2>1, NilSteps, Zenon
<1> QED
  <2>1. msg.type # "Members"
    BY MailKinds, Zenon
  <2> QED BY <1>2, <1>5, <1>10, <1>11, <1>12, <1>13, <2>1, Zenon DEF AgentReceive
-----------------------------------------------------------------------------
(* Steps of calls and actors *)

\* A message to all members of a set.
SentAll(ns, msg) ==
  /\ LinkOK(link') /\ ListsSame(link', link) /\ AsksSame(link', link)
  /\ MailIs(link', link, ns, msg)

LEMMA Tells ==
  ASSUME Typed, NEW ns, NEW n \in Nodes, NEW msg \in Mails, msg \notin Asks,
         link' = PostAll(link, ns, n, msg)
  PROVE  SentAll(ns, msg)
<1>1. LinkOK(link)
  BY Zenon DEF Typed
<1>2. AllPosted(link', link, ns, n, msg)
  BY <1>1, PostedAll, Zenon
<1>3. AsksSame(link', link)
  BY <1>1, <1>2, PostAsks, Zenon
<1>4. MailIs(link', link, ns, msg)
  BY <1>2, PostedIs, Zenon
<1> QED BY <1>2, <1>3, <1>4, Zenon DEF AllPosted, SentAll, ListsSame

LEMMA ActivationTells ==
  ASSUME NEW p \in PIDs
  PROVE  /\ Activation(p) \in News /\ Activation(p) \in Mails /\ Activation(p) \notin Asks
         /\ Deactivation(p) \in Mails /\ Deactivation(p) \notin Asks
BY MailsApart, Zenon

LEMMA BlankTells ==
  /\ Nil("Activation") \in Blanks /\ Nil("Deactivation") \in Blanks
  /\ \A x \in Blanks : x \in Mails /\ x \notin Asks
BY MailsApart, Zenon DEF Blanks

LEMMA TodoAfter ==
  ASSUME Typed, todo.left > 0
  PROVE  /\ \A c : [todo EXCEPT !.calls = @ \ {c}, !.left = @ - 1] \in Todo
         /\ \A i : [todo EXCEPT !.deactivate = @ \ {i}, !.left = @ - 1] \in Todo
         /\ \A p : [todo EXCEPT !.spawns = @ \ {p}, !.left = @ - 1] \in Todo
<1>1. todo \in Todo
  BY Zenon DEF Typed
<1>2. todo.left \in Nat /\ todo.left - 1 \in Nat
  BY <1>1 DEF Todo
<1>3. \A c : todo.calls \ {c} \in SUBSET Calls
  BY <1>1, Zenon DEF Todo
<1>4. \A i : todo.deactivate \ {i} \in SUBSET (PIDs \cup {None})
  BY <1>1, Zenon DEF Todo
<1>5. \A p : todo.spawns \ {p} \in SUBSET Spawns
  BY <1>1, Zenon DEF Todo
<1>6. ASSUME NEW c PROVE [todo EXCEPT !.calls = @ \ {c}, !.left = @ - 1] \in Todo
  BY <1>1, <1>2, <1>3, Zenon DEF Todo
<1>7. ASSUME NEW i PROVE [todo EXCEPT !.deactivate = @ \ {i}, !.left = @ - 1] \in Todo
  BY <1>1, <1>2, <1>4, Zenon DEF Todo
<1>8. ASSUME NEW p PROVE [todo EXCEPT !.spawns = @ \ {p}, !.left = @ - 1] \in Todo
  BY <1>1, <1>2, <1>5, Zenon DEF Todo
<1> QED BY <1>6, <1>7, <1>8, Zenon

\* The members and the lists on their way stay.
LEMMA MembersStay ==
  ASSUME plink' = plink, provider' = provider, unreachable' = unreachable, race \subseteq race',
         ListsSame(link', link), \A n \in Nodes : agent'[n].members = agent[n].members,
         panics' = panics
  PROVE  ViewsSame
BY Zenon DEF ViewsSame, ListsSame

\* activate() refuses, starts the actor here, tells of a nil PID, or asks another
\* member.
Refused(c) ==
  /\ LinkOK(link') /\ link' = link /\ agent' = agent /\ actors' = actors

Started(c) ==
  LET p == PID(c.node, c.id) IN
  /\ CanActivate(c.node, c.id) /\ c.node \in agent[c.node].members
  /\ agent' = agent /\ actors' = actors \cup {p}
  /\ SentAll(agent[c.node].members, Activation(p))

Blank(c) == agent' = agent /\ actors' = actors /\ SentAll(agent[c.node].members, Nil("Activation"))

Asked(c, m) ==
  /\ CanActivate(c.node, c.id) /\ m \in agent[c.node].members /\ m \in Nodes
  /\ agent[c.node].waiting = None /\ AgentWaits(c.node, c) /\ actors' = actors
  /\ MailIs(link', link, {m}, ActivationRequest(c))
  /\ \A k, t \in Nodes : \A d \in Calls :
       AskBy(link', k, t, d) <=> AskBy(link, k, t, d) \/ (k = m /\ t = c.node /\ d = c)
  /\ \A k, t \in Nodes : Alone(link[k][t]) /\ (t # c.node \/ NoAsk(link[k][t])) => Alone(link'[k][t])

LEMMA ActivateSteps ==
  ASSUME Typed, NEW c \in Calls, NEW to, Activate(c, to)
  PROVE  /\ Typed' /\ ViewsSame /\ (KindsInv => KindsInv')
         /\ UNCHANGED <<replies, poisoned, spawning, unreachable>>
         /\ race' = race \cup (IF Unsettled(c.id) THEN {"activate"} ELSE {})
                         \cup (IF Apart THEN {"apart"} ELSE {})
                         \cup (IF to # None /\ to \notin agent[c.node].members
                              THEN {"stranger"} ELSE {})
         /\ Refused(c) \/ Started(c) \/ Blank(c) \/ (\E m : Asked(c, m)) \/ "stranger" \in race'
<1>1. PICK n \in Nodes : n = c.node
  BY CallPID, ClusterAssumption, Zenon
<1>2. PICK p \in PIDs : p = PID(n, c.id)
  BY CallPID, Zenon
<1>3. /\ provider' = provider /\ plink' = plink /\ replies' = replies /\ poisoned' = poisoned
      /\ unreachable' = unreachable /\ spawning' = spawning
      /\ race' = race \cup (IF Unsettled(c.id) THEN {"activate"} ELSE {})
                      \cup (IF Apart THEN {"apart"} ELSE {})
                      \cup (IF to # None /\ to \notin agent[c.node].members
                           THEN {"stranger"} ELSE {})
      /\ panics' = panics
      /\ todo' = [todo EXCEPT !.calls = @ \ {c}, !.left = @ - 1] /\ todo.left > 0
      /\ agent[n].waiting = None
  BY <1>1, Zenon DEF Activate
<1>4. todo' \in Todo /\ race \subseteq race'
  BY <1>3, TodoAfter, Zenon
<1>5. LinkOK(link) /\ agent[n].members \subseteq Nodes
  BY AgentFields, Zenon DEF Typed, NodeSets
<1>6. CASE UNCHANGED <<agent, link, actors>>
  <2>1. Typed'
    BY <1>3, <1>4, <1>6, Zenon DEF Typed
  <2>2. ViewsSame
    BY <1>3, <1>4, <1>6, Zenon DEF ViewsSame
  <2>3. KindsInv => KindsInv'
    BY <1>3, <1>6, Zenon DEF KindsInv
  <2>4. Refused(c)
    BY <1>5, <1>6, Zenon DEF Refused
  <2> QED BY <1>3, <2>1, <2>2, <2>3, <2>4, Zenon
<1>9. FilterByKind(n, KindOf[c.id]) # {} => n \in agent[n].members
  BY Zenon DEF FilterByKind, Typed
<1>7. CASE /\ CanActivate(n, c.id) /\ FilterByKind(n, KindOf[c.id]) # {}
           /\ actors' = actors \cup {p}
           /\ link' = Bcast(n, Activation(p))
           /\ UNCHANGED agent
  <2>1. link' = PostAll(link, agent[n].members, n, Activation(p)) /\ n \in agent[n].members
    BY <1>7, <1>9, Zenon DEF Bcast
  <2>2. SentAll(agent[n].members, Activation(p))
    BY <2>1, ActivationTells, Tells, Zenon
  <2>3. actors' \subseteq PIDs /\ poisoned' \subseteq actors'
    BY <1>3, <1>7, Zenon DEF Typed
  <2>4. Typed'
    BY <1>3, <1>4, <1>7, <2>2, <2>3, Zenon DEF Typed, SentAll
  <2>5. ViewsSame
    BY <1>3, <1>4, <1>7, <2>2, Zenon DEF ViewsSame, SentAll, ListsSame
  <2>6. KindsInv => KindsInv'
    BY <1>3, <1>7, Zenon DEF KindsInv
  <2>7. Started(c)
    BY <1>1, <1>2, <1>7, <2>1, <2>2, Zenon DEF Started
  <2> QED BY <1>3, <2>4, <2>5, <2>6, <2>7, Zenon
<1>10. CASE link' = Bcast(n, Nil("Activation")) /\ UNCHANGED <<agent, actors>>
  <2>1. link' = PostAll(link, agent[n].members, n, Nil("Activation"))
    BY <1>10, Zenon DEF Bcast
  <2>2. SentAll(agent[n].members, Nil("Activation"))
    BY <2>1, BlankTells, Tells, Zenon
  <2>3. Typed'
    BY <1>3, <1>4, <1>10, <2>2, Zenon DEF Typed, SentAll
  <2>4. ViewsSame
    BY <1>3, <1>4, <1>10, <2>2, Zenon DEF ViewsSame, SentAll, ListsSame
  <2>5. KindsInv => KindsInv'
    BY <1>3, <1>10, Zenon DEF KindsInv
  <2>6. Blank(c)
    BY <1>1, <1>10, <2>2, Zenon DEF Blank
  <2> QED BY <1>3, <2>3, <2>4, <2>5, <2>6, Zenon
<1>8. CASE /\ CanActivate(n, c.id) /\ to \in Nodes /\ link' = Post(link, to, n, ActivationRequest(c))
           /\ agent' = [agent EXCEPT ![n].waiting = c]
           /\ UNCHANGED actors
  <2>1. PICK m \in Nodes : m = to /\ link' = Post(link, m, n, ActivationRequest(c))
    BY <1>8, Zenon
  <2>2. PICK msg \in Mails : msg = ActivationRequest(c) /\ msg \in Asks
    BY MailsApart, Zenon
  <2>3. m \in DOMAIN link /\ n \in DOMAIN link[m] /\ link[m][n] \in Seq(Mails)
    BY <1>5, Zenon DEF LinkOK
  <2>4. Sets(link', link, m, n, Append(link[m][n], msg))
    BY <2>1, <2>2, <2>3, Except, Zenon DEF Post
  <2>5. MailPosted(link', link, m, n, msg)
    BY <1>5, <2>4, PostedMail, Zenon
  <2>6. /\ LinkOK(link') /\ \A k \in Nodes : link'[k][Provider] = link[k][Provider]
        /\ MailPlus(link', link, m, msg)
        /\ \A k \in Nodes : k # m => MailOf(link', k) = MailOf(link, k)
        /\ link'[m][n] = Append(link[m][n], msg)
        /\ \A k, t \in Nodes : k # m \/ t # n => link'[k][t] = link[k][t]
    BY <2>5, Zenon DEF MailPosted
  <2>7. MailIs(link', link, {m}, msg)
    <3>1. ASSUME NEW k \in Nodes, NEW x
          PROVE  x \in MailOf(link', k) <=> x \in MailOf(link, k) \/ (k \in {m} /\ x = msg)
      <4>1. CASE k = m
        BY <2>6, <4>1, Zenon DEF MailPlus
      <4>2. CASE k # m
        BY <2>6, <3>1, <4>2, Zenon
      <4> QED BY <4>1, <4>2, Zenon
    <3> QED BY <3>1, Zenon DEF MailIs
  <2>8. Contents(link'[m][n]) = Plus(Contents(link[m][n]), msg)
    BY <2>3, <2>6, AppendHolds, Zenon
  <2>9. \A d \in Calls : ActivationRequest(d) = msg => d = c
    <3>1. \A d \in Calls : ActivationRequest(d).call = d
      BY MailsApart, Zenon
    <3> QED BY <2>2, <3>1, Zenon
  <2>10. ASSUME NEW k \in Nodes, NEW t \in Nodes, NEW d \in Calls
         PROVE  AskBy(link', k, t, d) <=> AskBy(link, k, t, d) \/ (k = m /\ t = n /\ d = c)
    <3>1. CASE k = m /\ t = n
      BY <2>2, <2>8, <2>9, <3>1 DEF AskBy, Plus
    <3>2. CASE ~(k = m /\ t = n)
      BY <2>6, <2>10, <3>2, Zenon DEF AskBy
    <3> QED BY <3>1, <3>2, Zenon
  <2>11. ASSUME NEW k \in Nodes, NEW t \in Nodes, Alone(link[k][t]), t # n \/ NoAsk(link[k][t])
         PROVE  Alone(link'[k][t])
    <3>1. CASE k = m /\ t = n
      <4>1. NoAsk(link[m][n])
        BY <2>11, <3>1, Zenon
      <4>2. Alone(Append(link[m][n], msg))
        BY <2>3, <4>1, AloneAppend, Zenon
      <4> QED BY <2>6, <3>1, <4>2, Zenon
    <3>2. CASE ~(k = m /\ t = n)
      BY <2>6, <2>11, <3>2, Zenon
    <3> QED BY <3>1, <3>2, Zenon
  <2>12. AgentWaits(n, c)
    BY <1>8, WaitsSet, Zenon DEF Waits
  <2>13. m \in agent[n].members => Asked(c, m)
    BY <1>1, <1>3, <1>8, <2>1, <2>2, <2>7, <2>10, <2>11, <2>12, Zenon DEF Asked
  <2>14. \A k \in Nodes : agent'[k].members = agent[k].members /\ agent'[k].kinds = agent[k].kinds
    BY <2>12, Zenon DEF AgentWaits
  <2>15. ASSUME NEW k \in Nodes PROVE agent'[k].waiting # None => agent'[k].waiting.node = k
    BY <1>1, <2>12, <2>15, Zenon DEF AgentWaits, Typed
  <2>16. Typed'
    BY <1>3, <1>4, <1>8, <2>6, <2>12, <2>14, <2>15, Zenon DEF Typed, AgentWaits
  <2>17. ViewsSame
    BY <1>3, <1>4, <2>6, <2>14, Zenon DEF ViewsSame
  <2>18. KindsInv => KindsInv'
    BY <1>3, <2>14, Zenon DEF KindsInv
  <2>19. m \notin agent[n].members => "stranger" \in race'
    BY <1>1, <1>3, <2>1, NoneApart, Zenon
  <2> QED BY <1>3, <2>13, <2>16, <2>17, <2>18, <2>19, Zenon
<1>11. CASE /\ to = Nowhere /\ agent' = [agent EXCEPT ![n].waiting = c]
            /\ UNCHANGED <<link, actors>>
  <2>1. AgentWaits(n, c)
    BY <1>11, WaitsSet, Zenon DEF Waits
  <2>2. \A k \in Nodes : agent'[k].members = agent[k].members /\ agent'[k].kinds = agent[k].kinds
    BY <2>1, Zenon DEF AgentWaits
  <2>3. ASSUME NEW k \in Nodes PROVE agent'[k].waiting # None => agent'[k].waiting.node = k
    BY <1>1, <2>1, <2>3, Zenon DEF AgentWaits, Typed
  <2>4. Typed'
    BY <1>3, <1>4, <1>11, <2>1, <2>2, <2>3, Zenon DEF Typed, AgentWaits
  <2>5. ViewsSame
    BY <1>3, <1>4, <1>11, <2>2, Zenon DEF ViewsSame
  <2>6. KindsInv => KindsInv'
    BY <1>3, <2>2, Zenon DEF KindsInv
  <2>7. to # None /\ to \notin Nodes
    BY <1>11, NoneApart, Zenon
  <2>8. "stranger" \in race'
    BY <1>1, <1>3, <1>5, <2>7, Zenon
  <2> QED BY <1>3, <2>4, <2>5, <2>6, <2>8, Zenon
<1> QED BY <1>1, <1>2, <1>6, <1>7, <1>8, <1>10, <1>11, Zenon DEF Activate
\* activate() goes on with the response.
Replied(n, r) ==
  /\ r \in replies /\ r.call = agent[n].waiting /\ agent[n].waiting # None
  /\ AgentWaits(n, None) /\ replies' = replies \ {r}
  /\ r.success => SentAll(agent[n].members, Activation(r.pid))
  /\ ~r.success => link' = link
  /\ UNCHANGED <<actors, poisoned, spawning, race, unreachable>>

LEMMA NoLongerWaits ==
  ASSUME Typed, NEW n \in Nodes, AgentWaits(n, None)
  PROVE  /\ \A k \in Nodes : agent'[k].members = agent[k].members /\ agent'[k].kinds = agent[k].kinds
         /\ \A k \in Nodes : agent'[k].waiting # None => agent'[k].waiting.node = k
         /\ \A k \in Nodes : agent'[k].members # {} => k \in agent'[k].members
<1>1. \A k \in Nodes : agent'[k].members = agent[k].members /\ agent'[k].kinds = agent[k].kinds
  BY Zenon DEF AgentWaits
<1>2. ASSUME NEW k \in Nodes PROVE agent'[k].waiting # None => agent'[k].waiting.node = k
  BY <1>2, Zenon DEF AgentWaits, Typed
<1>3. \A k \in Nodes : agent'[k].members # {} => k \in agent'[k].members
  BY <1>1, Zenon DEF Typed
<1> QED BY <1>1, <1>2, <1>3, Zenon

LEMMA ReplySteps ==
  ASSUME Typed, NEW n \in Nodes, ActivateReply(n)
  PROVE  Typed' /\ ViewsSame /\ (KindsInv => KindsInv') /\ \E r : Replied(n, r)
<1>1. PICK r \in replies : /\ r.call = agent[n].waiting
                           /\ link' = IF r.success THEN Bcast(n, Activation(r.pid)) ELSE link
                           /\ replies' = replies \ {r}
  BY Zenon DEF ActivateReply
<1>2. r.call \in Calls /\ r.pid \in PIDs
  BY DEF Typed, Reply
<1>3. r.call # None
  BY <1>2, NoneApart, Zenon
<1>4. /\ provider' = provider /\ plink' = plink /\ actors' = actors /\ poisoned' = poisoned
      /\ todo' = todo /\ unreachable' = unreachable /\ race' = race /\ spawning' = spawning
      /\ agent' = [agent EXCEPT ![n].waiting = None] /\ panics' = panics
  BY Zenon DEF ActivateReply
<1>5. AgentWaits(n, None)
  BY <1>4, WaitsSet, Zenon DEF Waits
<1>6. /\ \A k \in Nodes : agent'[k].members = agent[k].members /\ agent'[k].kinds = agent[k].kinds
      /\ \A k \in Nodes : agent'[k].waiting # None => agent'[k].waiting.node = k
      /\ \A k \in Nodes : agent'[k].members # {} => k \in agent'[k].members
  BY <1>5, NoLongerWaits, Zenon
<1>7. LinkOK(link)
  BY Zenon DEF Typed
<1>8. /\ r.success => SentAll(agent[n].members, Activation(r.pid))
      /\ ~r.success => link' = link
  <2>1. CASE r.success
    <3>1. link' = PostAll(link, agent[n].members, n, Activation(r.pid))
      BY <1>1, <2>1, Zenon DEF Bcast
    <3> QED BY <1>2, <2>1, <3>1, ActivationTells, Tells, Zenon
  <2>2. CASE ~r.success
    BY <1>1, <2>2, Zenon
  <2> QED BY <2>1, <2>2, Zenon
<1>9. LinkOK(link') /\ ListsSame(link', link)
  BY <1>7, <1>8, Zenon DEF SentAll, ListsSame
<1>10. Replied(n, r)
  BY <1>1, <1>3, <1>4, <1>5, <1>8, Zenon DEF Replied
<1>11. replies' \subseteq Reply
  BY <1>1, Zenon DEF Typed
<1>12. Typed'
  BY <1>4, <1>5, <1>6, <1>9, <1>11, Zenon DEF Typed, AgentWaits
<1>13. ViewsSame
  BY <1>4, <1>6, <1>9, Zenon DEF ViewsSame, ListsSame
<1>14. KindsInv => KindsInv'
  BY <1>4, <1>6, Zenon DEF KindsInv
<1> QED BY <1>10, <1>12, <1>13, <1>14, Zenon

LEMMA TimeoutSteps ==
  ASSUME Typed, NEW n \in Nodes, ActivateTimeout(n)
  PROVE  Typed' /\ ViewsSame /\ (KindsInv => KindsInv') /\ "timeout" \in race'
<1>1. /\ provider' = provider /\ plink' = plink /\ actors' = actors /\ poisoned' = poisoned
      /\ todo' = todo /\ unreachable' = unreachable /\ spawning' = spawning /\ link' = link
      /\ race' = race \cup {"timeout"} /\ replies' = {r \in replies : r.call # agent[n].waiting}
      /\ agent' = [agent EXCEPT ![n].waiting = None] /\ panics' = panics
  BY Zenon DEF ActivateTimeout
<1>2. AgentWaits(n, None)
  BY <1>1, WaitsSet, Zenon DEF Waits
<1>3. /\ \A k \in Nodes : agent'[k].members = agent[k].members /\ agent'[k].kinds = agent[k].kinds
      /\ \A k \in Nodes : agent'[k].waiting # None => agent'[k].waiting.node = k
      /\ \A k \in Nodes : agent'[k].members # {} => k \in agent'[k].members
  BY <1>2, NoLongerWaits, Zenon
<1>4. replies' \subseteq Reply
  BY <1>1, Zenon DEF Typed
<1>5. Typed'
  BY <1>1, <1>2, <1>3, <1>4, Zenon DEF Typed, AgentWaits
<1>6. ViewsSame
  BY <1>1, <1>3, Zenon DEF ViewsSame
<1>7. KindsInv => KindsInv'
  BY <1>1, <1>3, Zenon DEF KindsInv
<1> QED BY <1>1, <1>5, <1>6, <1>7, Zenon

LEMMA DeactivateSteps ==
  ASSUME Typed, NEW n \in Nodes, NEW p, Deactivate(n, p)
  PROVE  /\ Typed' /\ ViewsSame /\ (KindsInv => KindsInv')
         /\ \/ /\ p \in PIDs /\ SentAll(agent[n].members, Deactivation(p))
               /\ race' = race \cup (IF Apart \/ Unsettled(p.id) THEN {"deactivate"} ELSE {})
            \/ SentAll(agent[n].members, Nil("Deactivation")) /\ race' = race
         /\ UNCHANGED <<agent, replies, actors, poisoned, spawning, unreachable>>
<1>1. /\ provider' = provider /\ plink' = plink /\ actors' = actors /\ poisoned' = poisoned
      /\ replies' = replies /\ unreachable' = unreachable /\ spawning' = spawning /\ agent' = agent
      /\ todo.left > 0 /\ todo' = [todo EXCEPT !.deactivate = @ \ {p}, !.left = @ - 1]
      /\ panics' = panics /\ p \in todo.deactivate
  BY Zenon DEF Deactivate
<1>2. p # None => p \in PIDs
  BY <1>1 DEF Typed, Todo
<1>3. \/ /\ p \in PIDs /\ SentAll(agent[n].members, Deactivation(p))
         /\ race' = race \cup (IF Apart \/ Unsettled(p.id) THEN {"deactivate"} ELSE {})
      \/ SentAll(agent[n].members, Nil("Deactivation")) /\ race' = race
  <2>1. CASE /\ p # None /\ link' = PostAll(link, agent[n].members, n, Deactivation(p))
             /\ race' = race \cup (IF Apart \/ Unsettled(p.id) THEN {"deactivate"} ELSE {})
    BY <1>2, <2>1, ActivationTells, Tells, Zenon
  <2>2. CASE link' = PostAll(link, agent[n].members, n, Nil("Deactivation")) /\ race' = race
    BY <2>2, BlankTells, Tells, Zenon
  <2> QED BY <2>1, <2>2, Zenon DEF Deactivate, Bcast
<1>4. todo' \in Todo
  BY <1>1, TodoAfter, Zenon
<1>8. LinkOK(link') /\ ListsSame(link', link) /\ race \subseteq race'
  BY <1>3, Zenon DEF SentAll
<1>5. Typed'
  BY <1>1, <1>4, <1>8, Zenon DEF Typed
<1>6. ViewsSame
  BY <1>1, <1>8, Zenon DEF ViewsSame, ListsSame
<1>7. KindsInv => KindsInv'
  BY <1>1, Zenon DEF KindsInv
<1> QED BY <1>1, <1>3, <1>5, <1>6, <1>7, Zenon

LEMMA SpawnPID ==
  ASSUME NEW w \in Spawning
  PROVE  /\ w.pid \in Spawns /\ w.pid \in PIDs /\ w.members \in NodeSets \cup {None}
         /\ \A ms \in NodeSets : /\ [w EXCEPT !.members = ms] \in Spawning
                                 /\ [w EXCEPT !.members = ms].pid = w.pid
                                 /\ [w EXCEPT !.members = ms].members = ms
<1>1. w.pid \in Spawns /\ w.members \in NodeSets \cup {None}
  BY DEF Spawning
<1>2. w.pid \in PIDs
  BY <1>1, ClusterAssumption, Zenon DEF PIDs
<1>3. ASSUME NEW ms \in NodeSets
      PROVE  /\ [w EXCEPT !.members = ms] \in Spawning /\ [w EXCEPT !.members = ms].pid = w.pid
             /\ [w EXCEPT !.members = ms].members = ms
  BY DEF Spawning
<1> QED BY <1>1, <1>2, <1>3, Zenon

LEMMA SpawnSteps ==
  ASSUME Typed, NEW p, Spawn(p)
  PROVE  /\ Typed' /\ ViewsSame /\ (KindsInv => KindsInv')
         /\ p \in PIDs /\ actors' = actors \cup {p}
         /\ spawning' = spawning \cup {[pid |-> p, members |-> None]}
         /\ race' = race \cup (IF Unsettled(p.id) \/ \E q \in actors : q.id = p.id
                              THEN {"activate"} ELSE {})
         /\ UNCHANGED <<agent, link, replies, poisoned, unreachable>>
<1>1. /\ provider' = provider /\ plink' = plink /\ poisoned' = poisoned /\ agent' = agent
      /\ link' = link /\ replies' = replies /\ unreachable' = unreachable
      /\ actors' = actors \cup {p} /\ spawning' = spawning \cup {[pid |-> p, members |-> None]}
      /\ todo.left > 0 /\ todo' = [todo EXCEPT !.spawns = @ \ {p}, !.left = @ - 1]
      /\ race' = race \cup (IF Unsettled(p.id) \/ \E q \in actors : q.id = p.id
                           THEN {"activate"} ELSE {})
      /\ p \in todo.spawns /\ panics' = panics
  BY Zenon DEF Spawn
<1>2. p \in Spawns
  BY <1>1 DEF Typed, Todo
<1>3. p \in PIDs /\ [pid |-> p, members |-> None] \in Spawning
  BY <1>2, ClusterAssumption, Zenon DEF PIDs, Spawning
<1>4. todo' \in Todo
  BY <1>1, TodoAfter, Zenon
<1>5. spawning' \subseteq Spawning /\ actors' \subseteq PIDs /\ poisoned' \subseteq actors'
  BY <1>1, <1>3, Zenon DEF Typed
<1>6. Typed'
  BY <1>1, <1>4, <1>5, Zenon DEF Typed
<1>7. ViewsSame
  BY <1>1, Zenon DEF ViewsSame
<1>8. KindsInv => KindsInv'
  BY <1>1, Zenon DEF KindsInv
<1> QED BY <1>1, <1>3, <1>6, <1>7, <1>8, Zenon

LEMMA SpawnMembersSteps ==
  ASSUME Typed, NEW w \in spawning, SpawnMembers(w)
  PROVE  Typed' /\ ViewsSame /\ (KindsInv => KindsInv')
<1>1. w \in Spawning
  BY Zenon DEF Typed
<1>2. w.pid.host \in Nodes
  BY <1>1, SpawnPID DEF PIDs
<1>3. agent[w.pid.host].members \in NodeSets
  BY <1>2, AgentFields, Zenon DEF Typed
<1>4. [w EXCEPT !.members = agent[w.pid.host].members] \in Spawning
  BY <1>1, <1>3, SpawnPID, Zenon
<1>5. spawning' \subseteq Spawning
  BY <1>4, Zenon DEF SpawnMembers, Typed
<1>6. Typed'
  BY <1>5, Zenon DEF SpawnMembers, Typed
<1>7. ViewsSame
  BY Zenon DEF SpawnMembers, ViewsSame
<1>8. KindsInv => KindsInv'
  BY Zenon DEF SpawnMembers, KindsInv
<1> QED BY <1>6, <1>7, <1>8, Zenon

LEMMA SpawnTimeoutSteps ==
  ASSUME Typed, NEW w \in spawning, SpawnTimeout(w)
  PROVE  Typed' /\ ViewsSame /\ (KindsInv => KindsInv') /\ "timeout" \in race'
<1>1. w \in Spawning /\ {} \in NodeSets
  BY Zenon DEF Typed, NodeSets
<1>2. [w EXCEPT !.members = {}] \in Spawning
  BY <1>1, SpawnPID, Zenon
<1>3. spawning' \subseteq Spawning
  BY <1>2, Zenon DEF SpawnTimeout, Typed
<1>4. Typed'
  BY <1>3, Zenon DEF SpawnTimeout, Typed
<1>5. ViewsSame
  BY Zenon DEF SpawnTimeout, ViewsSame
<1>6. KindsInv => KindsInv'
  BY Zenon DEF SpawnTimeout, KindsInv
<1>7. "timeout" \in race'
  BY Zenon DEF SpawnTimeout
<1> QED BY <1>4, <1>5, <1>6, <1>7, Zenon

LEMMA SpawnAnnounceSteps ==
  ASSUME Typed, NEW w \in spawning, SpawnAnnounce(w)
  PROVE  /\ Typed' /\ ViewsSame /\ (KindsInv => KindsInv')
         /\ w.pid \in PIDs /\ w.pid.host \in Nodes /\ w.members # None
         /\ SentAll(w.members, Activation(w.pid)) /\ spawning' = spawning \ {w}
         /\ UNCHANGED <<agent, replies, actors, poisoned, unreachable, race>>
<1>1. w \in Spawning
  BY Zenon DEF Typed
<1>2. w.pid \in PIDs /\ w.pid.host \in Nodes
  BY <1>1, SpawnPID DEF PIDs
<1>3. /\ provider' = provider /\ plink' = plink /\ poisoned' = poisoned /\ agent' = agent
      /\ replies' = replies /\ unreachable' = unreachable /\ actors' = actors /\ race' = race
      /\ todo' = todo /\ spawning' = spawning \ {w} /\ w.members # None
      /\ panics' = panics
      /\ link' = PostAll(link, w.members, w.pid.host, Activation(w.pid))
  BY Zenon DEF SpawnAnnounce
<1>4. SentAll(w.members, Activation(w.pid))
  BY <1>2, <1>3, ActivationTells, Tells, Zenon
<1>5. spawning' \subseteq Spawning
  BY <1>3, Zenon DEF Typed
<1>6. Typed'
  BY <1>3, <1>4, <1>5, Zenon DEF Typed, SentAll
<1>7. ViewsSame
  BY <1>3, <1>4, Zenon DEF ViewsSame, SentAll, ListsSame
<1>8. KindsInv => KindsInv'
  BY <1>3, Zenon DEF KindsInv
<1> QED BY <1>2, <1>3, <1>4, <1>6, <1>7, <1>8, Zenon

LEMMA StopsSteps ==
  ASSUME Typed, NEW p \in poisoned, ActorStops(p)
  PROVE  Typed' /\ ViewsSame /\ (KindsInv => KindsInv')
<1>1. actors' \subseteq PIDs /\ poisoned' \subseteq actors'
  BY Zenon DEF ActorStops, Typed
<1>2. Typed'
  BY <1>1, Zenon DEF ActorStops, Typed
<1>3. ViewsSame
  BY Zenon DEF ActorStops, ViewsSame
<1>4. KindsInv => KindsInv'
  BY Zenon DEF ActorStops, KindsInv
<1> QED BY <1>2, <1>3, <1>4, Zenon
-----------------------------------------------------------------------------
(* Actors are started and announced *)

\* Steps that start actors, and tell agents of actors that run.
Growing ==
  /\ \A n \in Nodes : agent'[n].members = agent[n].members /\ agent'[n].activated = agent[n].activated
  /\ poisoned' = poisoned /\ EndsSame(link', link) /\ actors \subseteq actors'
  /\ \A i \in Ids : Starting(i)' => Starting(i) \/ ~Ending(i)
  /\ \A n \in Nodes : \A q \in PIDs : Told(n, q) => Told(n, q)'
  /\ \A n \in Nodes : \A q \in PIDs : Told(n, q)' => Told(n, q) \/ (q \in actors' /\ ~Ending(q.id))
  /\ \A n \in Nodes : \A q \in PIDs : Activation(q) \in Mail(n) => Activation(q) \in Mail(n)'
  /\ \A p \in actors' : p \in actors \/ ~Ending(p.id)
  /\ \A p \in actors' : p \notin actors \/ ByReply(p) \/ BySpawn(p) => Reported(p)'

LEMMA PIDIds == \A p \in PIDs : p.id \in Ids /\ p.host \in Nodes
BY DEF PIDs

LEMMA Grows ==
  ASSUME Typed, Typed', EndingInv, Valid, Announced, Growing
  PROVE  EndingInv' /\ Valid' /\ Announced'
<1>1. \A i : Ending(i)' <=> Ending(i)
  BY Zenon DEF Growing, Ending, EndsSame, Deacts
<1>2. \A n \in Nodes : \A i : Deacts(n, i)' <=> Deacts(n, i)
  BY Zenon DEF Growing, EndsSame, Deacts
<1>3. /\ \A n \in Nodes : agent'[n].members = agent[n].members
      /\ \A n \in Nodes : agent'[n].activated = agent[n].activated
      /\ poisoned' = poisoned /\ actors \subseteq actors' /\ actors' \subseteq PIDs
      /\ \A i \in Ids : Starting(i)' => Starting(i) \/ ~Ending(i)
      /\ \A n \in Nodes : \A q \in PIDs : Told(n, q) => Told(n, q)'
      /\ \A n \in Nodes : \A q \in PIDs : Told(n, q)' => Told(n, q) \/ (q \in actors' /\ ~Ending(q.id))
      /\ \A n \in Nodes : \A q \in PIDs : Activation(q) \in Mail(n) => Activation(q) \in Mail(n)'
      /\ \A p \in actors' : p \in actors \/ ~Ending(p.id)
      /\ \A p \in actors' : p \notin actors \/ ByReply(p) \/ BySpawn(p) => Reported(p)'
  BY Zenon DEF Growing, Typed
<1>4. EndingInv'
  <2>1. ASSUME NEW i \in Ids, Ending(i)'
        PROVE  /\ ~Starting(i)'
               /\ \A n \in Nodes : agent'[n].members = Nodes
               /\ \A n \in Nodes : \A q \in PIDs : q.id = i =>
                    /\ ~Told(n, q)'
                    /\ q \in agent'[n].activated => Deacts(n, i)'
               /\ \A p \in actors' : p.id = i => p \in poisoned' \/ Deacts(p.host, i)'
    <3>1. /\ Ending(i) /\ ~Starting(i)
          /\ \A n \in Nodes : agent[n].members = Nodes
          /\ \A n \in Nodes : \A q \in PIDs : q.id = i =>
               /\ ~Told(n, q)
               /\ q \in agent[n].activated => Deacts(n, i)
          /\ \A p \in actors : p.id = i => p \in poisoned \/ Deacts(p.host, i)
      BY <1>1, <2>1, Zenon DEF EndingInv
    <3>2. ~Starting(i)'
      BY <1>3, <3>1, Zenon
    <3>3. \A n \in Nodes : agent'[n].members = Nodes
      BY <1>3, <3>1, Zenon
    <3>4. \A n \in Nodes : \A q \in PIDs : q.id = i =>
            /\ ~Told(n, q)'
            /\ q \in agent'[n].activated => Deacts(n, i)'
      BY <1>2, <1>3, <3>1, Zenon
    <3>5. ASSUME NEW p \in actors', p.id = i PROVE p \in poisoned' \/ Deacts(p.host, i)'
      <4>1. p \in actors /\ p.host \in Nodes
        BY <1>3, <3>1, <3>5, PIDIds, Zenon
      <4> QED BY <1>2, <1>3, <3>1, <3>5, <4>1, Zenon
    <3> QED BY <3>2, <3>3, <3>4, <3>5, Zenon
  <2> QED BY <2>1, Zenon DEF EndingInv
<1>5. Valid'
  <2>1. ASSUME NEW n \in Nodes, NEW q \in PIDs, Knows(n, q)' PROVE q \in actors' \/ Ending(q.id)'
    <3>1. Knows(n, q) \/ q \in actors'
      BY <1>3, <2>1, Zenon DEF Knows
    <3> QED BY <1>1, <1>3, <2>1, <3>1, Zenon DEF Valid
  <2> QED BY <2>1, Zenon DEF Valid
<1>6. Announced'
  <2>1. \A n \in Nodes : \A i : Informed(n, i) => Informed(n, i)'
    BY <1>3, Zenon DEF Informed, Knows
  <2>2. ASSUME NEW p \in actors', ByAgent(p) PROVE ByAgent(p)'
    <3>1. PICK a \in Nodes :
            /\ p.host \in agent[a].members
            /\ \A n \in agent[a].members : Informed(n, p.id)
            /\ \E q \in PIDs : q.id = p.id /\ (q \in agent[a].activated \/ Activation(q) \in Mail(a))
      BY <2>2, Zenon DEF ByAgent
    <3>2. agent[a].members \subseteq Nodes
      BY AgentFields, Zenon DEF Typed, NodeSets
    <3>3. p.host \in agent'[a].members /\ \A n \in agent'[a].members : Informed(n, p.id)'
      BY <1>3, <2>1, <3>1, <3>2, Zenon
    <3>4. \E q \in PIDs : q.id = p.id /\ (q \in agent'[a].activated \/ Activation(q) \in Mail(a)')
      BY <1>3, <3>1, Zenon
    <3> QED BY <3>3, <3>4, Zenon DEF ByAgent
  <2>3. ASSUME NEW p \in actors' PROVE Reported(p)' \/ Ending(p.id)'
    <3>1. CASE p \in actors
      <4>1. Reported(p) \/ Ending(p.id)
        BY <3>1, Zenon DEF Announced
      <4> QED BY <1>1, <1>3, <2>2, <2>3, <4>1, Zenon DEF Reported
    <3>2. CASE p \notin actors
      BY <1>3, <2>3, <3>2, Zenon
    <3> QED BY <3>1, <3>2, Zenon
  <2> QED BY <2>3, Zenon DEF Announced
<1> QED BY <1>4, <1>5, <1>6, Zenon

\* An agent that has told all its members of an actor on one of them.
LEMMA TellsMembers ==
  ASSUME Typed, NEW a \in Nodes, NEW p \in PIDs, p.host \in agent[a].members,
         agent'[a].members = agent[a].members,
         SentAll(agent[a].members, Activation(p))
  PROVE  Reported(p)'
<1>1. MailIs(link', link, agent[a].members, Activation(p)) /\ Activation(p) \in News
  BY ActivationTells, Zenon DEF SentAll
<1>2. /\ agent[a].members \subseteq Nodes /\ a \in agent[a].members
  <2>1. agent[a].members # {}
    BY Zenon
  <2> QED BY <2>1, AgentFields, Zenon DEF Typed, NodeSets
<1>3. \A m \in agent[a].members : Activation(p) \in MailOf(link', m)
  BY <1>1, <1>2, Zenon DEF MailIs
<1>4. p \in Activation(p).pids
  <2>1. Activation(p).pids = {p}
    BY MailsApart, Zenon
  <2> QED BY <2>1, Zenon
<1>5. \A m \in agent[a].members : Told(m, p)'
  BY <1>1, <1>3, <1>4, Zenon DEF Told, ToldBy
<1>6. \A m \in agent'[a].members : Informed(m, p.id)'
  BY <1>5, Zenon DEF Informed, Knows
<1>7. Activation(p) \in Mail(a)'
  BY <1>2, <1>3, Zenon DEF Mail
<1>8. ByAgent(p)'
  BY <1>6, <1>7, Zenon DEF ByAgent
<1> QED BY <1>8, Zenon DEF Reported

\* Nothing about an id is under way.
LEMMA Settled ==
  ASSUME Typed, NEW i, ~Unsettled(i)
  PROVE  /\ ~Starting(i) /\ ~Ending(i)
         /\ \A n \in Nodes : \A q : q.id = i => ~Told(n, q)
<1>1. /\ \A n \in Nodes : ~(agent[n].waiting # None /\ agent[n].waiting.id = i)
      /\ \A p \in poisoned : p.id # i
      /\ \A w \in spawning : w.pid.id # i
      /\ \A n, s \in Nodes : \A k \in DOMAIN link[n][s] : \A p \in link[n][s][k].pids : p.id # i
  BY Zenon DEF Unsettled
<1>2. ASSUME NEW n \in Nodes, NEW msg \in MailOf(link, n), NEW p \in msg.pids PROVE p.id # i
  <2>1. PICK s \in Nodes : msg \in Contents(link[n][s])
    BY <1>2, MailByQueue, Zenon
  <2>2. link[n][s] \in Seq(Mails)
    BY Zenon DEF Typed, LinkOK
  <2>3. DOMAIN link[n][s] = 1..Len(link[n][s])
    BY <2>2
  <2>4. PICK k \in DOMAIN link[n][s] : msg = link[n][s][k]
    BY <2>1, <2>3, Zenon DEF Contents
  <2> QED BY <1>1, <1>2, <2>4, Zenon
<1>3. ~Starting(i)
  BY <1>1, Zenon DEF Starting
<1>4. \A n \in Nodes : ~Deacts(n, i)
  <2>1. \A p \in PIDs : p \in Deactivation(p).pids
    BY MailsApart, ZenonT(40)
  <2> QED BY <1>2, <2>1, Zenon DEF Deacts, DeactsBy
<1>5. ~Ending(i)
  BY <1>1, <1>4, Zenon DEF Ending
<1>6. \A n \in Nodes : \A q : q.id = i => ~Told(n, q)
  BY <1>2, Zenon DEF Told, ToldBy
<1> QED BY <1>3, <1>5, <1>6, Zenon
\* Requests and responses are left alone.
AskFrame ==
  /\ AsksSame(link', link) /\ replies' = replies
  /\ \A n \in Nodes : agent'[n].waiting = agent[n].waiting
  /\ \A n \in Nodes : agent[n].members \subseteq agent'[n].members
  /\ \A r \in replies : r.success => r.pid \in actors'

LEMMA ReplyFields ==
  ASSUME Typed, NEW r \in replies
  PROVE  /\ r.call \in Calls /\ r.pid \in PIDs /\ r.call.node \in Nodes /\ r.call.id \in Ids
         /\ r.call # None
<1>1. r.call \in Calls /\ r.pid \in PIDs
  BY DEF Typed, Reply
<1>2. r.call.node \in Nodes /\ r.call.id \in Ids
  BY <1>1, ClusterAssumption, Zenon
<1> QED BY <1>1, <1>2, NoneApart, Zenon

LEMMA AskingKept ==
  ASSUME Typed, Asking, AskFrame
  PROVE  Asking'
<1>1. /\ \A m, t \in Nodes : Alone(link[m][t]) => Alone(link'[m][t])
      /\ \A m, t \in Nodes : \A c \in Calls : AskBy(link', m, t, c) <=> AskBy(link, m, t, c)
      /\ replies' = replies
      /\ \A n \in Nodes : agent'[n].waiting = agent[n].waiting
      /\ \A n \in Nodes : agent[n].members \subseteq agent'[n].members
      /\ \A r \in replies : r.success => r.pid \in actors'
  BY Zenon DEF AskFrame, AsksSame
<1>2. \A n, s \in Nodes : Alone(link'[n][s])
  BY <1>1, Zenon DEF Asking
<1>3. ASSUME NEW n \in Nodes, NEW s \in Nodes, NEW c \in Calls, AskBy(link', n, s, c)
      PROVE  /\ s = c.node /\ agent'[s].waiting = c /\ n \in agent'[s].members
             /\ \A r \in replies' : r.call # c
             /\ \A m \in Nodes : \A d \in Calls : AskBy(link', m, s, d) => m = n
  <2>1. AskBy(link, n, s, c)
    BY <1>1, <1>3, Zenon
  <2>2. /\ s = c.node /\ agent[s].waiting = c /\ n \in agent[s].members
        /\ \A r \in replies : r.call # c
        /\ \A m \in Nodes : \A d \in Calls : AskBy(link, m, s, d) => m = n
    BY <1>3, <2>1, Zenon DEF Asking
  <2> QED BY <1>1, <1>3, <2>2, Zenon
<1>4. ASSUME NEW r \in replies
      PROVE  /\ agent'[r.call.node].waiting = r.call
             /\ r.pid.id = r.call.id /\ r.pid.host \in agent'[r.call.node].members
             /\ r.success => r.pid \in actors'
             /\ \A t \in replies : t.call = r.call => t = r
  <2>1. r.call.node \in Nodes
    BY ReplyFields, Zenon
  <2>2. /\ agent[r.call.node].waiting = r.call
        /\ r.pid.id = r.call.id /\ r.pid.host \in agent[r.call.node].members
        /\ \A t \in replies : t.call = r.call => t = r
    BY <1>4, Zenon DEF Asking
  <2> QED BY <1>1, <2>1, <2>2, Zenon
<1> QED BY <1>1, <1>2, <1>3, <1>4, Zenon DEF Asking

\* Steps after which the agents know and hear of what they did before.
LEMMA SoundUnheard ==
  ASSUME Typed, Typed', Sound, agent' = agent, replies' = replies, actors' = actors,
         poisoned' = poisoned, spawning' = spawning, NewsSame(link', link), EndsSame(link', link),
         ActsSame(link', link), AsksSame(link', link)
  PROVE  Sound'
<1>1. NewsSame(link', link) /\ EndsSame(link', link) /\ ActsSame(link', link) /\ AsksSame(link', link)
  OBVIOUS
<1>2. AskFrame
  BY <1>1, Zenon DEF AskFrame, Sound, Asking
<1>3. Asking'
  BY <1>2, AskingKept, Zenon DEF Sound
<1>4. SpawningInv'
  BY Zenon DEF Sound, SpawningInv
<1>5. Growing
  <2>1. \A i : Starting(i)' <=> Starting(i)
    BY Zenon DEF Starting
  <2>2. \A n \in Nodes : \A q \in PIDs : Told(n, q)' <=> Told(n, q)
    BY <1>1, Zenon DEF NewsSame, Told
  <2>3. \A n \in Nodes : \A q \in PIDs : Activation(q) \in Mail(n)' <=> Activation(q) \in Mail(n)
    BY <1>1, Zenon DEF ActsSame, Mail
  <2>4. \A p : (ByReply(p) => ByReply(p)') /\ (BySpawn(p) => BySpawn(p)')
    BY Zenon DEF ByReply, BySpawn
  <2>5. \A p \in actors' : p \notin actors \/ ByReply(p) \/ BySpawn(p) => Reported(p)'
    BY <2>4, Zenon DEF Reported
  <2> QED BY <1>1, <2>1, <2>2, <2>3, <2>5, Zenon DEF Growing
<1>6. EndingInv' /\ Valid' /\ Announced'
  BY <1>5, Grows, Zenon DEF Sound
<1> QED BY <1>3, <1>4, <1>6, Zenon DEF Sound

\* Steps of the providers, and calls that are refused.
LEMMA SoundSame ==
  ASSUME Typed, Typed', Sound, agent' = agent, replies' = replies, actors' = actors,
         poisoned' = poisoned, spawning' = spawning, \A m, t \in Nodes : link'[m][t] = link[m][t]
  PROVE  Sound'
<1>1. QueuesSame(link', link)
  BY Zenon DEF QueuesSame
<1> QED BY <1>1, NoMail, SoundUnheard, Zenon

\* A nil PID is sent to some agents.
LEMMA SoundBlank ==
  ASSUME Typed, Typed', Sound, agent' = agent, replies' = replies, actors' = actors,
         poisoned' = poisoned, spawning' = spawning, NEW ns, NEW msg \in Blanks, SentAll(ns, msg)
  PROVE  Sound'
<1>1. AsksSame(link', link) /\ MailIs(link', link, ns, msg)
  BY Zenon DEF SentAll
<1>2. NewsSame(link', link) /\ EndsSame(link', link) /\ ActsSame(link', link)
  BY <1>1, BlankMail, Zenon
<1> QED BY <1>1, <1>2, SoundUnheard, Zenon

\* activate() starts the actor on its own node.
LEMMA SoundStarted ==
  ASSUME Typed, Typed', Sound, NEW c \in Calls, Started(c), ~Unsettled(c.id),
         UNCHANGED <<replies, poisoned, spawning>>
  PROVE  Sound'
<1>1. PICK n \in Nodes : n = c.node
  BY CallPID, ClusterAssumption, Zenon
<1>2. PICK p \in PIDs : p = PID(n, c.id) /\ p.host = n /\ p.id = c.id
  BY CallPID, Zenon
<1>3. /\ n \in agent[n].members /\ agent' = agent /\ actors' = actors \cup {p}
      /\ SentAll(agent[n].members, Activation(p))
  BY <1>1, <1>2, Zenon DEF Started
<1>4. ~Starting(c.id) /\ ~Ending(c.id)
  BY Settled, Zenon
<1>5. /\ AsksSame(link', link) /\ MailIs(link', link, agent[n].members, Activation(p))
      /\ Activation(p) \in News
  BY <1>3, ActivationTells, Zenon DEF SentAll
<1>6. /\ NewsSent(link', link, agent[n].members, Activation(p).pids) /\ EndsSame(link', link)
      /\ ActsSent(link', link, agent[n].members, Activation(p))
  BY <1>5, NewsMail, Zenon
<1>7. Asking'
  <2>1. AskFrame
    BY <1>3, <1>5, Zenon DEF AskFrame, Sound, Asking
  <2> QED BY <2>1, AskingKept, Zenon DEF Sound
<1>8. SpawningInv'
  BY <1>3, Zenon DEF Sound, SpawningInv
<1>9. Growing
  <2>1. \A i : Starting(i)' <=> Starting(i)
    BY <1>3, Zenon DEF Starting
  <2>2. Activation(p).pids = {p}
    BY MailsApart, Zenon
  <2>3. \A m \in Nodes : \A q \in PIDs : Told(m, q) => Told(m, q)'
    BY <1>6, Zenon DEF NewsSent, Told
  <2>4. \A m \in Nodes : \A q \in PIDs : Told(m, q)' => Told(m, q) \/ (q \in actors' /\ ~Ending(q.id))
    BY <1>2, <1>3, <1>4, <1>6, <2>2, Zenon DEF NewsSent, Told
  <2>5. \A m \in Nodes : \A q \in PIDs : Activation(q) \in Mail(m) => Activation(q) \in Mail(m)'
    BY <1>6, Zenon DEF ActsSent, Mail
  <2>6. \A q \in actors' : q \in actors \/ ~Ending(q.id)
    BY <1>2, <1>3, <1>4, Zenon
  <2>7. \A q : (ByReply(q) => ByReply(q)') /\ (BySpawn(q) => BySpawn(q)')
    BY Zenon DEF ByReply, BySpawn
  <2>8. Reported(p)'
    BY <1>2, <1>3, TellsMembers, Zenon
  <2>9. \A q \in actors' : q \notin actors \/ ByReply(q) \/ BySpawn(q) => Reported(q)'
    BY <1>3, <2>7, <2>8, Zenon DEF Reported
  <2>10. actors \subseteq actors'
    BY <1>3, Zenon
  <2> QED BY <1>3, <1>6, <2>1, <2>3, <2>4, <2>5, <2>6, <2>9, <2>10, Zenon DEF Growing
<1>10. EndingInv' /\ Valid' /\ Announced'
  BY <1>9, Grows, Zenon DEF Sound
<1> QED BY <1>7, <1>8, <1>10, Zenon DEF Sound
LEMMA SpawnHost ==
  ASSUME Typed
  PROVE  \A w \in spawning : w.pid \in PIDs /\ w.pid.host \in Nodes /\ w.pid.id \in Ids
<1>1. ASSUME NEW w \in spawning PROVE w.pid \in PIDs
  BY SpawnPID, Zenon DEF Typed
<1> QED BY <1>1, PIDIds, Zenon

\* activate() asks another member.
LEMMA SoundAsked ==
  ASSUME Typed, Typed', Sound, NEW c \in Calls, NEW m, Asked(c, m), ~Unsettled(c.id),
         UNCHANGED <<replies, poisoned, spawning>>
  PROVE  Sound'
<1>1. PICK n \in Nodes : n = c.node
  BY CallPID, ClusterAssumption, Zenon
<1>2. /\ m \in agent[n].members /\ m \in Nodes /\ agent[n].waiting = None /\ actors' = actors
      /\ \A k \in Nodes : k # n => agent'[k] = agent[k]
      /\ agent'[n].members = agent[n].members
      /\ agent'[n].activated = agent[n].activated /\ agent'[n].waiting = c
      /\ MailIs(link', link, {m}, ActivationRequest(c))
      /\ \A k, t \in Nodes : \A d \in Calls :
           AskBy(link', k, t, d) <=> AskBy(link, k, t, d) \/ (k = m /\ t = n /\ d = c)
      /\ \A k, t \in Nodes : Alone(link[k][t]) /\ (t # n \/ NoAsk(link[k][t])) => Alone(link'[k][t])
  BY <1>1, Zenon DEF Asked, AgentWaits
<1>3. /\ \A k \in Nodes : agent'[k].members = agent[k].members
      /\ \A k \in Nodes : agent'[k].activated = agent[k].activated
  BY <1>2, Zenon
<1>4. ~Starting(c.id) /\ ~Ending(c.id)
  BY Settled, Zenon
<1>5. NewsSame(link', link) /\ EndsSame(link', link) /\ ActsSame(link', link)
  <2>1. ActivationRequest(c) \in Asks
    BY MailsApart, Zenon
  <2> QED BY <1>2, <2>1, AskMail, Zenon
<1>6. None \notin Calls
  BY ClusterAssumption, Zenon
<1>7. \A k \in Nodes : \A d \in Calls : ~AskBy(link, k, n, d)
  <2>1. ASSUME NEW k \in Nodes, NEW d \in Calls, AskBy(link, k, n, d) PROVE FALSE
    <3>1. agent[n].waiting = d
      BY <2>1 DEF Sound, Asking
    <3> QED BY <1>2, <1>6, <3>1, Zenon
  <2> QED BY <2>1, Zenon
<1>8. Asking'
  <2>1. ASSUME NEW k \in Nodes, NEW t \in Nodes PROVE Alone(link'[k][t])
    <3>1. Alone(link[k][t])
      BY <2>1, Zenon DEF Sound, Asking
    <3>2. t = n => NoAsk(link[k][t])
      BY <1>7, <2>1, Zenon DEF NoAsk, Asks, AskBy
    <3> QED BY <1>2, <2>1, <3>1, <3>2, Zenon
  <2>2. ASSUME NEW k \in Nodes, NEW s \in Nodes, NEW d \in Calls, AskBy(link', k, s, d)
        PROVE  /\ s = d.node /\ agent'[s].waiting = d /\ k \in agent'[s].members
               /\ \A r \in replies' : r.call # d
               /\ \A x \in Nodes : \A y \in Calls : AskBy(link', x, s, y) => x = k
    <3>1. CASE AskBy(link, k, s, d)
      <4>1. /\ s = d.node /\ agent[s].waiting = d /\ k \in agent[s].members
            /\ \A r \in replies : r.call # d
            /\ \A x \in Nodes : \A y \in Calls : AskBy(link, x, s, y) => x = k
        BY <2>2, <3>1, Zenon DEF Sound, Asking
      <4>2. s # n
        BY <1>7, <2>2, <3>1, Zenon
      <4>3. agent'[s] = agent[s] /\ \A x \in Nodes : \A y \in Calls : AskBy(link', x, s, y) => AskBy(link, x, s, y)
        BY <1>2, <2>2, <4>2, Zenon
      <4> QED BY <4>1, <4>3, Zenon
    <3>2. CASE k = m /\ s = n /\ d = c
      <4>1. \A r \in replies : r.call # c
        <5>1. ASSUME NEW r \in replies, r.call = c PROVE FALSE
          <6>1. agent[r.call.node].waiting = r.call
            BY Zenon DEF Sound, Asking
          <6> QED BY <1>1, <1>2, <1>6, <5>1, <6>1, Zenon
        <5> QED BY <5>1, Zenon
      <4>2. \A x \in Nodes : \A y \in Calls : AskBy(link', x, n, y) => x = m
        BY <1>2, <1>7, Zenon
      <4> QED BY <1>1, <1>2, <3>2, <4>1, <4>2, Zenon
    <3> QED BY <1>2, <2>2, <3>1, <3>2, Zenon
  <2>3. ASSUME NEW r \in replies
        PROVE  /\ agent'[r.call.node].waiting = r.call
               /\ r.pid.id = r.call.id /\ r.pid.host \in agent'[r.call.node].members
               /\ r.success => r.pid \in actors'
               /\ \A t \in replies : t.call = r.call => t = r
    <3>1. r.call.node \in Nodes /\ r.call # None
      BY ReplyFields, Zenon
    <3>2. /\ agent[r.call.node].waiting = r.call
          /\ r.pid.id = r.call.id /\ r.pid.host \in agent[r.call.node].members
          /\ r.success => r.pid \in actors
          /\ \A t \in replies : t.call = r.call => t = r
      BY <2>3, Zenon DEF Sound, Asking
    <3>3. r.call.node # n
      BY <1>2, <3>1, <3>2, Zenon
    <3> QED BY <1>2, <3>1, <3>2, <3>3, Zenon
  <2> QED BY <2>1, <2>2, <2>3, Zenon DEF Asking
<1>9. SpawningInv'
  <2>1. \A w \in spawning : w.pid.host \in Nodes
    BY SpawnHost, Zenon
  <2> QED BY <1>2, <1>3, <2>1, Zenon DEF Sound, SpawningInv
<1>10. Growing
  <2>1. \A i \in Ids : Starting(i)' => Starting(i) \/ ~Ending(i)
    <3>1. ASSUME NEW i \in Ids, Starting(i)' PROVE Starting(i) \/ i = c.id
      <4>1. CASE \E w \in spawning : w.pid.id = i
        BY <4>1, Zenon DEF Starting
      <4>2. CASE \E k \in Nodes : agent'[k].waiting # None /\ agent'[k].waiting.id = i
        <5>1. PICK k \in Nodes : agent'[k].waiting # None /\ agent'[k].waiting.id = i
          BY <4>2, Zenon
        <5>2. CASE k = n
          BY <1>2, <5>1, <5>2, Zenon
        <5>3. CASE k # n
          <6>1. agent[k].waiting # None /\ agent[k].waiting.id = i
            BY <1>2, <5>1, <5>3, Zenon
          <6> QED BY <6>1, Zenon DEF Starting
        <5> QED BY <5>2, <5>3, Zenon
      <4> QED BY <3>1, <4>1, <4>2, Zenon DEF Starting
    <3> QED BY <1>4, <3>1, Zenon
  <2>2. \A k \in Nodes : \A q \in PIDs : Told(k, q)' <=> Told(k, q)
    BY <1>5, Zenon DEF NewsSame, Told
  <2>3. \A k \in Nodes : \A q \in PIDs : Activation(q) \in Mail(k)' <=> Activation(q) \in Mail(k)
    BY <1>5, Zenon DEF ActsSame, Mail
  <2>4. \A p : (ByReply(p) => ByReply(p)') /\ (BySpawn(p) => BySpawn(p)')
    BY Zenon DEF ByReply, BySpawn
  <2>5. \A p \in actors' : p \notin actors \/ ByReply(p) \/ BySpawn(p) => Reported(p)'
    BY <1>2, <2>4, Zenon DEF Reported
  <2> QED BY <1>2, <1>3, <1>5, <2>1, <2>2, <2>3, <2>5, Zenon DEF Growing
<1>11. EndingInv' /\ Valid' /\ Announced'
  BY <1>10, Grows, Zenon DEF Sound
<1> QED BY <1>8, <1>9, <1>11, Zenon DEF Sound

\* activate() goes on with the response.
LEMMA SoundReplied ==
  ASSUME Typed, Typed', Sound, NEW n \in Nodes, NEW r, Replied(n, r)
  PROVE  Sound'
<1>1. /\ r \in replies /\ r.call = agent[n].waiting /\ replies' = replies \ {r}
      /\ \A k \in Nodes : k # n => agent'[k] = agent[k]
      /\ agent'[n].members = agent[n].members
      /\ agent'[n].activated = agent[n].activated /\ agent'[n].waiting = None
      /\ r.success => SentAll(agent[n].members, Activation(r.pid))
      /\ ~r.success => link' = link
      /\ actors' = actors /\ poisoned' = poisoned /\ spawning' = spawning
  BY Zenon DEF Replied, AgentWaits
<1>2. /\ r.call \in Calls /\ r.pid \in PIDs /\ r.call.id \in Ids /\ r.call # None /\ r.call.node = n
  <2>1. r.call \in Calls /\ r.pid \in PIDs /\ r.call.id \in Ids /\ r.call # None
    BY <1>1, ReplyFields, Zenon
  <2>2. agent[n].waiting # None => agent[n].waiting.node = n
    BY Zenon DEF Typed
  <2> QED BY <1>1, <2>1, <2>2, Zenon
<1>3. /\ r.pid.id = r.call.id /\ r.pid.host \in agent[n].members
      /\ r.success => r.pid \in actors
      /\ \A t \in replies : t.call = r.call => t = r
  BY <1>1, <1>2, Zenon DEF Sound, Asking
<1>4. Starting(r.call.id) /\ ~Ending(r.call.id)
  <2>1. Starting(r.call.id)
    BY <1>1, <1>2, Zenon DEF Starting
  <2> QED BY <1>2, <2>1, Zenon DEF Sound, EndingInv
<1>5. /\ \A k \in Nodes : agent'[k].members = agent[k].members
      /\ \A k \in Nodes : agent'[k].activated = agent[k].activated
  BY <1>1, Zenon
<1>6. /\ AsksSame(link', link) /\ EndsSame(link', link)
      /\ \A k \in Nodes : \A q \in PIDs : Told(k, q) => Told(k, q)'
      /\ \A k \in Nodes : \A q \in PIDs : Told(k, q)' => Told(k, q) \/ (q \in actors' /\ ~Ending(q.id))
      /\ \A k \in Nodes : \A q \in PIDs : Activation(q) \in Mail(k) => Activation(q) \in Mail(k)'
  <2>1. CASE r.success
    <3>1. /\ AsksSame(link', link) /\ MailIs(link', link, agent[n].members, Activation(r.pid))
          /\ Activation(r.pid) \in News
      BY <1>1, <1>2, <2>1, ActivationTells, Zenon DEF SentAll
    <3>2. /\ NewsSent(link', link, agent[n].members, Activation(r.pid).pids) /\ EndsSame(link', link)
          /\ ActsSent(link', link, agent[n].members, Activation(r.pid))
      BY <3>1, NewsMail, Zenon
    <3>3. Activation(r.pid).pids = {r.pid}
      BY <1>2, MailsApart, Zenon
    <3>4. \A k \in Nodes : \A q \in PIDs : Told(k, q) => Told(k, q)'
      BY <3>2, Zenon DEF NewsSent, Told
    <3>5. \A k \in Nodes : \A q \in PIDs : Told(k, q)' => Told(k, q) \/ (q \in actors' /\ ~Ending(q.id))
      BY <1>1, <1>3, <1>4, <2>1, <3>2, <3>3, Zenon DEF NewsSent, Told
    <3>6. \A k \in Nodes : \A q \in PIDs : Activation(q) \in Mail(k) => Activation(q) \in Mail(k)'
      BY <3>2, Zenon DEF ActsSent, Mail
    <3> QED BY <3>1, <3>2, <3>4, <3>5, <3>6, Zenon
  <2>2. CASE ~r.success
    <3>1. QueuesSame(link', link)
      BY <1>1, <2>2, Zenon DEF QueuesSame
    <3>2. NewsSame(link', link) /\ EndsSame(link', link) /\ ActsSame(link', link) /\ AsksSame(link', link)
      BY <3>1, NoMail, Zenon
    <3> QED BY <3>2, Zenon DEF NewsSame, ActsSame, Told, Mail
  <2> QED BY <2>1, <2>2, Zenon
<1>7. Asking'
  <2>0. /\ \A m, t \in Nodes : Alone(link[m][t]) => Alone(link'[m][t])
        /\ \A m, t \in Nodes : \A c \in Calls : AskBy(link', m, t, c) <=> AskBy(link, m, t, c)
    BY <1>6, Zenon DEF AsksSame
  <2>1. \A k, t \in Nodes : Alone(link'[k][t])
    BY <2>0, Zenon DEF Sound, Asking
  <2>2. ASSUME NEW k \in Nodes, NEW s \in Nodes, NEW d \in Calls, AskBy(link', k, s, d)
        PROVE  /\ s = d.node /\ agent'[s].waiting = d /\ k \in agent'[s].members
               /\ \A t \in replies' : t.call # d
               /\ \A x \in Nodes : \A y \in Calls : AskBy(link', x, s, y) => x = k
    <3>1. AskBy(link, k, s, d)
      BY <2>0, <2>2, Zenon
    <3>2. /\ s = d.node /\ agent[s].waiting = d /\ k \in agent[s].members
          /\ \A t \in replies : t.call # d
          /\ \A x \in Nodes : \A y \in Calls : AskBy(link, x, s, y) => x = k
      BY <2>2, <3>1, Zenon DEF Sound, Asking
    <3>3. s # n
      BY <1>1, <3>2, Zenon
    <3> QED BY <1>1, <2>0, <2>2, <3>2, <3>3, Zenon
  <2>3. ASSUME NEW t \in replies'
        PROVE  /\ agent'[t.call.node].waiting = t.call
               /\ t.pid.id = t.call.id /\ t.pid.host \in agent'[t.call.node].members
               /\ t.success => t.pid \in actors'
               /\ \A u \in replies' : u.call = t.call => u = t
    <3>0. t \in replies /\ t # r
      BY <1>1, <2>3, Zenon
    <3>1. t.call.node \in Nodes /\ t.call # None
      BY <3>0, ReplyFields, Zenon
    <3>2. /\ agent[t.call.node].waiting = t.call
          /\ t.pid.id = t.call.id /\ t.pid.host \in agent[t.call.node].members
          /\ t.success => t.pid \in actors
          /\ \A u \in replies : u.call = t.call => u = t
      BY <3>0, Zenon DEF Sound, Asking
    <3>3. t.call.node # n
      BY <1>1, <1>3, <3>0, <3>2, Zenon
    <3> QED BY <1>1, <3>1, <3>2, <3>3, Zenon
  <2> QED BY <2>1, <2>2, <2>3, Zenon DEF Asking
<1>8. SpawningInv'
  <2>1. \A w \in spawning : w.pid.host \in Nodes
    BY SpawnHost, Zenon
  <2> QED BY <1>1, <1>5, <2>1, Zenon DEF Sound, SpawningInv
<1>9. Growing
  <2>1. \A i \in Ids : Starting(i)' => Starting(i)
    <3>1. \A k \in Nodes : agent'[k].waiting # None => agent'[k].waiting = agent[k].waiting
      BY <1>1, Zenon
    <3> QED BY <1>1, <3>1, Zenon DEF Starting
  <2>2. ASSUME NEW p \in actors', ByReply(p) PROVE Reported(p)'
    <3>1. PICK t \in replies : t.success /\ t.pid = p
      BY <2>2, Zenon DEF ByReply
    <3>2. CASE t = r
      <4>1. SentAll(agent[n].members, Activation(p)) /\ p \in PIDs /\ p.host \in agent[n].members
        BY <1>1, <1>2, <1>3, <3>1, <3>2, Zenon
      <4> QED BY <1>1, <4>1, TellsMembers, Zenon
    <3>3. CASE t # r
      <4>1. t \in replies'
        BY <1>1, <3>3, Zenon
      <4> QED BY <3>1, <4>1, Zenon DEF ByReply, Reported
    <3> QED BY <3>2, <3>3, Zenon
  <2>3. \A p : BySpawn(p) => BySpawn(p)'
    BY <1>1, Zenon DEF BySpawn
  <2>4. \A p \in actors' : p \notin actors \/ ByReply(p) \/ BySpawn(p) => Reported(p)'
    BY <1>1, <2>2, <2>3, Zenon DEF Reported
  <2> QED BY <1>1, <1>5, <1>6, <2>1, <2>4, Zenon DEF Growing
<1>10. EndingInv' /\ Valid' /\ Announced'
  BY <1>9, Grows, Zenon DEF Sound
<1> QED BY <1>7, <1>8, <1>10, Zenon DEF Sound
\* An agent handles a request.
LEMMA SoundAskTaken ==
  ASSUME Typed, Typed', Sound, NEW n \in Nodes, NEW s \in Nodes, NEW c, AskTaken(n, s, c)
  PROVE  Sound'
<1>1. PICK ok \in BOOLEAN : ok <=> KindOf[c.id] \in LocalKinds[n]
  <2>1. CASE KindOf[c.id] \in LocalKinds[n]
    BY <2>1, Zenon
  <2>2. CASE KindOf[c.id] \notin LocalKinds[n]
    BY <2>2, Zenon
  <2> QED BY <2>1, <2>2, Zenon
<1>2. PICK r : r = [call |-> c, success |-> KindOf[c.id] \in LocalKinds[n], pid |-> PID(n, c.id)]
  BY Zenon
<1>3. /\ c \in Calls /\ AskBy(link, n, s, c) /\ agent' = agent
      /\ MailIs(link, link', {n}, ActivationRequest(c))
      /\ \A m, t \in Nodes : Alone(link[m][t]) => Alone(link'[m][t])
      /\ poisoned' = poisoned /\ spawning' = spawning
  BY Zenon DEF AskTaken
<1>4. /\ s = c.node /\ agent[s].waiting = c /\ n \in agent[s].members
      /\ \A t \in replies : t.call # c
      /\ \A m \in Nodes : \A d \in Calls : AskBy(link, m, s, d) => m = n
      /\ Alone(link[n][s])
  BY <1>3 DEF Sound, Asking
<1>5. /\ \A m, t \in Nodes : \A d \in Calls :
           AskBy(link', m, t, d) <=> AskBy(link, m, t, d) /\ ~(m = n /\ t = s)
      /\ actors' = IF ok THEN actors \cup {PID(n, c.id)} ELSE actors
      /\ replies' = replies \cup {r}
  BY <1>1, <1>2, <1>4, Zenon DEF AskTaken
<1>6. r.call = c /\ (r.success <=> ok) /\ r.pid = PID(n, c.id)
  BY <1>1, <1>2, Zenon
<1>7. PID(n, c.id) \in PIDs /\ PID(n, c.id).host = n /\ PID(n, c.id).id = c.id /\ c.id \in Ids
  BY <1>3, CallPID, Zenon
<1>8. c # None
  BY <1>3, NoneApart, Zenon
<1>9. ~Ending(c.id)
  <2>1. Starting(c.id)
    BY <1>4, <1>8, Zenon DEF Starting
  <2> QED BY <1>7, <2>1, Zenon DEF Sound, EndingInv
<1>10. NewsSame(link, link') /\ EndsSame(link, link') /\ ActsSame(link, link')
  <2>1. ActivationRequest(c) \in Asks
    BY <1>3, MailsApart, Zenon
  <2> QED BY <1>3, <2>1, AskMail, Zenon
<1>11. EndsSame(link', link)
  BY <1>10, Zenon DEF EndsSame
<1>12. actors \subseteq actors'
  BY <1>5, Zenon
<1>13. Asking'
  <2>1. \A k, t \in Nodes : Alone(link'[k][t])
    BY <1>3, Zenon DEF Sound, Asking
  <2>2. ASSUME NEW k \in Nodes, NEW u \in Nodes, NEW d \in Calls, AskBy(link', k, u, d)
        PROVE  /\ u = d.node /\ agent'[u].waiting = d /\ k \in agent'[u].members
               /\ \A t \in replies' : t.call # d
               /\ \A x \in Nodes : \A y \in Calls : AskBy(link', x, u, y) => x = k
    <3>1. AskBy(link, k, u, d) /\ ~(k = n /\ u = s)
      BY <1>5, <2>2, Zenon
    <3>2. /\ u = d.node /\ agent[u].waiting = d /\ k \in agent[u].members
          /\ \A t \in replies : t.call # d
          /\ \A x \in Nodes : \A y \in Calls : AskBy(link, x, u, y) => x = k
      BY <2>2, <3>1, Zenon DEF Sound, Asking
    <3>3. u # s
      BY <1>4, <2>2, <3>1, Zenon
    <3>4. d # c
      BY <1>4, <3>2, <3>3, Zenon
    <3>5. \A t \in replies' : t.call # d
      BY <1>5, <1>6, <3>2, <3>4, Zenon
    <3> QED BY <1>3, <1>5, <2>2, <3>2, <3>5, Zenon
  <2>3. ASSUME NEW t \in replies'
        PROVE  /\ agent[t.call.node].waiting = t.call
               /\ t.pid.id = t.call.id /\ t.pid.host \in agent[t.call.node].members
               /\ t.success => t.pid \in actors'
               /\ \A u \in replies' : u.call = t.call => u = t
    <3>1. CASE t = r
      <4>1. r.success => r.pid \in actors'
        BY <1>5, <1>6, Zenon
      <4>2. \A u \in replies' : u.call = r.call => u = r
        BY <1>4, <1>5, <1>6, Zenon
      <4>3. /\ agent[r.call.node].waiting = r.call /\ r.pid.id = r.call.id
            /\ r.pid.host \in agent[r.call.node].members
        BY <1>4, <1>6, <1>7, Zenon
      <4> QED BY <3>1, <4>1, <4>2, <4>3, Zenon
    <3>2. CASE t # r
      <4>1. t \in replies
        BY <1>5, <2>3, <3>2, Zenon
      <4>2. /\ agent[t.call.node].waiting = t.call
            /\ t.pid.id = t.call.id /\ t.pid.host \in agent[t.call.node].members
            /\ t.success => t.pid \in actors
            /\ \A u \in replies : u.call = t.call => u = t
        BY <4>1, Zenon DEF Sound, Asking
      <4>3. \A u \in replies' : u.call = t.call => u = t
        BY <1>4, <1>5, <1>6, <4>1, <4>2, Zenon
      <4> QED BY <1>12, <4>2, <4>3, Zenon
    <3> QED BY <3>1, <3>2, Zenon
  <2> QED BY <1>3, <2>1, <2>2, <2>3, Zenon DEF Asking
<1>14. SpawningInv'
  BY <1>3, <1>12, Zenon DEF Sound, SpawningInv
<1>15. Growing
  <2>1. \A i : Starting(i)' <=> Starting(i)
    BY <1>3, Zenon DEF Starting
  <2>2. \A k \in Nodes : \A q \in PIDs : Told(k, q)' <=> Told(k, q)
    BY <1>10, Zenon DEF NewsSame, Told
  <2>3. \A k \in Nodes : \A q \in PIDs : Activation(q) \in Mail(k)' <=> Activation(q) \in Mail(k)
    BY <1>10, Zenon DEF ActsSame, Mail
  <2>4. \A p \in actors' : p \in actors \/ ~Ending(p.id)
    BY <1>5, <1>7, <1>9, Zenon
  <2>5. \A p : (ByReply(p) => ByReply(p)') /\ (BySpawn(p) => BySpawn(p)')
    BY <1>3, <1>5, Zenon DEF ByReply, BySpawn
  <2>6. ASSUME NEW p \in actors', p \notin actors PROVE ByReply(p)'
    <3>1. ok /\ p = PID(n, c.id)
      BY <1>5, <2>6, Zenon
    <3>2. r \in replies' /\ r.success /\ r.pid = p
      BY <1>5, <1>6, <3>1, Zenon
    <3> QED BY <3>2, Zenon DEF ByReply
  <2>7. \A p \in actors' : p \notin actors \/ ByReply(p) \/ BySpawn(p) => Reported(p)'
    BY <2>5, <2>6, Zenon DEF Reported
  <2> QED BY <1>3, <1>11, <1>12, <2>1, <2>2, <2>3, <2>4, <2>7, Zenon DEF Growing
<1>16. EndingInv' /\ Valid' /\ Announced'
  BY <1>15, Grows, Zenon DEF Sound
<1> QED BY <1>13, <1>14, <1>16, Zenon DEF Sound

\* Cluster.Spawn starts its actor, asks for the members, tells them.
LEMMA SoundSpawn ==
  ASSUME Typed, Typed', Sound, NEW p \in PIDs, actors' = actors \cup {p},
         spawning' = spawning \cup {[pid |-> p, members |-> None]},
         ~Unsettled(p.id), UNCHANGED <<agent, link, replies, poisoned>>
  PROVE  Sound'
<1>1. PICK v : v = [pid |-> p, members |-> None]
  BY Zenon
<1>2. v.pid = p /\ v.members = None /\ spawning' = spawning \cup {v}
  BY <1>1, Zenon
<1>3. ~Ending(p.id)
  BY Settled, Zenon
<1>4. QueuesSame(link', link)
  BY Zenon DEF QueuesSame
<1>5. NewsSame(link', link) /\ EndsSame(link', link) /\ ActsSame(link', link) /\ AsksSame(link', link)
  BY <1>4, NoMail, Zenon
<1>6. Asking'
  <2>1. AskFrame
    BY <1>5, Zenon DEF AskFrame, Sound, Asking
  <2> QED BY <2>1, AskingKept, Zenon DEF Sound
<1>7. SpawningInv'
  BY <1>2, Zenon DEF Sound, SpawningInv
<1>8. Growing
  <2>1. \A i \in Ids : Starting(i)' => Starting(i) \/ ~Ending(i)
    BY <1>2, <1>3, Zenon DEF Starting
  <2>2. \A k \in Nodes : \A q \in PIDs : Told(k, q)' <=> Told(k, q)
    BY <1>5, Zenon DEF NewsSame, Told
  <2>3. \A k \in Nodes : \A q \in PIDs : Activation(q) \in Mail(k)' <=> Activation(q) \in Mail(k)
    BY <1>5, Zenon DEF ActsSame, Mail
  <2>4. \A q \in actors' : q \in actors \/ ~Ending(q.id)
    BY <1>3, Zenon
  <2>5. \A q : (ByReply(q) => ByReply(q)') /\ (BySpawn(q) => BySpawn(q)')
    BY <1>2, Zenon DEF ByReply, BySpawn
  <2>6. BySpawn(p)'
    BY <1>2, Zenon DEF BySpawn
  <2>7. \A q \in actors' : q \notin actors \/ ByReply(q) \/ BySpawn(q) => Reported(q)'
    BY <2>5, <2>6, Zenon DEF Reported
  <2>8. actors \subseteq actors'
    BY Zenon
  <2> QED BY <1>5, <2>1, <2>2, <2>3, <2>4, <2>7, <2>8, Zenon DEF Growing
<1>9. EndingInv' /\ Valid' /\ Announced'
  BY <1>8, Grows, Zenon DEF Sound
<1> QED BY <1>6, <1>7, <1>9, Zenon DEF Sound

LEMMA SoundSpawnMembers ==
  ASSUME Typed, Typed', Sound, NEW w \in spawning, SpawnMembers(w),
         agent[w.pid.host].members # {}
  PROVE  Sound'
<1>1. PICK v : v = [w EXCEPT !.members = agent[w.pid.host].members]
  BY Zenon
<1>2. /\ spawning' = (spawning \ {w}) \cup {v} /\ agent' = agent /\ link' = link
      /\ replies' = replies /\ actors' = actors /\ poisoned' = poisoned
      /\ agent[w.pid.host].members # {}
  BY <1>1, Zenon DEF SpawnMembers
<1>3. w.pid.host \in Nodes /\ agent[w.pid.host].members \in NodeSets
  <2>1. w.pid.host \in Nodes
    BY SpawnHost, Zenon
  <2> QED BY <2>1, AgentFields, Zenon DEF Typed
<1>4. v.pid = w.pid /\ v.members = agent[w.pid.host].members
  <2>1. w \in Spawning
    BY Zenon DEF Typed
  <2> QED BY <1>1, <1>3, <2>1, SpawnPID, Zenon
<1>5. QueuesSame(link', link)
  BY <1>2, Zenon DEF QueuesSame
<1>6. NewsSame(link', link) /\ EndsSame(link', link) /\ ActsSame(link', link) /\ AsksSame(link', link)
  BY <1>5, NoMail, Zenon
<1>7. Asking'
  <2>1. AskFrame
    BY <1>2, <1>6, Zenon DEF AskFrame, Sound, Asking
  <2> QED BY <2>1, AskingKept, Zenon DEF Sound
<1>8. SpawningInv'
  <2>1. w.pid \in actors /\ w.pid.host \in agent[w.pid.host].members
    BY <1>2, <1>3, Zenon DEF Sound, SpawningInv, Typed
  <2>2. ASSUME NEW x \in spawning'
        PROVE  /\ x.pid \in actors
               /\ x.members # None =>
                    x.members = agent[x.pid.host].members /\ x.pid.host \in x.members
    <3>1. CASE x = v
      BY <1>4, <2>1, <3>1, Zenon
    <3>2. CASE x # v
      <4>1. x \in spawning
        BY <1>2, <2>2, <3>2, Zenon
      <4> QED BY <4>1, Zenon DEF Sound, SpawningInv
    <3> QED BY <3>1, <3>2, Zenon
  <2> QED BY <1>2, <2>2, Zenon DEF SpawningInv
<1>9. Growing
  <2>1. \A i \in Ids : Starting(i)' => Starting(i)
    BY <1>2, <1>4, Zenon DEF Starting
  <2>2. \A k \in Nodes : \A q \in PIDs : Told(k, q)' <=> Told(k, q)
    BY <1>6, Zenon DEF NewsSame, Told
  <2>3. \A k \in Nodes : \A q \in PIDs : Activation(q) \in Mail(k)' <=> Activation(q) \in Mail(k)
    BY <1>6, Zenon DEF ActsSame, Mail
  <2>4. \A q : (ByReply(q) => ByReply(q)')
    BY <1>2, Zenon DEF ByReply
  <2>5. ASSUME NEW q, BySpawn(q) PROVE BySpawn(q)'
    <3>1. PICK x \in spawning : x.pid = q
      BY <2>5, Zenon DEF BySpawn
    <3>2. CASE x = w
      BY <1>2, <1>4, <3>1, <3>2, Zenon DEF BySpawn
    <3>3. CASE x # w
      BY <1>2, <3>1, <3>3, Zenon DEF BySpawn
    <3> QED BY <3>2, <3>3, Zenon
  <2>6. \A q \in actors' : q \notin actors \/ ByReply(q) \/ BySpawn(q) => Reported(q)'
    BY <1>2, <2>4, <2>5, Zenon DEF Reported
  <2> QED BY <1>2, <1>6, <2>1, <2>2, <2>3, <2>6, Zenon DEF Growing
<1>10. EndingInv' /\ Valid' /\ Announced'
  BY <1>9, Grows, Zenon DEF Sound
<1> QED BY <1>7, <1>8, <1>10, Zenon DEF Sound

LEMMA SoundSpawnAnnounce ==
  ASSUME Typed, Typed', Sound, NEW w \in spawning, w.members # None,
         SentAll(w.members, Activation(w.pid)), spawning' = spawning \ {w},
         UNCHANGED <<agent, replies, actors, poisoned>>
  PROVE  Sound'
<1>1. PICK p \in PIDs : p = w.pid /\ p.host \in Nodes /\ p.id \in Ids
  BY SpawnHost, Zenon
<1>2. PICK a \in Nodes : a = p.host
  BY <1>1, Zenon
<1>3. /\ p \in actors /\ w.members = agent[a].members /\ p.host \in agent[a].members
      /\ SentAll(agent[a].members, Activation(p))
  BY <1>1, <1>2, Zenon DEF Sound, SpawningInv
<1>4. ~Ending(p.id)
  <2>1. Starting(p.id)
    BY <1>1, Zenon DEF Starting
  <2> QED BY <1>1, <2>1, Zenon DEF Sound, EndingInv
<1>5. /\ AsksSame(link', link) /\ MailIs(link', link, agent[a].members, Activation(p))
      /\ Activation(p) \in News
  BY <1>3, ActivationTells, Zenon DEF SentAll
<1>6. /\ NewsSent(link', link, agent[a].members, Activation(p).pids) /\ EndsSame(link', link)
      /\ ActsSent(link', link, agent[a].members, Activation(p))
  BY <1>5, NewsMail, Zenon
<1>7. Asking'
  <2>1. AskFrame
    BY <1>5, Zenon DEF AskFrame, Sound, Asking
  <2> QED BY <2>1, AskingKept, Zenon DEF Sound
<1>8. SpawningInv'
  BY Zenon DEF Sound, SpawningInv
<1>9. Growing
  <2>1. \A i : Starting(i)' => Starting(i)
    BY Zenon DEF Starting
  <2>2. Activation(p).pids = {p}
    BY MailsApart, Zenon
  <2>3. \A m \in Nodes : \A q \in PIDs : Told(m, q) => Told(m, q)'
    BY <1>6, Zenon DEF NewsSent, Told
  <2>4. \A m \in Nodes : \A q \in PIDs : Told(m, q)' => Told(m, q) \/ (q \in actors' /\ ~Ending(q.id))
    BY <1>3, <1>4, <1>6, <2>2, Zenon DEF NewsSent, Told
  <2>5. \A m \in Nodes : \A q \in PIDs : Activation(q) \in Mail(m) => Activation(q) \in Mail(m)'
    BY <1>6, Zenon DEF ActsSent, Mail
  <2>6. \A q : ByReply(q) => ByReply(q)'
    BY Zenon DEF ByReply
  <2>7. Reported(p)'
    BY <1>3, TellsMembers, Zenon
  <2>8. ASSUME NEW q, BySpawn(q) PROVE Reported(q)'
    <3>1. PICK x \in spawning : x.pid = q
      BY <2>8, Zenon DEF BySpawn
    <3>2. CASE x = w
      BY <1>1, <2>7, <3>1, <3>2, Zenon
    <3>3. CASE x # w
      BY <3>1, <3>3, Zenon DEF BySpawn, Reported
    <3> QED BY <3>2, <3>3, Zenon
  <2>9. \A q \in actors' : q \notin actors \/ ByReply(q) \/ BySpawn(q) => Reported(q)'
    BY <2>6, <2>8, Zenon DEF Reported
  <2> QED BY <1>6, <2>1, <2>3, <2>4, <2>5, <2>9, Zenon DEF Growing
<1>10. EndingInv' /\ Valid' /\ Announced'
  BY <1>9, Grows, Zenon DEF Sound
<1> QED BY <1>7, <1>8, <1>10, Zenon DEF Sound
-----------------------------------------------------------------------------
(* Agents hear of actors, and actors end *)

LEMMA SoundNewsTaken ==
  ASSUME Typed, Typed', Sound, NEW n \in Nodes, NEW msg, NewsTaken(n, msg)
  PROVE  Sound'
<1>1. PICK ps : ps = msg.pids
  BY Zenon
<1>2. /\ msg \in News
      /\ \A m \in Nodes : m # n => agent'[m] = agent[m]
      /\ agent'[n].members = agent[n].members
      /\ agent'[n].waiting = agent[n].waiting
      /\ agent'[n].activated = AddActivated(agent[n].activated, ps)
      /\ AsksSame(link', link) /\ MailIs(link, link', {n}, msg)
      /\ replies' = replies /\ actors' = actors /\ poisoned' = poisoned /\ spawning' = spawning
  BY <1>1, Zenon DEF NewsTaken, AgentKnows
<1>3. NewsSent(link, link', {n}, ps) /\ EndsSame(link, link') /\ ActsSent(link, link', {n}, msg)
  BY <1>1, <1>2, NewsMail, Zenon
<1>4. /\ \A m \in Nodes : agent'[m].members = agent[m].members
      /\ \A m \in Nodes : agent'[m].waiting = agent[m].waiting
  BY <1>2, Zenon
<1>5. Asking'
  <2>1. AskFrame
    BY <1>2, <1>4, Zenon DEF AskFrame, Sound, Asking
  <2> QED BY <2>1, AskingKept, Zenon DEF Sound
<1>6. SpawningInv'
  <2>1. \A w \in spawning : w.pid.host \in Nodes
    BY SpawnHost, Zenon
  <2> QED BY <1>2, <1>4, <2>1, Zenon DEF Sound, SpawningInv
<1>7. \A m \in Nodes : \A i : Deacts(m, i)' <=> Deacts(m, i)
  BY <1>3, Zenon DEF EndsSame, Deacts
<1>8. \A i : Ending(i)' <=> Ending(i)
  BY <1>2, <1>7, Zenon DEF Ending
<1>9. \A i : Starting(i)' <=> Starting(i)
  BY <1>2, <1>4, Zenon DEF Starting
<1>10. \A m \in Nodes : \A q : Told(m, q) <=> Told(m, q)' \/ (m = n /\ q \in ps)
  BY <1>3, Zenon DEF NewsSent, Told
<1>11. ASSUME NEW m \in Nodes, NEW q \in PIDs, q \in agent'[m].activated
       PROVE  q \in agent[m].activated \/ Told(m, q)
  <2>1. CASE m = n
    BY <1>2, <1>10, <1>11, <2>1, Zenon DEF AddActivated
  <2>2. CASE m # n
    BY <1>2, <1>11, <2>2, Zenon
  <2> QED BY <2>1, <2>2, Zenon
<1>12. EndingInv'
  <2>1. ASSUME NEW i \in Ids, Ending(i)'
        PROVE  /\ ~Starting(i)'
               /\ \A m \in Nodes : agent'[m].members = Nodes
               /\ \A m \in Nodes : \A q \in PIDs : q.id = i =>
                    /\ ~Told(m, q)'
                    /\ q \in agent'[m].activated => Deacts(m, i)'
               /\ \A p \in actors' : p.id = i => p \in poisoned' \/ Deacts(p.host, i)'
    <3>1. /\ Ending(i) /\ ~Starting(i)
          /\ \A m \in Nodes : agent[m].members = Nodes
          /\ \A m \in Nodes : \A q \in PIDs : q.id = i =>
               /\ ~Told(m, q)
               /\ q \in agent[m].activated => Deacts(m, i)
          /\ \A p \in actors : p.id = i => p \in poisoned \/ Deacts(p.host, i)
      BY <1>8, <2>1, Zenon DEF Sound, EndingInv
    <3>2. \A m \in Nodes : \A q \in PIDs : q.id = i =>
            /\ ~Told(m, q)'
            /\ q \in agent'[m].activated => Deacts(m, i)'
      BY <1>7, <1>10, <1>11, <3>1, Zenon
    <3>3. \A p \in actors : p.host \in Nodes
      BY PIDIds, Zenon DEF Typed
    <3>4. \A p \in actors' : p.id = i => p \in poisoned' \/ Deacts(p.host, i)'
      BY <1>2, <1>7, <3>1, <3>3, Zenon
    <3> QED BY <1>4, <1>9, <3>1, <3>2, <3>4, Zenon
  <2> QED BY <2>1, Zenon DEF EndingInv
<1>13. Valid'
  <2>1. ASSUME NEW m \in Nodes, NEW q \in PIDs, Knows(m, q)' PROVE Knows(m, q)
    BY <1>10, <1>11, <2>1, Zenon DEF Knows
  <2> QED BY <1>2, <1>8, <2>1, Zenon DEF Sound, Valid
<1>14. \A q \in ps : \E x \in agent'[n].activated : x.id = q.id
  BY <1>2, Zenon DEF AddActivated
<1>15. \A m \in Nodes : agent[m].activated \subseteq agent'[m].activated
  BY <1>2, Zenon DEF AddActivated
<1>16. \A m \in Nodes : agent'[m].activated \subseteq PIDs
  BY AgentFields, Zenon DEF Typed, Known
<1>17. ASSUME NEW m \in Nodes, NEW i, Informed(m, i) PROVE Informed(m, i)'
  <2>1. PICK q \in PIDs : q.id = i /\ Knows(m, q)
    BY <1>17, Zenon DEF Informed
  <2>2. CASE q \in agent[m].activated
    BY <1>15, <2>1, <2>2, Zenon DEF Informed, Knows
  <2>3. CASE Told(m, q)'
    BY <2>1, <2>3, Zenon DEF Informed, Knows
  <2>4. CASE m = n /\ q \in ps
    <3>1. PICK x \in agent'[n].activated : x.id = i
      BY <1>14, <2>1, <2>4, Zenon
    <3> QED BY <1>16, <2>4, <3>1, Zenon DEF Informed, Knows
  <2> QED BY <1>10, <2>1, <2>2, <2>3, <2>4, Zenon DEF Knows
<1>18. Announced'
  <2>1. ASSUME NEW p \in actors, ByAgent(p) PROVE ByAgent(p)'
    <3>1. PICK a \in Nodes :
            /\ p.host \in agent[a].members
            /\ \A m \in agent[a].members : Informed(m, p.id)
            /\ \E q \in PIDs : q.id = p.id /\ (q \in agent[a].activated \/ Activation(q) \in Mail(a))
      BY <2>1, Zenon DEF ByAgent
    <3>2. agent[a].members \subseteq Nodes
      BY AgentFields, Zenon DEF Typed, NodeSets
    <3>3. p.host \in agent'[a].members /\ \A m \in agent'[a].members : Informed(m, p.id)'
      BY <1>4, <1>17, <3>1, <3>2, Zenon
    <3>4. PICK q \in PIDs : q.id = p.id /\ (q \in agent[a].activated \/ Activation(q) \in Mail(a))
      BY <3>1, Zenon
    <3>5. CASE q \in agent[a].activated
      BY <1>15, <3>3, <3>4, <3>5, Zenon DEF ByAgent
    <3>6. CASE Activation(q) \in Mail(a)'
      BY <3>3, <3>4, <3>6, Zenon DEF ByAgent
    <3>7. CASE a = n /\ msg = Activation(q)
      <4>1. q \in ps
        <5>1. Activation(q).pids = {q}
          BY MailsApart, Zenon
        <5> QED BY <1>1, <3>7, <5>1, Zenon
      <4>2. PICK x \in agent'[n].activated : x.id = p.id
        BY <1>14, <3>4, <4>1, Zenon
      <4> QED BY <1>16, <3>3, <3>7, <4>2, Zenon DEF ByAgent
    <3> QED BY <1>3, <3>4, <3>5, <3>6, <3>7, Zenon DEF ActsSent, Mail
  <2>2. \A p : (ByReply(p) => ByReply(p)') /\ (BySpawn(p) => BySpawn(p)')
    BY <1>2, Zenon DEF ByReply, BySpawn
  <2> QED BY <1>2, <1>8, <2>1, <2>2, Zenon DEF Sound, Announced, Reported
<1> QED BY <1>5, <1>6, <1>12, <1>13, <1>18, Zenon DEF Sound

LEMMA SoundDeactivate ==
  ASSUME Typed, Typed', Sound, NEW n \in Nodes, NEW p \in PIDs, SentAll(agent[n].members, Deactivation(p)),
         ~Apart, ~Unsettled(p.id), UNCHANGED <<agent, replies, actors, poisoned, spawning>>
  PROVE  Sound'
<1>1. \A m \in Nodes : agent[m].members = Nodes
  BY Zenon DEF Apart
<1>2. AsksSame(link', link) /\ MailIs(link', link, Nodes, Deactivation(p))
  BY <1>1, Zenon DEF SentAll
<1>3. NewsSame(link', link) /\ EndsSent(link', link, Nodes, p.id) /\ ActsSame(link', link)
  BY <1>2, EndMail, Zenon
<1>4. Asking'
  <2>1. AskFrame
    BY <1>2, Zenon DEF AskFrame, Sound, Asking
  <2> QED BY <2>1, AskingKept, Zenon DEF Sound
<1>5. SpawningInv'
  BY Zenon DEF Sound, SpawningInv
<1>6. \A m \in Nodes : \A i : Deacts(m, i)' <=> Deacts(m, i) \/ i = p.id
  BY <1>3 DEF EndsSent, Deacts
<1>7. /\ \A i : Ending(i) => Ending(i)'
      /\ \A i : Ending(i)' => Ending(i) \/ i = p.id
  BY <1>6, Zenon DEF Ending
<1>8. \A i : Starting(i)' <=> Starting(i)
  BY Zenon DEF Starting
<1>9. \A m \in Nodes : \A q : Told(m, q)' <=> Told(m, q)
  BY <1>3, Zenon DEF NewsSame, Told
<1>10. \A q \in actors : q.host \in Nodes
  BY PIDIds, Zenon DEF Typed
<1>11. EndingInv'
  <2>1. ASSUME NEW i \in Ids, Ending(i)'
        PROVE  /\ ~Starting(i)'
               /\ \A m \in Nodes : agent'[m].members = Nodes
               /\ \A m \in Nodes : \A q \in PIDs : q.id = i =>
                    /\ ~Told(m, q)'
                    /\ q \in agent'[m].activated => Deacts(m, i)'
               /\ \A q \in actors' : q.id = i => q \in poisoned' \/ Deacts(q.host, i)'
    <3>1. CASE i = p.id
      <4>1. ~Starting(i) /\ \A m \in Nodes : \A q : q.id = i => ~Told(m, q)
        BY <3>1, Settled, Zenon
      <4> QED BY <1>1, <1>6, <1>8, <1>9, <1>10, <3>1, <4>1, Zenon
    <3>2. CASE i # p.id
      <4>1. /\ Ending(i) /\ ~Starting(i)
            /\ \A m \in Nodes : \A q \in PIDs : q.id = i =>
                 /\ ~Told(m, q)
                 /\ q \in agent[m].activated => Deacts(m, i)
            /\ \A q \in actors : q.id = i => q \in poisoned \/ Deacts(q.host, i)
        BY <1>7, <2>1, <3>2, Zenon DEF Sound, EndingInv
      <4> QED BY <1>1, <1>6, <1>8, <1>9, <1>10, <4>1, Zenon
    <3> QED BY <3>1, <3>2, Zenon
  <2> QED BY <2>1, Zenon DEF EndingInv
<1>12. Valid'
  <2>1. \A m \in Nodes : \A q \in PIDs : Knows(m, q)' => Knows(m, q)
    BY <1>9, Zenon DEF Knows
  <2> QED BY <1>7, <2>1, Zenon DEF Sound, Valid
<1>13. Announced'
  <2>1. \A m \in Nodes : \A i : Informed(m, i) => Informed(m, i)'
    BY <1>9, Zenon DEF Informed, Knows
  <2>2. \A m \in Nodes : \A q \in PIDs : Activation(q) \in Mail(m)' <=> Activation(q) \in Mail(m)
    BY <1>3, Zenon DEF ActsSame, Mail
  <2>3. ASSUME NEW q \in actors, ByAgent(q) PROVE ByAgent(q)'
    <3>1. PICK a \in Nodes :
            /\ q.host \in agent[a].members
            /\ \A m \in agent[a].members : Informed(m, q.id)
            /\ \E x \in PIDs : x.id = q.id /\ (x \in agent[a].activated \/ Activation(x) \in Mail(a))
      BY <2>3, Zenon DEF ByAgent
    <3>2. \A m \in agent[a].members : Informed(m, q.id)'
      BY <1>1, <2>1, <3>1, Zenon
    <3>3. \E x \in PIDs : x.id = q.id /\ (x \in agent[a].activated \/ Activation(x) \in Mail(a)')
      BY <2>2, <3>1, Zenon
    <3> QED BY <3>1, <3>2, <3>3, Zenon DEF ByAgent
  <2>4. \A q : (ByReply(q) => ByReply(q)') /\ (BySpawn(q) => BySpawn(q)')
    BY Zenon DEF ByReply, BySpawn
  <2> QED BY <1>7, <2>3, <2>4, Zenon DEF Sound, Announced, Reported
<1> QED BY <1>4, <1>5, <1>11, <1>12, <1>13, Zenon DEF Sound

LEMMA SoundEndTaken ==
  ASSUME Typed, Typed', Sound, NEW n \in Nodes, NEW p, EndTaken(n, p)
  PROVE  Sound'
<1>1. /\ p \in PIDs
      /\ \A m \in Nodes : m # n => agent'[m] = agent[m]
      /\ agent'[n].members = agent[n].members
      /\ agent'[n].waiting = agent[n].waiting
      /\ agent'[n].activated = RemoveActivated(agent[n].activated, p)
      /\ AsksSame(link', link) /\ MailIs(link, link', {n}, Deactivation(p))
      /\ poisoned' = poisoned \cup (actors \cap {PID(n, p.id)})
      /\ replies' = replies /\ actors' = actors /\ spawning' = spawning
  BY Zenon DEF EndTaken, AgentKnows
<1>2. NewsSame(link, link') /\ EndsSent(link, link', {n}, p.id) /\ ActsSame(link, link')
  BY <1>1, EndMail, Zenon
<1>3. /\ \A m \in Nodes : agent'[m].members = agent[m].members
      /\ \A m \in Nodes : agent'[m].waiting = agent[m].waiting
  BY <1>1, Zenon
<1>4. Asking'
  <2>1. AskFrame
    BY <1>1, <1>3, Zenon DEF AskFrame, Sound, Asking
  <2> QED BY <2>1, AskingKept, Zenon DEF Sound
<1>5. SpawningInv'
  <2>1. \A w \in spawning : w.pid.host \in Nodes
    BY SpawnHost, Zenon
  <2> QED BY <1>1, <1>3, <2>1, Zenon DEF Sound, SpawningInv
<1>6. \A m \in Nodes : \A i : Deacts(m, i) <=> Deacts(m, i)' \/ (m = n /\ i = p.id)
  BY <1>2 DEF EndsSent, Deacts
<1>7. Ending(p.id) /\ p.id \in Ids
  BY <1>1, <1>6, PIDIds, Zenon DEF Ending
<1>8. PID(n, p.id).id = p.id /\ PID(n, p.id).host = n
  BY Zenon DEF PID
<1>9. /\ \A i : Ending(i)' => Ending(i)
      /\ \A i : Ending(i) /\ i # p.id => Ending(i)'
  BY <1>1, <1>6, <1>7, <1>8, Zenon DEF Ending
<1>10. \A i : Starting(i)' <=> Starting(i)
  BY <1>1, <1>3, Zenon DEF Starting
<1>11. \A m \in Nodes : \A q : Told(m, q)' <=> Told(m, q)
  BY <1>2, Zenon DEF NewsSame, Told
<1>12. /\ \A m \in Nodes : agent'[m].activated \subseteq agent[m].activated
       /\ \A q \in agent'[n].activated : q.id # p.id
       /\ \A m \in Nodes : \A q \in agent[m].activated : q.id # p.id => q \in agent'[m].activated
  BY <1>1, Zenon DEF RemoveActivated
<1>13. \A q \in actors : q \in PIDs /\ q.host \in Nodes /\ q = PID(q.host, q.id)
  <2>1. \A q \in PIDs : q = PID(q.host, q.id)
    BY DEF PIDs, PID
  <2> QED BY <2>1, PIDIds, Zenon DEF Typed
<1>14. ASSUME NEW i \in Ids, Ending(i)
       PROVE  /\ ~Starting(i)'
              /\ \A m \in Nodes : agent'[m].members = Nodes
              /\ \A m \in Nodes : \A q \in PIDs : q.id = i =>
                   /\ ~Told(m, q)'
                   /\ q \in agent'[m].activated => Deacts(m, i)'
              /\ \A q \in actors' : q.id = i => q \in poisoned' \/ Deacts(q.host, i)'
  <2>1. /\ ~Starting(i)
        /\ \A m \in Nodes : agent[m].members = Nodes
        /\ \A m \in Nodes : \A q \in PIDs : q.id = i =>
             /\ ~Told(m, q)
             /\ q \in agent[m].activated => Deacts(m, i)
        /\ \A q \in actors : q.id = i => q \in poisoned \/ Deacts(q.host, i)
    BY <1>14, Zenon DEF Sound, EndingInv
  <2>2. ASSUME NEW m \in Nodes, NEW q \in PIDs, q.id = i
        PROVE  ~Told(m, q)' /\ (q \in agent'[m].activated => Deacts(m, i)')
    BY <1>6, <1>11, <1>12, <2>1, <2>2
  <2>3. ASSUME NEW q \in actors, q.id = i PROVE q \in poisoned' \/ Deacts(q.host, i)'
    <3>1. CASE q \in poisoned
      BY <1>1, <3>1, Zenon
    <3>2. CASE Deacts(q.host, i) /\ ~(q.host = n /\ i = p.id)
      BY <1>6, <1>13, <2>3, <3>2, Zenon
    <3>3. CASE q.host = n /\ i = p.id
      BY <1>1, <1>13, <2>3, <3>3, Zenon
    <3> QED BY <2>1, <2>3, <3>1, <3>2, <3>3, Zenon
  <2> QED BY <1>1, <1>3, <1>10, <2>1, <2>2, <2>3, Zenon
<1>15. EndingInv'
  BY <1>9, <1>14, Zenon DEF EndingInv
<1>16. Valid'
  <2>1. ASSUME NEW m \in Nodes, NEW q \in PIDs, Knows(m, q)' PROVE q \in actors \/ Ending(q.id)'
    <3>1. Knows(m, q)
      BY <1>11, <1>12, <2>1, Zenon DEF Knows
    <3>2. CASE q.id = p.id
      <4>1. Deacts(m, p.id)'
        BY <1>7, <1>14, <2>1, <3>2, Zenon DEF Knows
      <4> QED BY <2>1, <3>2, <4>1, Zenon DEF Ending
    <3>3. CASE q.id # p.id
      BY <1>9, <2>1, <3>1, <3>3, Zenon DEF Sound, Valid
    <3> QED BY <3>2, <3>3, Zenon
  <2> QED BY <1>1, <2>1, Zenon DEF Valid
<1>17. Announced'
  <2>1. ASSUME NEW m \in Nodes, NEW i, i # p.id, Informed(m, i) PROVE Informed(m, i)'
    BY <1>11, <1>12, <2>1, Zenon DEF Informed, Knows
  <2>2. \A m \in Nodes : \A q \in PIDs : Activation(q) \in Mail(m)' <=> Activation(q) \in Mail(m)
    BY <1>2, Zenon DEF ActsSame, Mail
  <2>3. ASSUME NEW q \in actors, q.id # p.id, ByAgent(q) PROVE ByAgent(q)'
    <3>1. PICK a \in Nodes :
            /\ q.host \in agent[a].members
            /\ \A m \in agent[a].members : Informed(m, q.id)
            /\ \E x \in PIDs : x.id = q.id /\ (x \in agent[a].activated \/ Activation(x) \in Mail(a))
      BY <2>3, Zenon DEF ByAgent
    <3>2. agent[a].members \subseteq Nodes
      BY AgentFields, Zenon DEF Typed, NodeSets
    <3>3. q.host \in agent'[a].members /\ \A m \in agent'[a].members : Informed(m, q.id)'
      BY <1>3, <2>1, <2>3, <3>1, <3>2, Zenon
    <3>4. \E x \in PIDs : x.id = q.id /\ (x \in agent'[a].activated \/ Activation(x) \in Mail(a)')
      BY <1>12, <2>2, <2>3, <3>1, Zenon
    <3> QED BY <3>3, <3>4, Zenon DEF ByAgent
  <2>4. \A q : (ByReply(q) => ByReply(q)') /\ (BySpawn(q) => BySpawn(q)')
    BY <1>1, Zenon DEF ByReply, BySpawn
  <2>5. ASSUME NEW q \in actors PROVE Reported(q)' \/ Ending(q.id)'
    <3>1. CASE q.id = p.id
      <4>1. q \in poisoned' \/ Deacts(q.host, p.id)'
        BY <1>1, <1>7, <1>14, <3>1, Zenon
      <4> QED BY <1>13, <3>1, <4>1, Zenon DEF Ending
    <3>2. CASE q.id # p.id
      <4>1. Reported(q) \/ Ending(q.id)
        BY Zenon DEF Sound, Announced
      <4> QED BY <1>9, <2>3, <2>4, <3>2, <4>1, Zenon DEF Reported
    <3> QED BY <3>1, <3>2, Zenon
  <2> QED BY <1>1, <2>5, Zenon DEF Announced
<1> QED BY <1>4, <1>5, <1>15, <1>16, <1>17, Zenon DEF Sound

LEMMA SoundStops ==
  ASSUME Typed, Typed', Sound, NEW p \in poisoned, ActorStops(p)
  PROVE  Sound'
<1>1. /\ poisoned' = poisoned \ {p} /\ actors' = actors \ {p} /\ agent' = agent /\ link' = link
      /\ replies' = replies /\ spawning' = spawning
  BY Zenon DEF ActorStops
<1>2. Ending(p.id) /\ p.id \in Ids
  BY PIDIds, Zenon DEF Ending, Typed
<1>3. /\ ~Starting(p.id)
      /\ \A m \in Nodes : \A q \in PIDs : q.id = p.id =>
           /\ ~Told(m, q)
           /\ q \in agent[m].activated => Deacts(m, p.id)
      /\ \A q \in actors : q.id = p.id => q \in poisoned \/ Deacts(q.host, p.id)
  BY <1>2, Zenon DEF Sound, EndingInv
<1>4. QueuesSame(link', link)
  BY <1>1, Zenon DEF QueuesSame
<1>5. AsksSame(link', link)
  BY <1>4, NoMail, Zenon
<1>6. Asking'
  <2>1. ASSUME NEW r \in replies, r.success PROVE r.pid \in actors'
    <3>1. r.pid \in actors /\ r.pid.id = r.call.id /\ agent[r.call.node].waiting = r.call
      BY <2>1, Zenon DEF Sound, Asking
    <3>2. r.call.node \in Nodes /\ r.call # None
      BY ReplyFields, Zenon
    <3>3. Starting(r.pid.id)
      BY <3>1, <3>2, Zenon DEF Starting
    <3> QED BY <1>1, <1>3, <3>1, <3>3, Zenon
  <2>2. AskFrame
    BY <1>1, <1>5, <2>1, Zenon DEF AskFrame
  <2> QED BY <2>2, AskingKept, Zenon DEF Sound
<1>7. SpawningInv'
  <2>1. ASSUME NEW w \in spawning PROVE w.pid \in actors'
    <3>1. w.pid \in actors /\ Starting(w.pid.id)
      BY Zenon DEF Sound, SpawningInv, Starting
    <3> QED BY <1>1, <1>3, <3>1, Zenon
  <2> QED BY <1>1, <2>1, Zenon DEF Sound, SpawningInv
<1>8. /\ \A m : \A i : Deacts(m, i)' <=> Deacts(m, i)
      /\ \A m, q : Told(m, q)' <=> Told(m, q)
      /\ \A i : Starting(i)' <=> Starting(i)
  BY <1>1, Zenon DEF Deacts, Told, Starting
<1>9. /\ \A i : Ending(i)' => Ending(i)
      /\ \A i : Ending(i) /\ i # p.id => Ending(i)'
  BY <1>1, <1>8, Zenon DEF Ending
<1>10. EndingInv'
  <2>1. ASSUME NEW i \in Ids, Ending(i)'
        PROVE  /\ ~Starting(i)'
               /\ \A m \in Nodes : agent'[m].members = Nodes
               /\ \A m \in Nodes : \A q \in PIDs : q.id = i =>
                    /\ ~Told(m, q)'
                    /\ q \in agent'[m].activated => Deacts(m, i)'
               /\ \A q \in actors' : q.id = i => q \in poisoned' \/ Deacts(q.host, i)'
    <3>1. /\ ~Starting(i)
          /\ \A m \in Nodes : agent[m].members = Nodes
          /\ \A m \in Nodes : \A q \in PIDs : q.id = i =>
               /\ ~Told(m, q)
               /\ q \in agent[m].activated => Deacts(m, i)
          /\ \A q \in actors : q.id = i => q \in poisoned \/ Deacts(q.host, i)
      BY <1>9, <2>1, Zenon DEF Sound, EndingInv
    <3> QED BY <1>1, <1>8, <3>1, Zenon
  <2> QED BY <2>1, Zenon DEF EndingInv
<1>11. Valid'
  <2>1. ASSUME NEW m \in Nodes, NEW q \in PIDs, Knows(m, q) PROVE q \in actors' \/ Ending(q.id)'
    <3>1. CASE q.id = p.id
      <4>1. Deacts(m, p.id)
        BY <1>3, <2>1, <3>1, Zenon DEF Knows
      <4> QED BY <1>8, <2>1, <3>1, <4>1, Zenon DEF Ending
    <3>2. CASE q.id # p.id
      <4>1. q \in actors \/ Ending(q.id)
        BY <2>1, Zenon DEF Sound, Valid
      <4> QED BY <1>1, <1>9, <3>2, <4>1, Zenon
    <3> QED BY <3>1, <3>2, Zenon
  <2>2. \A m, q : Knows(m, q)' <=> Knows(m, q)
    BY <1>1, <1>8, Zenon DEF Knows
  <2> QED BY <2>1, <2>2, Zenon DEF Valid
<1>12. Announced'
  <2>1. ASSUME NEW q \in actors' PROVE Reported(q)' \/ Ending(q.id)'
    <3>1. q \in actors /\ q # p /\ q.host \in Nodes
      BY <1>1, <2>1, PIDIds, Zenon DEF Typed
    <3>2. CASE q.id = p.id
      <4>1. q \in poisoned \/ Deacts(q.host, p.id)
        BY <1>3, <3>1, <3>2, Zenon
      <4> QED BY <1>1, <1>8, <3>1, <3>2, <4>1, Zenon DEF Ending
    <3>3. CASE q.id # p.id
      <4>1. Reported(q) \/ Ending(q.id)
        BY <3>1, Zenon DEF Sound, Announced
      <4>2. Reported(q)' <=> Reported(q)
        BY <1>1, Zenon DEF Reported, ByReply, BySpawn, ByAgent, Informed, Knows, Told, Mail
      <4> QED BY <1>9, <3>3, <4>1, <4>2, Zenon
    <3> QED BY <3>2, <3>3, Zenon
  <2> QED BY <2>1, Zenon DEF Announced
<1> QED BY <1>6, <1>7, <1>10, <1>11, <1>12, Zenon DEF Sound
\* Without an Activation under way, no agent has one in its mail.
LEMMA NothingPending ==
  ASSUME Typed, ~ActivationPending
  PROVE  spawning = {} /\ \A n \in Nodes : \A q \in PIDs : Activation(q) \notin Mail(n)
<1>1. /\ spawning = {}
      /\ \A n \in Nodes : \A s \in DOMAIN link[n] :
           \A k \in DOMAIN link[n][s] : link[n][s][k].type # "Activation"
  BY Zenon DEF ActivationPending
<1>2. ASSUME NEW n \in Nodes, NEW q \in PIDs, Activation(q) \in Mail(n) PROVE FALSE
  <2>1. PICK s \in Nodes : Activation(q) \in Contents(link[n][s])
    BY <1>2, MailByQueue, Zenon DEF Mail
  <2>2. link[n][s] \in Seq(Mails) /\ s \in DOMAIN link[n]
    BY Zenon DEF Typed, LinkOK
  <2>3. DOMAIN link[n][s] = 1..Len(link[n][s])
    BY <2>2
  <2>4. PICK k \in DOMAIN link[n][s] : Activation(q) = link[n][s][k]
    BY <2>1, <2>3, Zenon DEF Contents
  <2>5. Activation(q).type = "Activation"
    BY MailsApart, Zenon
  <2> QED BY <1>1, <2>2, <2>4, <2>5, Zenon
<1> QED BY <1>1, <1>2, Zenon

LEMMA SoundMembers ==
  ASSUME Typed, Typed', Sound, NEW n \in Nodes, NEW ms \in MemberSets(n), MembersTaken(n, ms),
         \A m \in agent[n].members : m \in ms, Joined(n, ms) = {} \/ ~ActivationPending
  PROVE  Sound'
<1>1. PICK ps \in Known : ps = agent[n].activated
  BY AgentFields, Zenon DEF Typed
<1>2. PICK ns : ns = IF ps = {} THEN {} ELSE Joined(n, ms)
  BY Zenon
<1>3. PICK msg \in News : msg = Topology(ps) /\ msg.pids = ps
  BY MailsApart, Zenon
<1>4. /\ \A m \in Nodes : m # n => agent'[m] = agent[m]
      /\ agent'[n].members = ms /\ agent'[n].waiting = agent[n].waiting
      /\ agent'[n].activated = {p \in ps : p.host \notin Left(n, ms)}
      /\ AsksSame(link', link) /\ MailIs(link', link, ns, msg)
      /\ replies' = replies /\ actors' = actors /\ poisoned' = poisoned /\ spawning' = spawning
  BY <1>1, <1>2, <1>3, Zenon DEF MembersTaken
<1>5. agent'[n].activated = agent[n].activated
  <2>1. \A x : x \notin Left(n, ms)
    BY Zenon DEF Left
  <2> QED BY <1>1, <1>4, <2>1
<1>6. NewsSent(link', link, ns, ps) /\ EndsSame(link', link) /\ ActsSent(link', link, ns, msg)
  <2>1. MailIs(link', link, ns, msg)
    BY <1>4, Zenon
  <2>2. NewsSent(link', link, ns, msg.pids) /\ EndsSame(link', link) /\ ActsSent(link', link, ns, msg)
    BY <2>1, NewsMail
  <2> QED BY <1>3, <2>2, Zenon
<1>7. /\ \A m \in Nodes : agent'[m].waiting = agent[m].waiting
      /\ \A m \in Nodes : agent'[m].activated = agent[m].activated
      /\ \A m \in Nodes : agent[m].members \subseteq agent'[m].members
  BY <1>4, <1>5, Zenon
<1>8. Asking'
  <2>1. AskFrame
    BY <1>4, <1>7, Zenon DEF AskFrame, Sound, Asking
  <2> QED BY <2>1, AskingKept, Zenon DEF Sound
<1>9. \A m \in Nodes : \A q : Told(m, q)' <=> Told(m, q) \/ (m \in ns /\ q \in ps)
  BY <1>6, Zenon DEF NewsSent, Told
<1>10. \A i : Starting(i)' <=> Starting(i)
  BY <1>4, <1>7, Zenon DEF Starting
<1>11. \A p : (ByReply(p)' <=> ByReply(p)) /\ (BySpawn(p)' <=> BySpawn(p))
  BY <1>4, Zenon DEF ByReply, BySpawn
<1>12. \A i : Ending(i)' <=> Ending(i)
  BY <1>4, <1>6, Zenon DEF Ending, EndsSame, Deacts
<1>13. CASE Joined(n, ms) = {}
  <2>1. ns = {} /\ \A m \in Nodes : agent'[m].members = agent[m].members
    <3>1. ns = {}
      BY <1>2, <1>13, Zenon
    <3>2. ms = agent[n].members
      BY <1>13, ZenonT(40) DEF Joined
    <3> QED BY <1>4, <3>1, <3>2, Zenon
  <2>2. SpawningInv'
    <3>1. \A w \in spawning : w.pid.host \in Nodes
      BY SpawnHost, Zenon
    <3> QED BY <1>4, <2>1, <3>1, Zenon DEF Sound, SpawningInv
  <2>3. Growing
    <3>1. \A m \in Nodes : \A q \in PIDs : Told(m, q)' <=> Told(m, q)
      BY <1>9, <2>1, Zenon
    <3>2. \A m \in Nodes : \A q \in PIDs : Activation(q) \in Mail(m)' <=> Activation(q) \in Mail(m)
      BY <1>6, <2>1, Zenon DEF ActsSent, Mail
    <3>3. \A p \in actors' : p \notin actors \/ ByReply(p) \/ BySpawn(p) => Reported(p)'
      BY <1>4, <1>11, Zenon DEF Reported
    <3> QED BY <1>4, <1>6, <1>7, <1>10, <2>1, <3>1, <3>2, <3>3, Zenon DEF Growing
  <2>4. EndingInv' /\ Valid' /\ Announced'
    BY <2>3, Grows, Zenon DEF Sound
  <2> QED BY <1>8, <2>2, <2>4, Zenon DEF Sound
<1>14. CASE Joined(n, ms) # {}
  <2>1. spawning = {} /\ \A m \in Nodes : \A q \in PIDs : Activation(q) \notin Mail(m)
    BY <1>14, NothingPending, Zenon
  <2>2. \A i \in Ids : ~Ending(i)
    <3>1. agent[n].members # Nodes
      BY <1>14 DEF Joined, MemberSets
    <3> QED BY <3>1, Zenon DEF Sound, EndingInv
  <2>3. SpawningInv' /\ EndingInv'
    BY <1>4, <1>12, <2>1, <2>2, Zenon DEF SpawningInv, EndingInv
  <2>4. Valid'
    <3>1. ASSUME NEW m \in Nodes, NEW q \in PIDs, Knows(m, q)' PROVE q \in actors
      <4>1. Knows(m, q) \/ Knows(n, q)
        BY <1>1, <1>7, <1>9, <3>1, Zenon DEF Knows
      <4>2. q.id \in Ids
        BY PIDIds, Zenon
      <4> QED BY <2>2, <4>1, <4>2, Zenon DEF Sound, Valid
    <3> QED BY <1>4, <3>1, Zenon DEF Valid
  <2>5. \A m \in Nodes : \A i : Informed(m, i) => Informed(m, i)'
    BY <1>7, <1>9, Zenon DEF Informed, Knows
  <2>6. ASSUME NEW p \in actors, ByAgent(p) PROVE ByAgent(p)'
    <3>1. PICK a \in Nodes :
            /\ p.host \in agent[a].members
            /\ \A m \in agent[a].members : Informed(m, p.id)
            /\ \E q \in PIDs : q.id = p.id /\ (q \in agent[a].activated \/ Activation(q) \in Mail(a))
      BY <2>6, Zenon DEF ByAgent
    <3>2. PICK q \in PIDs : q.id = p.id /\ q \in agent[a].activated
      BY <2>1, <3>1, Zenon
    <3>3. agent'[a].members \subseteq Nodes
      BY AgentFields, ZenonT(40) DEF Typed, NodeSets
    <3>4. ASSUME NEW m \in agent'[a].members PROVE Informed(m, p.id)'
      <4>1. CASE m \in agent[a].members
        BY <2>5, <3>1, <3>3, <3>4, <4>1, ZenonT(40)
      <4>2. CASE m \notin agent[a].members
        <5>1. a = n
          BY <1>4, <3>4, <4>2, Zenon
        <5>2. m \in Joined(n, ms)
          BY <1>4, <3>4, <4>2, <5>1, Zenon DEF Joined
        <5>3. q \in ps /\ m \in ns
          BY <1>1, <1>2, <3>2, <5>1, <5>2, ZenonT(40)
        <5>4. Told(m, q)'
          BY <1>9, <3>3, <3>4, <5>3, Zenon
        <5> QED BY <3>2, <5>4, Zenon DEF Informed, Knows
      <4> QED BY <4>1, <4>2, Zenon
    <3>5. p.host \in agent'[a].members /\ q \in agent'[a].activated
      BY <1>7, <3>1, <3>2, Zenon
    <3> QED BY <3>2, <3>4, <3>5, Zenon DEF ByAgent
  <2>7. Announced'
    BY <1>4, <1>11, <1>12, <2>6, Zenon DEF Sound, Announced, Reported
  <2> QED BY <1>8, <2>3, <2>4, <2>7, Zenon DEF Sound
<1> QED BY <1>13, <1>14, Zenon
-----------------------------------------------------------------------------
(* Ids are used once *)

\* An id that is settled, and not known to an agent, is not in use.
LEMMA FreeId ==
  ASSUME Typed, Sound, ~Apart, NEW i, ~Unsettled(i), NEW n \in Nodes, CanActivate(n, i)
  PROVE  \A p \in actors : p.id # i
<1>1. SUFFICES ASSUME NEW p \in actors, p.id = i PROVE FALSE
  BY Zenon
<1>2. ~Starting(i) /\ ~Ending(i) /\ \A m \in Nodes : \A q : q.id = i => ~Told(m, q)
  BY Settled, Zenon
<1>3. Reported(p)
  BY <1>1, <1>2, Zenon DEF Sound, Announced
<1>4. ASSUME ByReply(p) PROVE FALSE
  <2>1. PICK r \in replies : r.pid = p
    BY <1>4, Zenon DEF ByReply
  <2>2. agent[r.call.node].waiting = r.call /\ r.pid.id = r.call.id
    BY Zenon DEF Sound, Asking
  <2>3. r.call # None /\ r.call.node \in Nodes
    BY ReplyFields, Zenon
  <2> QED BY <1>1, <1>2, <2>1, <2>2, <2>3, ZenonT(40) DEF Starting
<1>5. ~BySpawn(p)
  BY <1>1, <1>2, Zenon DEF BySpawn, Starting
<1>6. ASSUME ByAgent(p) PROVE FALSE
  <2>1. PICK a \in Nodes : \A m \in agent[a].members : Informed(m, i)
    BY <1>1, <1>6, Zenon DEF ByAgent
  <2>2. Informed(n, i)
    BY <2>1, Zenon DEF Apart
  <2>3. PICK q \in PIDs : q.id = i /\ Knows(n, q)
    BY <2>2, Zenon DEF Informed
  <2> QED BY <1>2, <2>3, Zenon DEF Knows, CanActivate
<1> QED BY <1>3, <1>4, <1>5, <1>6, Zenon DEF Reported

\* Who asks for an id waits.
LEMMA AskerWaits ==
  ASSUME Sound, NEW n \in Nodes, NEW s \in Nodes, NEW c \in Calls, AskBy(link, n, s, c)
  PROVE  /\ agent[s].waiting = c /\ agent[s].waiting # None /\ Unsettled(c.id)
         /\ \A m \in Nodes : \A d \in Calls : AskBy(link, m, s, d) => m = n
<1>1. /\ agent[s].waiting = c
      /\ \A m \in Nodes : \A d \in Calls : AskBy(link, m, s, d) => m = n
  BY DEF Sound, Asking
<1>2. agent[s].waiting # None
  BY <1>1, NoneApart, Zenon
<1> QED BY <1>1, <1>2, Zenon DEF Unsettled

\* Steps that start no actor and send no request.
SingleFrame ==
  /\ \A n \in Nodes : agent'[n].waiting # None => agent'[n].waiting = agent[n].waiting
  /\ AsksSame(link', link) /\ actors' \subseteq actors

LEMMA SingleKept ==
  ASSUME Single, SingleFrame
  PROVE  Single'
<1>1. \A n, m \in Nodes : agent'[n].waiting # None /\ agent'[m].waiting # None
        /\ agent'[n].waiting.id = agent'[m].waiting.id => n = m
  <2>1. ASSUME NEW n \in Nodes, NEW m \in Nodes, agent'[n].waiting # None, agent'[m].waiting # None,
               agent'[n].waiting.id = agent'[m].waiting.id
        PROVE  n = m
    <3>1. agent'[n].waiting = agent[n].waiting /\ agent'[m].waiting = agent[m].waiting
      BY <2>1, Zenon DEF SingleFrame
    <3> QED BY <2>1, <3>1, Zenon DEF Single
  <2> QED BY <2>1, Zenon
<1>2. \A n, s \in Nodes : \A c \in Calls : AskBy(link', n, s, c) => \A p \in actors' : p.id # c.id
  BY Zenon DEF Single, SingleFrame, AsksSame
<1>3. Unique'
  BY Zenon DEF Single, SingleFrame, Unique
<1> QED BY <1>1, <1>2, <1>3, Zenon DEF Single

\* An actor is started whose id is not in use.
LEMMA SingleStarts ==
  ASSUME Single, Sound, NEW p \in PIDs, actors' = actors \cup {p}, \A q \in actors : q.id # p.id,
         agent' = agent,
         \A n, s \in Nodes : \A c \in Calls : AskBy(link', n, s, c) => AskBy(link, n, s, c) /\ c.id # p.id
  PROVE  Single'
<1>1. \A n, m \in Nodes : agent'[n].waiting # None /\ agent'[m].waiting # None
        /\ agent'[n].waiting.id = agent'[m].waiting.id => n = m
  BY Zenon DEF Single
<1>2. \A n, s \in Nodes : \A c \in Calls : AskBy(link', n, s, c) => \A q \in actors' : q.id # c.id
  BY Zenon DEF Single
<1>3. Unique'
  BY Zenon DEF Single, Unique
<1> QED BY <1>1, <1>2, <1>3, Zenon DEF Single

LEMMA SingleStarted ==
  ASSUME Typed, Single, Sound, NEW c \in Calls, Started(c), ~Unsettled(c.id), ~Apart
  PROVE  Single'
<1>1. PICK n \in Nodes : n = c.node
  BY CallPID, ClusterAssumption, Zenon
<1>2. PICK p \in PIDs : p = PID(n, c.id) /\ p.id = c.id
  BY CallPID, Zenon
<1>3. CanActivate(n, c.id) /\ agent' = agent /\ actors' = actors \cup {p} /\ AsksSame(link', link)
  BY <1>1, <1>2, Zenon DEF Started, SentAll
<1>4. \A q \in actors : q.id # p.id
  BY <1>2, <1>3, FreeId, Zenon
<1>5. ASSUME NEW m \in Nodes, NEW s \in Nodes, NEW d \in Calls, AskBy(link', m, s, d)
      PROVE  AskBy(link, m, s, d) /\ d.id # p.id
  <2>1. AskBy(link, m, s, d)
    BY <1>3, <1>5, Zenon DEF AsksSame
  <2>2. Unsettled(d.id)
    BY <2>1, AskerWaits, Zenon
  <2> QED BY <1>2, <2>1, <2>2, Zenon
<1> QED BY <1>3, <1>4, <1>5, SingleStarts, Zenon

LEMMA SingleSpawn ==
  ASSUME Typed, Single, Sound, NEW p \in PIDs, actors' = actors \cup {p}, ~Unsettled(p.id),
         \A q \in actors : q.id # p.id, UNCHANGED <<agent, link>>
  PROVE  Single'
<1>1. ASSUME NEW m \in Nodes, NEW s \in Nodes, NEW d \in Calls, AskBy(link', m, s, d)
      PROVE  AskBy(link, m, s, d) /\ d.id # p.id
  <2>1. AskBy(link, m, s, d)
    BY <1>1, Zenon
  <2>2. Unsettled(d.id)
    BY <2>1, AskerWaits, Zenon
  <2> QED BY <2>1, <2>2, Zenon
<1> QED BY <1>1, SingleStarts, Zenon

LEMMA SingleAsked ==
  ASSUME Typed, Single, Sound, NEW c \in Calls, NEW m, Asked(c, m), ~Unsettled(c.id), ~Apart
  PROVE  Single'
<1>1. PICK n \in Nodes : n = c.node
  BY CallPID, ClusterAssumption, Zenon
<1>2. /\ CanActivate(n, c.id) /\ actors' = actors
      /\ \A k \in Nodes : k # n => agent'[k] = agent[k]
      /\ agent'[n].waiting = c
      /\ \A k, t \in Nodes : \A d \in Calls :
           AskBy(link', k, t, d) => AskBy(link, k, t, d) \/ d = c
  BY <1>1, Zenon DEF Asked, AgentWaits
<1>3. \A q \in actors : q.id # c.id
  BY <1>2, FreeId, Zenon
<1>4. \A k \in Nodes : agent[k].waiting # None => agent[k].waiting.id # c.id
  BY Zenon DEF Unsettled
<1>5. ASSUME NEW j \in Nodes, NEW k \in Nodes, agent'[j].waiting # None, agent'[k].waiting # None,
             agent'[j].waiting.id = agent'[k].waiting.id
      PROVE  j = k
  <2>1. CASE j = n
    BY <1>2, <1>4, <1>5, <2>1, Zenon
  <2>2. CASE k = n
    BY <1>2, <1>4, <1>5, <2>2, Zenon
  <2>3. CASE j # n /\ k # n
    BY <1>2, <1>5, <2>3, Zenon DEF Single
  <2> QED BY <2>1, <2>2, <2>3, Zenon
<1>6. \A k, t \in Nodes : \A d \in Calls : AskBy(link', k, t, d) => \A p \in actors' : p.id # d.id
  BY <1>2, <1>3, ZenonT(40) DEF Single
<1>7. Unique'
  BY <1>2, Zenon DEF Single, Unique
<1> QED BY <1>5, <1>6, <1>7, Zenon DEF Single

LEMMA SingleAskTaken ==
  ASSUME Typed, Single, Sound, NEW n \in Nodes, NEW s \in Nodes, NEW c, AskTaken(n, s, c)
  PROVE  Single'
<1>1. c \in Calls /\ AskBy(link, n, s, c) /\ agent' = agent
  BY Zenon DEF AskTaken
<1>2. PICK p \in PIDs : p = PID(n, c.id) /\ p.id = c.id
  BY <1>1, CallPID, Zenon
<1>3. actors' = actors \/ actors' = actors \cup {p}
  BY <1>2, Zenon DEF AskTaken
<1>4. Alone(link[n][s])
  BY Zenon DEF Sound, Asking
<1>5. \A m, t \in Nodes : \A d \in Calls : AskBy(link', m, t, d) <=> AskBy(link, m, t, d) /\ ~(m = n /\ t = s)
  BY <1>4, Zenon DEF AskTaken
<1>6. agent[s].waiting = c /\ agent[s].waiting # None
  BY <1>1, AskerWaits, Zenon
<1>7. ASSUME NEW m \in Nodes, NEW t \in Nodes, NEW d \in Calls, AskBy(link', m, t, d)
      PROVE  AskBy(link, m, t, d) /\ d.id # p.id
  <2>1. AskBy(link, m, t, d) /\ ~(m = n /\ t = s)
    BY <1>5, <1>7, Zenon
  <2>2. /\ agent[t].waiting = d /\ agent[t].waiting # None
        /\ \A k \in Nodes : \A e \in Calls : AskBy(link, k, t, e) => k = m
    BY <2>1, AskerWaits, Zenon
  <2>3. ASSUME d.id = c.id PROVE FALSE
    <3>1. t = s
      BY <1>6, <2>2, <2>3, Zenon DEF Single
    <3> QED BY <1>1, <2>1, <2>2, <3>1, Zenon
  <2> QED BY <1>2, <2>1, <2>3, Zenon
<1>8. CASE actors' = actors
  <2>1. \A m, t \in Nodes : \A d \in Calls : AskBy(link', m, t, d) => \A q \in actors' : q.id # d.id
    BY <1>7, <1>8, Zenon DEF Single
  <2> QED BY <1>1, <1>8, <2>1, Zenon DEF Single, Unique
<1>9. CASE actors' = actors \cup {p}
  <2>1. \A q \in actors : q.id # p.id
    BY <1>1, <1>2, Zenon DEF Single
  <2> QED BY <1>1, <1>7, <1>9, <2>1, SingleStarts, Zenon
<1> QED BY <1>3, <1>8, <1>9, Zenon
-----------------------------------------------------------------------------
(* The invariant is kept by every step *)

\* Races and lost members are not forgotten.
LEMMA Onward ==
  ASSUME MildInv, SingleInv, race \subseteq race', unreachable \subseteq unreachable',
         Mild' /\ Sound => Sound',
         race' = {} /\ unreachable' = {} /\ Sound /\ Single => Single'
  PROVE  MildInv' /\ SingleInv'
<1>1. Mild' => Mild
  BY Zenon DEF Mild
<1>2. race' = {} /\ unreachable' = {} => race = {} /\ unreachable = {} /\ Mild
  BY Zenon DEF Mild
<1> QED BY <1>1, <1>2, Zenon DEF MildInv, SingleInv

\* Steps that are not about members.
LEMMA Besides ==
  ASSUME IInv, Typed', ViewsSame, KindsInv => KindsInv',
         Mild' /\ Sound => Sound',
         race' = {} /\ unreachable' = {} /\ Sound /\ Single => Single'
  PROVE  IInv'
<1>1. race \subseteq race' /\ unreachable \subseteq unreachable'
  BY Zenon DEF ViewsSame
<1>2. Views' /\ Joining' /\ Calm'
  BY ViewsKept, Zenon DEF IInv
<1>3. MildInv' /\ SingleInv'
  BY <1>1, Onward, Zenon DEF IInv
<1> QED BY <1>2, <1>3, Zenon DEF IInv

LEMMA AgentsKept ==
  ASSUME IInv, Typed', Views', Joining', AgentsSame, unreachable' = unreachable, race \subseteq race',
         Calm', \A n \in Nodes : panics'[n].agent = panics[n].agent
  PROVE  IInv'
<1>1. /\ agent' = agent /\ replies' = replies /\ actors' = actors /\ poisoned' = poisoned
      /\ spawning' = spawning /\ \A m, t \in Nodes : link'[m][t] = link[m][t]
  BY Zenon DEF AgentsSame
<1>2. Sound => Sound'
  BY <1>1, SoundSame, Zenon DEF IInv
<1>3. Single => Single'
  <2>1. QueuesSame(link', link)
    BY <1>1, Zenon DEF QueuesSame
  <2>2. AsksSame(link', link)
    BY <2>1, NoMail, Zenon
  <2>3. SingleFrame
    BY <1>1, <2>2, Zenon DEF SingleFrame
  <2> QED BY <2>3, SingleKept, Zenon
<1>4. KindsInv'
  BY <1>1, Zenon DEF IInv, KindsInv
<1>5. MildInv' /\ SingleInv'
  BY <1>2, <1>3, Onward, Zenon DEF IInv
<1> QED BY <1>4, <1>5, Zenon DEF IInv

\* Of an agent or a provider that has panicked nothing more is claimed, but that
\* the members and the kinds are still right.
LEMMA NotMild ==
  ASSUME "restart" \in race' \/ "panic" \in race' \/ "stranger" \in race' \/ "timeout" \in race'
  PROVE  ~Mild' /\ race' # {} /\ MildInv' /\ SingleInv'
<1>1. "restart" # "apart" /\ "panic" # "apart" /\ "stranger" # "apart" /\ "timeout" # "apart"
  OBVIOUS
<1>2. ~Mild' /\ race' # {}
  BY <1>1, Zenon DEF Mild
<1> QED BY <1>2, Zenon DEF MildInv, SingleInv

LEMMA ProviderStep ==
  ASSUME IInv, NEW n \in Nodes, NEW s \in Nodes, ProviderReceive(n, s)
  PROVE  IInv'
<1>1. ProviderPanics /\ ((\E ms \in MemberSets(n) : ProviderMoves(n, ms)) \/ ProviderEnds(n))
  BY ProviderReceives, Zenon DEF IInv
<1>2. Joining'
  BY ProviderJoins, Zenon DEF IInv
<1>3. ASSUME unreachable' = unreachable, race \subseteq race' PROVE Calm'
  <2>1. ASSUME NEW m \in Nodes
        PROVE  /\ panics'[m].agent # 0 => "panic" \in race'
               /\ panics'[m].provider # 0 => "restart" \in race' /\ unreachable' # {}
    <3>1. /\ panics'[m].agent = panics[m].agent
          /\ panics'[m].provider # panics[m].provider => "restart" \in race' /\ unreachable # {}
      BY <1>1, Zenon DEF ProviderPanics
    <3>2. /\ panics[m].agent # 0 => "panic" \in race
          /\ panics[m].provider # 0 => "restart" \in race /\ unreachable # {}
      BY Zenon DEF IInv, Calm
    <3> QED BY <1>3, <3>1, <3>2, Zenon
  <2> QED BY <2>1, Zenon DEF Calm
<1>4. \A m \in Nodes : panics'[m].agent = panics[m].agent
  BY <1>1, Zenon DEF ProviderPanics
<1>5. ASSUME NEW ms \in MemberSets(n), ProviderMoves(n, ms) PROVE IInv'
  <2>1. Typed' /\ Views' /\ AgentsSame /\ unreachable' = unreachable /\ race \subseteq race'
    BY <1>1, <1>5, ProviderSteps, Zenon DEF IInv
  <2> QED BY <1>2, <1>3, <1>4, <2>1, AgentsKept, Zenon
<1>6. ASSUME ProviderEnds(n) PROVE IInv'
  <2>1. Typed' /\ Views' /\ agent' = agent /\ unreachable' = unreachable /\ race \subseteq race'
    BY <1>1, <1>6, ProviderEndSteps, Zenon DEF IInv
  <2>2. MildInv' /\ SingleInv'
    BY <1>6, NotMild, Zenon DEF ProviderEnds
  <2>3. KindsInv'
    BY <1>4, <2>1, Zenon DEF IInv, KindsInv
  <2> QED BY <1>2, <1>3, <2>1, <2>2, <2>3, Zenon DEF IInv
<1> QED BY <1>1, <1>5, <1>6, Zenon

LEMMA DiscoverStep ==
  ASSUME IInv, NEW n \in Nodes, NEW m \in Nodes, Discover(n, m)
  PROVE  IInv'
<1>1. /\ Typed' /\ Views' /\ Joining' /\ AgentsSame /\ unreachable' = unreachable /\ race' = race
      /\ panics' = panics
  BY DiscoverSteps, Zenon DEF IInv
<1>2. race \subseteq race'
  BY <1>1, Zenon
<1>3. Calm'
  BY <1>1, Zenon DEF IInv, Calm
<1> QED BY <1>1, <1>2, <1>3, AgentsKept, Zenon

LEMMA UnreachableStep ==
  ASSUME IInv, NEW n \in Nodes, NEW m \in Nodes, Unreachable(n, m)
  PROVE  IInv'
<1>1. /\ Typed' /\ Views' /\ agent' = agent /\ unreachable' # {}
      /\ panics' = panics /\ race' = race
  BY UnreachableSteps, Zenon DEF IInv
<1>2. Joining' /\ MildInv' /\ SingleInv'
  BY <1>1, Zenon DEF Joining, MildInv, Mild, SingleInv
<1>3. KindsInv'
  BY <1>1, Zenon DEF IInv, KindsInv
<1>4. Calm'
  BY <1>1, Zenon DEF IInv, Calm
<1> QED BY <1>1, <1>2, <1>3, <1>4, Zenon DEF IInv

LEMMA MembersStep ==
  ASSUME IInv, NEW n \in Nodes, AgentReceive(n, Provider)
  PROVE  IInv'
<1>1. PICK ms \in MemberSets(n) : MembersTaken(n, ms)
  BY MembersSteps, Zenon DEF IInv
<1>2. /\ Typed' /\ Views' /\ KindsInv' /\ Joining' /\ Calm'
      /\ \A m \in agent[n].members : m \notin ms => Justified(n, m)
  BY <1>1, MembersKept, MembersKinds, MembersJoining, Zenon DEF IInv
<1>3. /\ race' = race \cup (IF Joined(n, ms) # {} /\ ActivationPending THEN {"join"} ELSE {})
      /\ unreachable' = unreachable /\ actors' = actors /\ AsksSame(link', link)
      /\ \A m \in Nodes : m # n => agent'[m] = agent[m]
      /\ agent'[n].waiting = agent[n].waiting
  BY <1>1, Zenon DEF MembersTaken
<1>4. race \subseteq race' /\ unreachable \subseteq unreachable'
  BY <1>3, Zenon
<1>5. ASSUME Mild', Sound PROVE Sound'
  <2>1. "restart" # "apart" /\ "join" # "apart"
    OBVIOUS
  <2>2. /\ \A m \in agent[n].members : m \in ms
        /\ Joined(n, ms) = {} \/ ~ActivationPending
    BY <1>2, <1>3, <1>5, <2>1, Zenon DEF Mild, Justified
  <2> QED BY <1>1, <1>2, <1>5, <2>2, SoundMembers, ZenonT(40) DEF IInv
<1>6. Single => Single'
  <2>1. SingleFrame
    BY <1>3, Zenon DEF SingleFrame
  <2> QED BY <2>1, SingleKept, Zenon
<1>7. MildInv' /\ SingleInv'
  BY <1>4, <1>5, <1>6, Onward, ZenonT(40) DEF IInv
<1> QED BY <1>2, <1>7, Zenon DEF IInv

LEMMA MailStep ==
  ASSUME IInv, NEW n \in Nodes, NEW s \in Nodes, AgentReceive(n, s)
  PROVE  IInv'
<1>5. CASE NilTaken(n)
  <2>1. Typed' /\ Views' /\ Joining' /\ KindsInv' /\ Calm'
    BY <1>5, NilKept, Zenon DEF IInv
  <2>2. MildInv' /\ SingleInv'
    BY <1>5, NotMild, Zenon DEF NilTaken
  <2> QED BY <2>1, <2>2, Zenon DEF IInv
<1>6. SUFFICES ASSUME /\ Typed' /\ ViewsSame /\ (KindsInv => KindsInv')
                      /\ \/ \E msg : NewsTaken(n, msg)
                         \/ \E p : EndTaken(n, p)
                         \/ \E c : AskTaken(n, s, c)
               PROVE  IInv'
  BY <1>5, MailSteps, Zenon DEF IInv
<1>1. Typed' /\ ViewsSame /\ (KindsInv => KindsInv')
  BY <1>6, Zenon
<1>2. ASSUME NEW msg, NewsTaken(n, msg) PROVE IInv'
  <2>1. Sound => Sound'
    BY <1>1, <1>2, SoundNewsTaken, Zenon DEF IInv
  <2>2. SingleFrame
    BY <1>2, Zenon DEF SingleFrame, NewsTaken, AgentKnows
  <2>3. Single => Single'
    BY <2>2, SingleKept, ZenonT(40)
  <2> QED BY <1>1, <2>1, <2>3, Besides, ZenonT(40)
<1>3. ASSUME NEW p, EndTaken(n, p) PROVE IInv'
  <2>1. Sound => Sound'
    BY <1>1, <1>3, SoundEndTaken, Zenon DEF IInv
  <2>2. SingleFrame
    BY <1>3, Zenon DEF SingleFrame, EndTaken, AgentKnows
  <2>3. Single => Single'
    BY <2>2, SingleKept, Zenon
  <2> QED BY <1>1, <2>1, <2>3, Besides, Zenon
<1>4. ASSUME NEW c, AskTaken(n, s, c) PROVE IInv'
  <2>1. Sound => Sound'
    BY <1>1, <1>4, SoundAskTaken, Zenon DEF IInv
  <2>2. Single /\ Sound => Single'
    BY <1>4, SingleAskTaken, Zenon DEF IInv
  <2> QED BY <1>1, <2>1, <2>2, Besides, Zenon
<1> QED BY <1>2, <1>3, <1>4, <1>6, Zenon

LEMMA ReplyStep ==
  ASSUME IInv, NEW n \in Nodes, ActivateReply(n)
  PROVE  IInv'
<1>1. Typed' /\ ViewsSame /\ (KindsInv => KindsInv') /\ \E r : Replied(n, r)
  BY ReplySteps, Zenon DEF IInv
<1>2. PICK r : Replied(n, r)
  BY <1>1, Zenon
<1>3. Sound => Sound'
  BY <1>1, <1>2, SoundReplied, Zenon DEF IInv
<1>4. SingleFrame
  <2>1. AsksSame(link', link)
    <3>1. CASE r.success
      BY <1>2, <3>1, Zenon DEF Replied, SentAll
    <3>2. CASE ~r.success
      BY <1>2, <3>2, NoMail, Zenon DEF Replied, QueuesSame
    <3> QED BY <3>1, <3>2, Zenon
  <2> QED BY <1>2, <2>1, Zenon DEF SingleFrame, Replied, AgentWaits
<1>5. Single => Single'
  BY <1>4, SingleKept, Zenon
<1> QED BY <1>1, <1>3, <1>5, Besides, Zenon

\* Nor after a timeout, or a request to a node that is no member.
LEMMA TimeoutStep ==
  ASSUME IInv, Typed', ViewsSame, KindsInv => KindsInv', "timeout" \in race' \/ "stranger" \in race'
  PROVE  IInv'
<1>1. ~Mild' /\ race' # {}
  BY NotMild, Zenon
<1> QED BY <1>1, Besides, Zenon

\* A nil PID is sent to some agents.
LEMMA BlankStep ==
  ASSUME IInv, Typed', ViewsSame, KindsInv => KindsInv', NEW ns, NEW msg \in Blanks, SentAll(ns, msg),
         UNCHANGED <<agent, replies, actors, poisoned, spawning>>
  PROVE  IInv'
<1>1. Sound => Sound'
  BY SoundBlank, Zenon DEF IInv
<1>2. SingleFrame
  BY Zenon DEF SingleFrame, SentAll
<1>3. Single => Single'
  BY <1>2, SingleKept, Zenon
<1> QED BY <1>1, <1>3, Besides, Zenon

LEMMA ActivateStep ==
  ASSUME IInv, NEW c \in Calls, NEW to, Activate(c, to)
  PROVE  IInv'
<1>1. /\ Typed' /\ ViewsSame /\ (KindsInv => KindsInv')
      /\ UNCHANGED <<replies, poisoned, spawning, unreachable>>
      /\ race' = race \cup (IF Unsettled(c.id) THEN {"activate"} ELSE {})
                      \cup (IF Apart THEN {"apart"} ELSE {})
                      \cup (IF to # None /\ to \notin agent[c.node].members
                           THEN {"stranger"} ELSE {})
      /\ Refused(c) \/ Started(c) \/ Blank(c) \/ (\E m : Asked(c, m)) \/ "stranger" \in race'
  BY ActivateSteps, Zenon DEF IInv
<1>2. "activate" # "apart"
  OBVIOUS
<1>3. Mild' => ~Unsettled(c.id)
  BY <1>1, <1>2, Zenon DEF Mild
<1>4. race' = {} => ~Unsettled(c.id) /\ ~Apart
  BY <1>1, Zenon
<1>5. ASSUME Refused(c) PROVE IInv'
  <2>1. link' = link /\ agent' = agent /\ actors' = actors
    BY <1>5, Zenon DEF Refused
  <2>2. Sound => Sound'
    BY <1>1, <2>1, SoundSame, Zenon DEF IInv
  <2>3. QueuesSame(link', link)
    BY <2>1, Zenon DEF QueuesSame
  <2>4. SingleFrame
    BY <2>1, <2>3, NoMail, Zenon DEF SingleFrame
  <2>5. Single => Single'
    BY <2>4, SingleKept, Zenon
  <2> QED BY <1>1, <2>2, <2>5, Besides, Zenon
<1>6. ASSUME Started(c) PROVE IInv'
  <2>1. Mild' /\ Sound => Sound'
    BY <1>1, <1>3, <1>6, SoundStarted, Zenon DEF IInv
  <2>2. race' = {} /\ Sound /\ Single => Single'
    BY <1>4, <1>6, SingleStarted, ZenonT(40) DEF IInv
  <2> QED BY <1>1, <2>1, <2>2, Besides, Zenon
<1>7. ASSUME NEW m, Asked(c, m) PROVE IInv'
  <2>1. Mild' /\ Sound => Sound'
    BY <1>1, <1>3, <1>7, SoundAsked, Zenon DEF IInv
  <2>2. race' = {} /\ Sound /\ Single => Single'
    BY <1>4, <1>7, SingleAsked, Zenon DEF IInv
  <2> QED BY <1>1, <2>1, <2>2, Besides, Zenon
<1>8. ASSUME Blank(c) PROVE IInv'
  BY <1>1, <1>8, BlankTells, BlankStep, Zenon DEF Blank
<1>9. ASSUME "stranger" \in race' PROVE IInv'
  BY <1>1, <1>9, TimeoutStep, Zenon
<1> QED BY <1>1, <1>5, <1>6, <1>7, <1>8, <1>9, Zenon

LEMMA DeactivateStep ==
  ASSUME IInv, NEW n \in Nodes, NEW p, Deactivate(n, p)
  PROVE  IInv'
<1>1. /\ Typed' /\ ViewsSame /\ (KindsInv => KindsInv')
      /\ \/ /\ p \in PIDs /\ SentAll(agent[n].members, Deactivation(p))
            /\ race' = race \cup (IF Apart \/ Unsettled(p.id) THEN {"deactivate"} ELSE {})
         \/ SentAll(agent[n].members, Nil("Deactivation")) /\ race' = race
      /\ UNCHANGED <<agent, replies, actors, poisoned, spawning, unreachable>>
  BY DeactivateSteps, Zenon DEF IInv
<1>2. ASSUME p \in PIDs, SentAll(agent[n].members, Deactivation(p)),
             race' = race \cup (IF Apart \/ Unsettled(p.id) THEN {"deactivate"} ELSE {})
      PROVE  IInv'
  <2>1. "deactivate" # "apart"
    OBVIOUS
  <2>2. Mild' => ~Apart /\ ~Unsettled(p.id)
    BY <1>2, <2>1, Zenon DEF Mild
  <2>3. Mild' /\ Sound => Sound'
    BY <1>1, <1>2, <2>2, SoundDeactivate, Zenon DEF IInv
  <2>4. SingleFrame
    BY <1>1, <1>2, Zenon DEF SingleFrame, SentAll
  <2>5. Single => Single'
    BY <2>4, SingleKept, Zenon
  <2> QED BY <1>1, <2>3, <2>5, Besides, Zenon
<1>3. ASSUME SentAll(agent[n].members, Nil("Deactivation")) PROVE IInv'
  BY <1>1, <1>3, BlankTells, BlankStep, Zenon
<1> QED BY <1>1, <1>2, <1>3, Zenon

LEMMA MildCalm ==
  ASSUME Calm, Mild, NEW n \in Nodes
  PROVE  panics[n].agent = 0 /\ panics[n].provider = 0
<1>1. "restart" # "apart" /\ "panic" # "apart"
  OBVIOUS
<1> QED BY <1>1, Zenon DEF Calm, Mild

LEMMA SpawnStep ==
  ASSUME IInv, NEW p, Spawn(p)
  PROVE  IInv'
<1>1. /\ Typed' /\ ViewsSame /\ (KindsInv => KindsInv')
      /\ p \in PIDs /\ actors' = actors \cup {p}
      /\ spawning' = spawning \cup {[pid |-> p, members |-> None]}
      /\ race' = race \cup (IF Unsettled(p.id) \/ \E q \in actors : q.id = p.id
                           THEN {"activate"} ELSE {})
      /\ UNCHANGED <<agent, link, replies, poisoned, unreachable>>
  BY SpawnSteps, Zenon DEF IInv
<1>2. "activate" # "apart"
  OBVIOUS
<1>3. Mild' => ~Unsettled(p.id)
  BY <1>1, <1>2, Zenon DEF Mild
<1>4. race' = {} => ~Unsettled(p.id) /\ \A q \in actors : q.id # p.id
  BY <1>1, Zenon
<1>5. Mild' /\ Sound => Sound'
  BY <1>1, <1>3, SoundSpawn, Zenon DEF IInv
<1>6. race' = {} /\ Sound /\ Single => Single'
  BY <1>1, <1>4, SingleSpawn, Zenon DEF IInv
<1> QED BY <1>1, <1>5, <1>6, Besides, Zenon

LEMMA SpawningStep ==
  ASSUME IInv, NEW w \in spawning, SpawnMembers(w) \/ SpawnTimeout(w) \/ SpawnAnnounce(w)
  PROVE  IInv'
<1>1. ASSUME SpawnMembers(w) PROVE IInv'
  <2>1. Typed' /\ ViewsSame /\ (KindsInv => KindsInv')
    BY <1>1, SpawnMembersSteps, Zenon DEF IInv
  <2>2. ASSUME Mild', Sound PROVE Sound'
    <3>1. w.pid.host \in Nodes
      BY SpawnHost, Zenon DEF IInv
    <3>2. panics[w.pid.host].agent = 0
      <4>1. Mild
        BY <2>1, <2>2, Zenon DEF Mild, ViewsSame
      <4> QED BY <3>1, <4>1, MildCalm, Zenon DEF IInv
    <3>3. ~(panics[w.pid.host].agent > 0)
      BY <3>2
    <3> QED BY <1>1, <2>1, <2>2, <3>3, SoundSpawnMembers, Zenon DEF IInv, SpawnMembers
  <2>3. link' = link /\ agent' = agent /\ actors' = actors
    BY <1>1, Zenon DEF SpawnMembers
  <2>4. QueuesSame(link', link)
    BY <2>3, Zenon DEF QueuesSame
  <2>5. SingleFrame
    BY <2>3, <2>4, NoMail, Zenon DEF SingleFrame
  <2>6. Single => Single'
    BY <2>5, SingleKept, Zenon
  <2> QED BY <2>1, <2>2, <2>6, Besides, Zenon
<1>2. ASSUME SpawnTimeout(w) PROVE IInv'
  BY <1>2, SpawnTimeoutSteps, TimeoutStep, Zenon DEF IInv
<1>3. ASSUME SpawnAnnounce(w) PROVE IInv'
  <2>1. /\ Typed' /\ ViewsSame /\ (KindsInv => KindsInv') /\ w.members # None
        /\ SentAll(w.members, Activation(w.pid)) /\ spawning' = spawning \ {w}
        /\ UNCHANGED <<agent, replies, actors, poisoned>>
    BY <1>3, SpawnAnnounceSteps, Zenon DEF IInv
  <2>2. Sound => Sound'
    BY <2>1, SoundSpawnAnnounce, Zenon DEF IInv
  <2>3. SingleFrame
    BY <2>1, Zenon DEF SingleFrame, SentAll
  <2>4. Single => Single'
    BY <2>3, SingleKept, Zenon
  <2> QED BY <2>1, <2>2, <2>4, Besides, Zenon
<1> QED BY <1>1, <1>2, <1>3, Zenon

LEMMA StopsStep ==
  ASSUME IInv, NEW p \in poisoned, ActorStops(p)
  PROVE  IInv'
<1>1. Typed' /\ ViewsSame /\ (KindsInv => KindsInv')
  BY StopsSteps, Zenon DEF IInv
<1>2. Sound => Sound'
  BY <1>1, SoundStops, Zenon DEF IInv
<1>3. link' = link /\ agent' = agent /\ actors' \subseteq actors
  BY Zenon DEF ActorStops
<1>4. QueuesSame(link', link)
  BY <1>3, Zenon DEF QueuesSame
<1>5. SingleFrame
  BY <1>3, <1>4, NoMail, Zenon DEF SingleFrame
<1>6. Single => Single'
  BY <1>5, SingleKept, Zenon
<1> QED BY <1>1, <1>2, <1>6, Besides, Zenon

LEMMA Step ==
  ASSUME IInv, Next
  PROVE  IInv'
<1>0. \A n \in Up : n \in Nodes
  BY Zenon DEF Up
<1>1. ASSUME NEW n \in Nodes, ProviderRuns(n) PROVE IInv'
  BY <1>1, ProviderStep, Zenon DEF ProviderRuns
<1>2. ASSUME NEW n \in Nodes, AgentRuns(n) PROVE IInv'
  <2>1. ASSUME NEW s \in Nodes \cup {Provider}, AgentReceive(n, s) PROVE IInv'
    BY <2>1, MembersStep, MailStep, Zenon
  <2>2. ASSUME ActivateReply(n) PROVE IInv'
    BY <2>2, ReplyStep, Zenon
  <2>3. ASSUME ActivateTimeout(n) PROVE IInv'
    BY <2>3, TimeoutSteps, TimeoutStep, Zenon DEF IInv
  <2> QED BY <1>2, <2>1, <2>2, <2>3, ZenonT(40) DEF AgentRuns
<1>3. ASSUME NEW n \in Nodes, NEW m \in Nodes, Discover(n, m) \/ Unreachable(n, m) PROVE IInv'
  BY <1>3, DiscoverStep, UnreachableStep, Zenon
<1> QED BY <1>0, <1>1, <1>2, <1>3, StopsStep, SpawningStep, ActivateStep, DeactivateStep, SpawnStep,
       ZenonT(40) DEF Next, Runs

LEMMA Stutter ==
  ASSUME IInv, UNCHANGED vars
  PROVE  IInv'
<1>1. /\ provider' = provider /\ plink' = plink /\ agent' = agent /\ link' = link
      /\ replies' = replies /\ actors' = actors /\ poisoned' = poisoned /\ todo' = todo
      /\ spawning' = spawning /\ unreachable' = unreachable /\ race' = race
      /\ panics' = panics
  BY Zenon DEF vars
<1>2. Typed'
  BY <1>1, Zenon DEF IInv, Typed
<1>3. ViewsSame /\ (KindsInv => KindsInv')
  BY <1>1, Zenon DEF ViewsSame, KindsInv
<1>4. Sound => Sound'
  BY <1>1, <1>2, SoundSame, Zenon DEF IInv
<1>5. QueuesSame(link', link)
  BY <1>1, Zenon DEF QueuesSame
<1>6. SingleFrame
  BY <1>1, <1>5, NoMail, Zenon DEF SingleFrame
<1>7. Single => Single'
  BY <1>6, SingleKept, Zenon
<1> QED BY <1>2, <1>3, <1>4, <1>7, Besides, ZenonT(40)
-----------------------------------------------------------------------------
(* The first state *)

LEMMA OneList ==
  ASSUME NEW S, NEW x \in S
  PROVE  /\ <<x>> \in Seq(S) /\ <<>> \in Seq(S) /\ <<x>> # <<>>
         /\ Len(<<x>>) = 1 /\ <<x>>[1] = x /\ Len(<<>>) = 0
         /\ \A y : (Holds(<<x>>, y) <=> y = x) /\ ~Holds(<<>>, y)
BY DEF Holds

LEMMA NoMessages ==
  /\ Contents(<<>>) = {} /\ Alone(<<>>)
<1>1. 1..Len(<<>>) = {}
  OBVIOUS
<1> QED BY <1>1, Zenon DEF Contents, Alone

LEMMA InitTyped ==
  ASSUME Init
  PROVE  Typed
<1>1. provider \in [Nodes -> NodeSets] /\ \A n \in Nodes : n \in provider[n]
  <2>1. \A n \in Nodes : {n} \in NodeSets
    BY DEF NodeSets
  <2> QED BY <2>1, Zenon DEF Init
<1>2. PlinkOK(plink)
  <2>1. plink = [n \in Nodes |-> [s \in Nodes |-> IF n \in Bootstrap[s] THEN <<Handshake>> ELSE <<>>]]
    BY Zenon DEF Init
  <2>2. \A n \in Nodes : Handshake \in Letters(n)
    BY Zenon DEF Letters
  <2>3. \A n \in Nodes : <<Handshake>> \in Seq(Letters(n)) /\ <<>> \in Seq(Letters(n))
    BY <2>2, OneList, Zenon
  <2> QED BY <2>1, <2>3, Zenon DEF PlinkOK
<1>3. LinkOK(link)
  <2>1. link = [n \in Nodes |-> [s \in Nodes \cup {Provider} |->
                  IF s = Provider THEN <<Members({n})>> ELSE <<>>]]
    BY Zenon DEF Init
  <2>2. \A n \in Nodes : Members({n}) \in Lists(n)
    BY DEF Lists, MemberSets
  <2>3. \A n \in Nodes : <<Members({n})>> \in Seq(Lists(n))
    BY <2>2, OneList, Zenon
  <2>4. <<>> \in Seq(Mails)
    OBVIOUS
  <2>5. \A n, s \in Nodes : link[n][s] = <<>>
    BY <2>1, ProviderNoNode, Zenon
  <2>6. \A n \in Nodes : link[n][Provider] = <<Members({n})>>
    BY <2>1, Zenon
  <2>7. DOMAIN link = Nodes /\ \A n \in Nodes : DOMAIN link[n] = Nodes \cup {Provider}
    BY <2>1, Zenon
  <2> QED BY <2>3, <2>4, <2>5, <2>6, <2>7, ZenonT(40) DEF LinkOK
<1>4. agent \in [Nodes -> Agent]
  <2>1. {} \in NodeSets /\ {} \in Known /\ None \in Waits /\ \A n \in Nodes : LocalKinds[n] \in KindSets
    BY ClusterAssumption, Zenon DEF NodeSets, Known, OneEach, Waits, KindSets
  <2>2. \A n \in Nodes : [members |-> {}, kinds |-> LocalKinds[n], activated |-> {}, waiting |-> None] \in Agent
    BY <2>1, Zenon DEF Agent
  <2> QED BY <2>2, Zenon DEF Init
<1>5. \A n \in Nodes : agent[n].waiting = None /\ agent[n].members = {}
  BY Zenon DEF Init
<1>6. todo \in Todo
  <2>1. /\ Calls \in SUBSET Calls /\ MayDeactivate \in SUBSET (PIDs \cup {None})
        /\ Spawns \in SUBSET Spawns /\ MaxCalls \in Nat
    BY ClusterAssumption, Zenon DEF PIDs
  <2> QED BY <2>1, Zenon DEF Init, Todo
<1>7. replies \subseteq Reply /\ actors \subseteq PIDs /\ poisoned \subseteq actors /\ spawning \subseteq Spawning
  BY Zenon DEF Init
<1>8. panics \in [Nodes -> Counts]
  <2>1. [provider |-> 0, agent |-> 0] \in Counts
    BY DEF Counts
  <2> QED BY <2>1, Zenon DEF Init
<1> QED BY <1>1, <1>2, <1>3, <1>4, <1>5, <1>6, <1>7, <1>8, ZenonT(40) DEF Typed

LEMMA InitIInv ==
  ASSUME Init
  PROVE  IInv
<1>1. Typed
  BY InitTyped, Zenon
<1>2. /\ provider = [n \in Nodes |-> {n}]
      /\ plink = [n \in Nodes |-> [s \in Nodes |-> IF n \in Bootstrap[s] THEN <<Handshake>> ELSE <<>>]]
      /\ link = [n \in Nodes |-> [s \in Nodes \cup {Provider} |->
                   IF s = Provider THEN <<Members({n})>> ELSE <<>>]]
      /\ replies = {} /\ actors = {} /\ poisoned = {} /\ spawning = {}
  BY Zenon DEF Init
<1>3. \A n \in Nodes : /\ agent[n].members = {} /\ agent[n].kinds = LocalKinds[n]
                       /\ agent[n].activated = {} /\ agent[n].waiting = None
  BY Zenon DEF Init
<1>4. \A n, s \in Nodes : link[n][s] = <<>>
  BY <1>2, ProviderNoNode, Zenon
<1>5. \A n \in Nodes : link[n][Provider] = <<Members({n})>>
  BY <1>2, Zenon
<1>6. Views
  <2>1. ASSUME NEW n \in Nodes, NEW s \in Nodes, NEW m \in Nodes PROVE ~Holds(plink[n][s], MemberLeave(m))
    <3>1. plink[n][s] = <<Handshake>> \/ plink[n][s] = <<>>
      BY <1>2, Zenon
    <3>2. MemberLeave(m) # Handshake
      BY LettersApart, Zenon
    <3>3. \A y : (Holds(<<Handshake>>, y) <=> y = Handshake) /\ ~Holds(<<>>, y)
      BY OneList, Zenon
    <3> QED BY <3>1, <3>2, <3>3, Zenon
  <2>2. ASSUME NEW n \in Nodes, NEW m \in Nodes PROVE Chain(link[n][Provider], agent[n].members, m)
    <3>1. 1..Len(<<Members({n})>>) = 1..1 /\ \A k \in 1..1 : 1..(k - 1) = {}
      OBVIOUS
    <3> QED BY <1>3, <1>5, <3>1, Zenon DEF Chain
  <2>3. ASSUME NEW n \in Nodes PROVE Latest(link[n][Provider], agent[n].members) = provider[n]
    <3>1. <<Members({n})>> # <<>> /\ Len(<<Members({n})>>) = 1 /\ <<Members({n})>>[1] = Members({n})
      OBVIOUS
    <3>2. Members({n}).members = {n}
      BY DEF Members
    <3> QED BY <1>2, <1>5, <3>1, <3>2, Zenon DEF Latest
  <2> QED BY <2>1, <2>2, <2>3, Zenon DEF Views
<1>7. Joining
  <2>1. ASSUME NEW n \in Nodes, NEW m \in Bootstrap[n] PROVE Holds(plink[m][n], Handshake)
    <3>1. m \in Nodes
      BY ClusterAssumption, Zenon
    <3>2. plink[m][n] = <<Handshake>>
      BY <1>2, <3>1, Zenon
    <3>3. Holds(<<Handshake>>, Handshake)
      BY OneList, Zenon
    <3> QED BY <3>2, <3>3, Zenon
  <2> QED BY <2>1, Zenon DEF Joining
<1>8. KindsInv
  <2>1. \A n \in Nodes : KindsOf({} \cup {n}) = LocalKinds[n]
    BY DEF KindsOf
  <2> QED BY <1>3, <2>1, Zenon DEF KindsInv
<1>9. \A n \in Nodes : Mail(n) = {}
  <2>1. \A n, s \in Nodes : Contents(link[n][s]) = {}
    BY <1>4, NoMessages, Zenon
  <2> QED BY <2>1, Zenon DEF Mail, MailOf
<1>10. \A n, s \in Nodes : \A c \in Calls : ~AskBy(link, n, s, c)
  BY <1>4, NoMessages, Zenon DEF AskBy
<1>11. \A n \in Nodes : \A q : ~Knows(n, q) /\ ~Told(n, q) /\ ~Deacts(n, q)
  BY <1>3, <1>9, Zenon DEF Knows, Told, ToldBy, Deacts, DeactsBy, Mail
<1>12. \A i : ~Ending(i)
  BY <1>2, <1>11, Zenon DEF Ending
<1>13. Sound
  <2>1. Asking
    BY <1>2, <1>4, <1>10, NoMessages, Zenon DEF Asking
  <2>2. SpawningInv /\ EndingInv /\ Valid /\ Announced
    BY <1>2, <1>11, <1>12, Zenon DEF SpawningInv, EndingInv, Valid, Announced
  <2> QED BY <2>1, <2>2, Zenon DEF Sound
<1>14. Single
  BY <1>2, <1>3, <1>10, Zenon DEF Single, Unique
<1>15. Calm
  <2>1. \A n \in Nodes : panics[n].agent = 0 /\ panics[n].provider = 0
    BY Zenon DEF Init
  <2> QED BY <2>1, Zenon DEF Calm
<1> QED BY <1>1, <1>6, <1>7, <1>8, <1>13, <1>14, <1>15, ZenonT(40) DEF IInv, MildInv, SingleInv

-----------------------------------------------------------------------------
(* What holds of every cluster *)

\* The inductive invariant: lists of members that lead from an agent's view to
\* its provider's, handshakes that are answered, panics that have left their mark
\* in the history, what agents know of actors while nothing is missed, and ids
\* that are used once while nothing races.
THEOREM Invariance == Spec => []IInv
<1>1. Init => IInv
  BY InitIInv, Zenon
<1>2. IInv /\ [Next]_vars => IInv'
  BY Step, Stutter, Zenon
<1> QED BY <1>1, <1>2, PTL DEF Spec

\* TypeOK: providers have themselves as a member, an agent knows one PID for an
\* id (addActivated) and only actors that are registered have a pill.
THEOREM TypeCorrect == Spec => []TypeOK
<1>1. IInv => TypeOK
  <2>1. SUFFICES ASSUME IInv PROVE TypeOK
    OBVIOUS
  <2>2. Typed
    BY <2>1, Zenon DEF IInv
  <2>3. \A n \in Nodes : n \in provider[n] /\ provider[n] \subseteq Nodes
    BY <2>2, Zenon DEF Typed, NodeSets
  <2>4. \A n \in Nodes : /\ agent[n].members \in NodeSets /\ agent[n].kinds \in KindSets
                         /\ agent[n].activated \in Known /\ agent[n].waiting \in Waits
    BY <2>2, AgentFields, Zenon DEF Typed
  <2>5. \A w \in spawning : w.pid \in Spawns /\ (w.members = None \/ w.members \subseteq Nodes)
    <3>1. \A w \in spawning : w.pid \in Spawns /\ w.members \in NodeSets \cup {None}
      BY <2>2, SpawnPID, Zenon DEF Typed
    <3> QED BY <3>1, Zenon DEF NodeSets
  <2>6. \A n \in Nodes :
          /\ agent[n].members \subseteq Nodes /\ agent[n].kinds \subseteq Kinds
          /\ agent[n].activated \subseteq [host : Nodes, id : Ids]
          /\ \A p, q \in agent[n].activated : p.id = q.id => p = q
          /\ agent[n].waiting \in Calls \cup {None}
    BY <2>4, Zenon DEF NodeSets, KindSets, Known, OneEach, PIDs, Waits
  <2>7. \A n \in Nodes : panics[n].provider \in Nat /\ panics[n].agent \in Nat
    BY <2>2 DEF Typed, Counts
  <2> QED BY <2>2, <2>3, <2>5, <2>6, <2>7, ZenonT(40) DEF TypeOK, Typed, PIDs
<1> QED BY <1>1, Invariance, PTL

\* KindsFollowMembers: an agent offers the kinds of its members and its own,
\* whatever order memberJoin and memberLeave come in, and no others unless it has
\* been restarted.
THEOREM OffersWhatMembersHave == Spec => []KindsFollowMembers
<1>1. IInv => KindsFollowMembers
  BY Zenon DEF IInv, KindsInv, KindsFollowMembers
<1> QED BY <1>1, Invariance, PTL

\* UniqueUnlessRaced: without a race, without a panic and without a lost member,
\* the check of activate() makes the ids of actors unique across the whole cluster,
\* whichever members SelectMember selects.
THEOREM UniqueAcrossCluster == Spec => []UniqueUnlessRaced
<1>1. IInv => UniqueUnlessRaced
  BY Zenon DEF IInv, SingleInv, Single, UniqueUnlessRaced
<1> QED BY <1>1, Invariance, PTL

\* Nodes without a panic are up.
LEMMA AllUp ==
  ASSUME \A n \in Nodes : panics[n].agent = 0 /\ panics[n].provider = 0
  PROVE  Up = Nodes
<1>1. \A n \in Nodes : MaxRestarts[n] \in Nat
  BY ClusterAssumption, Zenon
<1>2. ASSUME NEW n \in Nodes PROVE panics[n].provider <= MaxRestarts[n] /\ panics[n].agent <= MaxRestarts[n]
  <2>1. 0 <= MaxRestarts[n]
    BY <1>1
  <2> QED BY <2>1, Zenon
<1> QED BY <1>2, Zenon DEF Up

\* Nothing is in the mail of a quiet cluster.
LEMMA QuietMail ==
  ASSUME Typed, Quiet, Up = Nodes
  PROVE  /\ \A n \in Nodes : \A q : ~Told(n, q)
         /\ \A i : ~Ending(i)
         /\ \A n \in Nodes : \A q \in PIDs : Activation(q) \notin Mail(n)
<1>1. \A n, s \in Nodes : link[n][s] = <<>>
  BY Zenon DEF Typed, LinkOK, Quiet
<1>2. \A n, s \in Nodes : Contents(link[n][s]) = {}
  BY <1>1, NoMessages, Zenon
<1>3. \A n \in Nodes : MailOf(link, n) = {}
  BY <1>2, Zenon DEF MailOf
<1>4. \A n \in Nodes : \A q : ~Told(n, q) /\ ~Deacts(n, q)
  BY <1>3, Zenon DEF Told, ToldBy, Deacts, DeactsBy
<1>5. \A i : ~Ending(i)
  BY <1>4, Zenon DEF Ending, Quiet
<1> QED BY <1>3, <1>4, <1>5, Zenon DEF Mail

\* Agreement: when all is quiet and nothing has been missed, agents know only
\* actors that run, an actor is known on its node, and once all nodes have met
\* all agents know exactly the actors that run, whichever members SelectMember
\* has selected, or none.
THEOREM AgentsAgree == Spec => []Agreement
<1>1. IInv => Agreement
  <2>1. SUFFICES ASSUME IInv, Quiet, Unique, unreachable = {}, race \subseteq {"apart"}
        PROVE  /\ \A n \in Nodes : agent[n].activated \subseteq actors
               /\ \A p \in actors : p \in agent[p.host].activated
               /\ ~Apart => \A n \in Nodes : agent[n].activated = actors
    BY Zenon DEF Agreement
  <2>2. Typed /\ Sound
    BY <2>1, Zenon DEF IInv, MildInv, Mild
  <2>10. Up = Nodes
    BY <2>1, MildCalm, AllUp, Zenon DEF IInv, Mild
  <2>3. /\ \A n \in Nodes : \A q : ~Told(n, q)
        /\ \A i : ~Ending(i)
        /\ \A n \in Nodes : \A q \in PIDs : Activation(q) \notin Mail(n)
    BY <2>1, <2>2, <2>10, QuietMail, Zenon
  <2>4. \A n \in Nodes : agent[n].activated \subseteq PIDs
    BY <2>2, AgentFields, Zenon DEF Typed, Known
  <2>5. \A n \in Nodes : agent[n].activated \subseteq actors
    BY <2>2, <2>3, <2>4, Zenon DEF Sound, Valid, Knows
  <2>6. ASSUME NEW p \in actors PROVE ByAgent(p)
    <3>1. ~ByReply(p)
      <4>1. ASSUME NEW r \in replies PROVE FALSE
        <5>1. r.call # None /\ r.call.node \in Nodes
          BY <2>2, ReplyFields, Zenon
        <5>2. agent[r.call.node].waiting = r.call
          BY <2>2, Zenon DEF Sound, Asking
        <5> QED BY <2>1, <2>10, <5>1, <5>2, Zenon DEF Quiet
      <4> QED BY <4>1, Zenon DEF ByReply
    <3>2. ~BySpawn(p)
      BY <2>1, Zenon DEF Quiet, BySpawn
    <3> QED BY <2>2, <2>3, <3>1, <3>2, Zenon DEF Sound, Announced, Reported
  <2>7. ASSUME NEW p \in actors
        PROVE  \E a \in Nodes : /\ p.host \in agent[a].members
                                /\ \A m \in agent[a].members : p \in agent[m].activated
    <3>1. PICK a \in Nodes : /\ p.host \in agent[a].members
                             /\ \A m \in agent[a].members : Informed(m, p.id)
      BY <2>6, Zenon DEF ByAgent
    <3>2. agent[a].members \subseteq Nodes
      BY <2>2, AgentFields, Zenon DEF Typed, NodeSets
    <3>3. ASSUME NEW m \in agent[a].members PROVE p \in agent[m].activated
      <4>1. PICK q \in PIDs : q.id = p.id /\ Knows(m, q)
        BY <3>1, Zenon DEF Informed
      <4>2. q \in agent[m].activated /\ q \in actors
        BY <2>3, <2>5, <3>2, <4>1, Zenon DEF Knows
      <4> QED BY <2>1, <4>1, <4>2, Zenon DEF Unique
    <3> QED BY <3>1, <3>3, Zenon
  <2>8. \A p \in actors : p \in agent[p.host].activated
    BY <2>7, Zenon
  <2>9. ASSUME ~Apart, NEW n \in Nodes PROVE agent[n].activated = actors
    <3>1. \A p \in actors : p \in agent[n].activated
      BY <2>7, <2>9, Zenon DEF Apart
    <3> QED BY <2>5, <3>1, Zenon
  <2> QED BY <2>5, <2>8, <2>9, Zenon
<1> QED BY <1>1, Invariance, PTL

\* BootstrapJoins: without a lost member or an agent that panicked, a handshake
\* with a bootstrap member has made the two agents members of each other's cluster
\* when all is quiet.
THEOREM HandshakesJoin == Spec => []BootstrapJoins
<1>1. IInv => BootstrapJoins
  <2>1. SUFFICES ASSUME IInv, Quiet, unreachable = {}, \A n \in Nodes : panics[n].agent = 0,
                        NEW n \in Nodes, NEW m \in Bootstrap[n]
        PROVE  n \in agent[m].members /\ m \in agent[n].members
    BY Zenon DEF BootstrapJoins
  <2>2. m \in Nodes
    BY <2>1, ClusterAssumption, Zenon
  <2>7. Up = Nodes
    BY <2>1, AllUp, Zenon DEF IInv, Calm
  <2>3. plink[m][n] = <<>> /\ plink[n][m] = <<>>
    BY <2>1, <2>2, <2>7, Zenon DEF Quiet
  <2>4. \A y : ~Holds(<<>>, y)
    BY DEF Holds
  <2>5. n \in provider[m] /\ m \in provider[n]
    BY <2>1, <2>3, <2>4, Zenon DEF IInv, Joining
  <2>6. ASSUME NEW k \in Nodes PROVE agent[k].members = provider[k]
    <3>1. link[k][Provider] = <<>>
      BY <2>1, <2>7, Zenon DEF IInv, Typed, LinkOK, Quiet
    <3>2. Latest(link[k][Provider], agent[k].members) = provider[k]
      BY <2>1, Zenon DEF IInv, Views
    <3> QED BY <3>1, <3>2, Zenon DEF Latest
  <2> QED BY <2>2, <2>5, <2>6, Zenon
<1> QED BY <1>1, Invariance, PTL

\* Only a list of its provider, or a panic, makes an agent give members up.
LEMMA MembersFollowLists ==
  ASSUME Typed, Views, Next, NEW n \in Nodes
  PROVE  \/ agent'[n].members = agent[n].members \/ AgentReceive(n, Provider)
         \/ panics'[n].agent # panics[n].agent
<1>0. \A k \in Up : k \in Nodes
  BY Zenon DEF Up
<1> DEFINE Panics == panics'[n].agent # panics[n].agent
<1> DEFINE Same == \A k \in Nodes : agent'[k].members = agent[k].members
<1>1. ViewsSame \/ agent' = agent => Same
  BY Zenon DEF ViewsSame
<1>2. ASSUME NEW k \in Nodes, ProviderRuns(k) PROVE Same
  BY <1>1, <1>2, Zenon DEF ProviderRuns, ProviderReceive
<1>3. ASSUME NEW k \in Nodes, AgentRuns(k)
      PROVE  Same \/ AgentReceive(n, Provider) \/ agent'[n] = agent[n] \/ Panics
  <2>1. ASSUME NEW s \in Nodes, AgentReceive(k, s) PROVE Same \/ agent'[n] = agent[n] \/ Panics
    <3>1. CASE NilTaken(k)
      BY <3>1, Zenon DEF NilTaken
    <3> QED BY <1>1, <2>1, <3>1, MailSteps, Zenon
  <2>2. ASSUME AgentReceive(k, Provider), k # n PROVE agent'[n] = agent[n]
    <3>1. PICK ms \in MemberSets(k) : MembersTaken(k, ms)
      BY <2>2, MembersSteps, Zenon
    <3> QED BY <2>2, <3>1, Zenon DEF MembersTaken
  <2>3. ASSUME ActivateReply(k) \/ ActivateTimeout(k) PROVE Same
    BY <1>1, <2>3, ReplySteps, TimeoutSteps, Zenon
  <2> QED BY <1>3, <2>1, <2>2, <2>3, Zenon DEF AgentRuns
<1>4. ASSUME NEW p \in poisoned, ActorStops(p) PROVE Same
  BY <1>1, <1>4, StopsSteps, Zenon
<1>5. ASSUME NEW w \in spawning, SpawnMembers(w) \/ SpawnTimeout(w) \/ SpawnAnnounce(w) PROVE Same
  BY <1>1, <1>5, SpawnMembersSteps, SpawnTimeoutSteps, SpawnAnnounceSteps, Zenon
<1>6. ASSUME NEW k \in Nodes, NEW m \in Nodes, Discover(k, m) \/ Unreachable(k, m) PROVE Same
  BY <1>1, <1>6, Zenon DEF Discover, Unreachable
<1>7. ASSUME NEW c \in Calls, NEW to, Activate(c, to) PROVE Same
  BY <1>1, <1>7, ActivateSteps, Zenon
<1>8. ASSUME NEW k \in Nodes, NEW p, Deactivate(k, p) PROVE Same
  BY <1>1, <1>8, DeactivateSteps, Zenon
<1>9. ASSUME NEW p, Spawn(p) PROVE Same
  BY <1>1, <1>9, SpawnSteps, Zenon
<1> HIDE DEF Same, Panics
<1>10. Same \/ AgentReceive(n, Provider) \/ agent'[n] = agent[n] \/ Panics
  BY <1>0, <1>2, <1>3, <1>4, <1>5, <1>6, <1>7, <1>8, <1>9, ZenonT(40) DEF Next, Runs
<1> QED BY <1>10, Zenon DEF Same, Panics

\* LeaveJustified: an agent gives a member up only if that member was found
\* unreachable, a provider has been restarted or it panics itself.
THEOREM MembersAreKept == Spec => LeaveJustified
<1> DEFINE Leaves == \A n, m \in Nodes :
                       (m \in agent[n].members /\ m \notin agent'[n].members) =>
                         <<n, m>> \in unreachable \/ "restart" \in race \/ panics'[n].agent # panics[n].agent
<1>1. IInv /\ [Next]_vars => [Leaves]_vars
  <2>1. SUFFICES ASSUME IInv, Next, NEW n \in Nodes, NEW m \in Nodes,
                        m \in agent[n].members, m \notin agent'[n].members,
                        panics'[n].agent = panics[n].agent
        PROVE  Justified(n, m)
    BY Zenon DEF Justified
  <2>2. AgentReceive(n, Provider)
    BY <2>1, MembersFollowLists, Zenon DEF IInv
  <2>3. PICK ms \in MemberSets(n) : MembersTaken(n, ms)
    BY <2>1, <2>2, MembersSteps, Zenon DEF IInv
  <2>4. \A k \in agent[n].members : k \notin ms => Justified(n, k)
    BY <2>1, <2>3, MembersKept, Zenon DEF IInv
  <2> QED BY <2>1, <2>3, <2>4, Zenon DEF MembersTaken
<1> QED BY <1>1, Invariance, PTL DEF Spec, LeaveJustified
=============================================================================
