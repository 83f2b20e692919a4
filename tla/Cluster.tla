------------------------------ MODULE Cluster ------------------------------
(***************************************************************************)
(* cluster/: the agents and the self-managed providers of a cluster.        *)
(* A provider keeps the members that it has heard of and tells its agent;   *)
(* the agents activate actors on members that have their kind, and keep     *)
(* each other informed of the actors of the whole cluster.                  *)
(*                                                                          *)
(* A node stands for a member's ID and for its host.  Messages from one     *)
(* actor to another arrive in order (see Streams for what becomes of them   *)
(* when a connection breaks); an agent takes the messages of different      *)
(* senders in any order.                                                    *)
(***************************************************************************)
EXTENDS Integers, Sequences, FiniteSets

CONSTANTS Nodes,
          Kinds, LocalKinds,   \* LocalKinds[n]: the kinds registered on node n
          Ids, KindOf,         \* ids of actors (kind/id) and the kind of each
          Bootstrap,           \* Bootstrap[n]: the bootstrap members of n
          Calls, None,         \* calls of Activate, [num, node, id], and no call
          MayDeactivate,       \* PIDs that Deactivate is called with, once each; None for nil
          Spawns,              \* calls of Cluster.Spawn, [host, id]
          MaxRestarts,         \* MaxRestarts[n]: that option of the agent and the provider of n
          MaxCalls,            \* bound on the calls and events together
          MaxEvents            \* bound on discoveries and RemoteUnreachableEvents

ASSUME ClusterAssumption ==
  /\ LocalKinds \in [Nodes -> SUBSET Kinds] /\ KindOf \in [Ids -> Kinds]
  /\ \A n \in Nodes : Bootstrap[n] \subseteq Nodes \ {n}
  /\ \A c \in Calls : c.node \in Nodes /\ c.id \in Ids
  /\ MayDeactivate \subseteq [host : Nodes, id : Ids] \cup {None}
  /\ MaxRestarts \in [Nodes -> Nat] /\ MaxCalls \in Nat /\ MaxEvents \in Nat
  /\ Spawns \subseteq [host : Nodes, id : Ids]
  /\ None \notin Calls \cup Nodes \cup [host : Nodes, id : Ids] \cup {"nowhere"}
  /\ (\A ms \in SUBSET Nodes : ms # None) /\ {"provider", "nowhere"} \cap Nodes = {}

VARIABLES provider,    \* the members each SelfManaged provider knows
          plink,       \* plink[n][s]: messages of node s to the provider of n
          agent,       \* the Agent of each node
          link,        \* link[n][s]: messages of s to the agent of n
          replies,     \* ActivationResponses under way
          actors,      \* PIDs that are registered on their host
          poisoned,    \* those with a pill in their inbox
          todo,        \* calls and deactivations that have not been made
          spawning,    \* Spawns under way, with the members (None: not known)
          panics,      \* how often the agent and the provider of each node have panicked
          unreachable, \* history: <<n, m>>, n was told that m is unreachable
          events,      \* how many of MaxEvents have happened
          race         \* history: which of the races below have happened

vars == <<provider, plink, agent, link, replies, actors, poisoned, todo,
          spawning, panics, unreachable, events, race>>

Provider == "provider"      \* the sender, for messages of an agent's own provider
Nowhere == "nowhere"        \* a member that SelectMember made up

PID(n, i) == [host |-> n, id |-> i]

Post(l, n, s, msg) == [l EXCEPT ![n][s] = Append(@, msg)]

\* One message from s to each node of a set.
PostAll(l, ns, s, msg) ==
  [n \in Nodes |-> IF n \in ns THEN [l[n] EXCEPT ![s] = Append(@, msg)] ELSE l[n]]

Members(ms) == [type |-> "Members", members |-> ms]
Handshake == [type |-> "Handshake"]
MemberLeave(m) == [type |-> "memberLeave", node |-> m]
Topology(ps) == [type |-> "ActorTopology", pids |-> ps]
Activation(p) == [type |-> "Activation", pids |-> {p}]
Deactivation(p) == [type |-> "Deactivation", pids |-> {p}]
\* An Activation or a Deactivation of a nil PID.
Nil(type) == [type |-> type, pids |-> {}]
IsNil(msg) == msg.type \in {"Activation", "Deactivation"} /\ msg.pids = {}
ActivationRequest(c) == [type |-> "ActivationRequest", call |-> c,
                         pids |-> {PID(c.node, c.id)}]

\* All nodes have been started: NewAgent, and Started at the provider.
Init ==
  /\ provider = [n \in Nodes |-> {n}]
  /\ plink = [n \in Nodes |-> [s \in Nodes |->
               IF n \in Bootstrap[s] THEN <<Handshake>> ELSE <<>>]]
  /\ agent = [n \in Nodes |-> [members |-> {}, kinds |-> LocalKinds[n],
                               activated |-> {}, waiting |-> None]]
  /\ link = [n \in Nodes |-> [s \in Nodes \cup {Provider} |->
               IF s = Provider THEN <<Members({n})>> ELSE <<>>]]
  /\ replies = {} /\ actors = {} /\ poisoned = {}
  /\ todo = [calls |-> Calls, deactivate |-> MayDeactivate, spawns |-> Spawns,
             left |-> MaxCalls]
  /\ spawning = {} /\ panics = [n \in Nodes |-> [provider |-> 0, agent |-> 0]]
  /\ unreachable = {} /\ events = 0 /\ race = {}

-----------------------------------------------------------------------------
(* tryRestart, for the two actors of a node *)

\* The actor can be restarted once more.
Restarts(n, who) == panics[n][who] < MaxRestarts[n]

\* It cannot: cleanup(nil) panics where nothing recovers, and the program ends,
\* with every actor of the node.
ProgramEnds(n) ==
  /\ actors' = {p \in actors : p.host # n}
  /\ poisoned' = {p \in poisoned : p.host # n}
  /\ spawning' = {w \in spawning : w.pid.host # n}

Panic(n, who) == panics' = [panics EXCEPT ![n][who] = @ + 1]

\* The nodes whose program runs.
Up == {n \in Nodes : panics[n].provider <= MaxRestarts[n] /\ panics[n].agent <= MaxRestarts[n]}

-----------------------------------------------------------------------------
(* SelfManaged *)

\* addMembers and removeMember, with sendMembersToAgent.
SetMembers(n, ms) ==
  /\ provider' = [provider EXCEPT ![n] = ms]
  /\ link' = Post(link, n, Provider, Members(ms))

\* Mutant of HandleHandshake: the handshake is not answered.
HandleHandshakeSilent(n, s) ==
  /\ SetMembers(n, provider[n] \cup {s})
  /\ plink' = [plink EXCEPT ![n][s] = Tail(@)]
  /\ UNCHANGED <<race, panics, actors, poisoned, spawning>>

HandleHandshake(n, s) ==
  /\ SetMembers(n, provider[n] \cup {s})
  /\ plink' = Post([plink EXCEPT ![n][s] = Tail(@)], s, n, Members(provider[n] \cup {s}))
  /\ UNCHANGED <<race, panics, actors, poisoned, spawning>>

HandleProviderMembers(n, s) ==
  /\ SetMembers(n, provider[n] \cup Head(plink[n][s]).members)
  /\ plink' = [plink EXCEPT ![n][s] = Tail(@)]
  /\ UNCHANGED <<race, panics, actors, poisoned, spawning>>

\* GetByHost finds no member for a host that is gone already; removeMember then
\* panics, and the provider is restarted with no members but itself.
HandleMemberLeave(n, s) ==
  LET m == Head(plink[n][s]).node
      taken == [plink EXCEPT ![n][s] = Tail(@)]
  IN
  \/ /\ m \in provider[n]
     /\ SetMembers(n, provider[n] \ {m})
     /\ plink' = taken
     /\ UNCHANGED <<race, panics, actors, poisoned, spawning>>
  \/ /\ m \notin provider[n] /\ Restarts(n, Provider)
     /\ Panic(n, Provider)
     /\ SetMembers(n, {n})
     /\ plink' = PostAll(taken, Bootstrap[n], n, Handshake)
     /\ race' = race \cup {"restart"}
     /\ UNCHANGED <<actors, poisoned, spawning>>
  \/ /\ m \notin provider[n] /\ ~Restarts(n, Provider)
     /\ Panic(n, Provider) /\ ProgramEnds(n)
     /\ plink' = taken
     /\ race' = race \cup {"restart"}
     /\ UNCHANGED <<provider, link>>

ProviderReceive(n, s) ==
  /\ plink[n][s] # <<>>
  /\ LET type == Head(plink[n][s]).type IN
     \/ type = "Handshake" /\ HandleHandshake(n, s)
     \/ type = "Members" /\ HandleProviderMembers(n, s)
     \/ type = "memberLeave" /\ HandleMemberLeave(n, s)
  /\ UNCHANGED <<agent, replies, todo, unreachable, events>>

\* startAutoDiscovery: zeroconf reports another node.
Discover(n, m) ==
  /\ n # m /\ events < MaxEvents /\ events' = events + 1
  /\ todo.left > 0 /\ todo' = [todo EXCEPT !.left = @ - 1]
  /\ plink' = Post(plink, m, n, Handshake)
  /\ UNCHANGED <<panics, provider, agent, link, replies, actors, poisoned,
                 unreachable, race, spawning>>

\* handleEventStream: a stream from n to m has ended, with or without the
\* messages that are on their way.
Unreachable(n, m) ==
  /\ n # m /\ events < MaxEvents /\ events' = events + 1
  /\ todo.left > 0 /\ todo' = [todo EXCEPT !.left = @ - 1]
  /\ \E lose \in BOOLEAN :
       /\ plink' = Post(IF lose THEN [plink EXCEPT ![m][n] = <<>>] ELSE plink,
                        n, n, MemberLeave(m))
       /\ link' = IF lose THEN [link EXCEPT ![m][n] = <<>>] ELSE link
  /\ unreachable' = unreachable \cup {<<n, m>>}
  /\ UNCHANGED <<panics, provider, agent, replies, actors, poisoned, spawning, race>>

-----------------------------------------------------------------------------
(* Agent *)

KindsOf(ms) == UNION {LocalKinds[m] : m \in ms}

\* addActivated, for a set of PIDs: the first PID with an id is kept.
AddActivated(known, ps) ==
  known \cup {p \in ps : \A q \in known : q.id # p.id}

\* removeActivated goes by the id.
RemoveActivated(known, p) == {q \in known : q.id # p.id}

\* Whether an Activation is waiting for some agent, or about to be sent.
ActivationPending ==
  spawning # {} \/ \E n \in Nodes : \E s \in DOMAIN link[n] :
    \E k \in DOMAIN link[n][s] : link[n][s][k].type = "Activation"

Joined(n, ms) == ms \ agent[n].members

\* Mutant of Left: everybody but the members that joined.
LeftSwapped(n, ms) == agent[n].members \ Joined(n, ms)

Left(n, ms) == agent[n].members \ ms

\* Mutant of KindsAfter: the kinds of members that left are kept.
KindsAfterKept(n, ms) == agent[n].kinds \cup KindsOf(Joined(n, ms))

\* memberJoin adds the kinds of the new member, memberLeave rebuilds them.
KindsAfter(n, ms) ==
  IF Left(n, ms) = {} THEN agent[n].kinds \cup KindsOf(Joined(n, ms)) ELSE KindsOf(ms)

\* Mutant of SendTopology: the new members are not sent our actors.
SendTopologyNot(n, to, l) == l

\* memberJoin sends our actors, if any, to the member.
SendTopology(n, to, l) ==
  IF agent[n].activated = {} THEN l
  ELSE PostAll(l, to, n, Topology(agent[n].activated))

\* memberJoin for every member that is new, then memberLeave for those that
\* are gone.  Race "join": an Activation that was sent before has not been
\* handled by all agents, and is not in the topology.
HandleMembers(n, ms, taken) ==
  LET joined == Joined(n, ms)
      left == Left(n, ms)
  IN
  /\ agent' = [agent EXCEPT ![n].members = (@ \cup joined) \ left,
                            ![n].kinds = KindsAfter(n, ms),
                            ![n].activated = {p \in @ : p.host \notin left}]
  /\ link' = SendTopology(n, joined, taken)
  /\ race' = race \cup (IF joined # {} /\ ActivationPending THEN {"join"} ELSE {})

\* handleActorTopology and handleActivation.
HandleActivation(n, ps, taken) ==
  /\ agent' = [agent EXCEPT ![n].activated = AddActivated(@, ps)]
  /\ link' = taken

\* Poison looks the id up in the local registry, whatever the host of the PID.
HandleDeactivation(n, p, taken) ==
  /\ agent' = [agent EXCEPT ![n].activated = RemoveActivated(@, p)]
  /\ poisoned' = poisoned \cup (actors \cap {PID(n, p.id)})
  /\ link' = taken

\* The spawn of an id that is registered already is refused, but reported as
\* a success all the same.  A response that comes late is a dead letter.
HandleActivationRequest(n, c, taken) ==
  LET ok == KindOf[c.id] \in LocalKinds[n] IN
  /\ actors' = IF ok THEN actors \cup {PID(n, c.id)} ELSE actors
  /\ replies' = IF agent[c.node].waiting = c
                THEN replies \cup {[call |-> c, success |-> ok, pid |-> PID(n, c.id)]}
                ELSE replies
  /\ link' = taken

\* addActivated and removeActivated take the ID of a nil PID: the agent panics,
\* and is restarted without members and activations.  kinds is a map that all
\* its incarnations share.
HandleNil(n, taken) ==
  /\ Panic(n, "agent") /\ race' = race \cup {"panic"}
  /\ link' = taken
  /\ \/ /\ Restarts(n, "agent")
        /\ agent' = [agent EXCEPT ![n].members = {}, ![n].activated = {}]
        /\ UNCHANGED <<actors, poisoned, spawning>>
     \/ /\ ~Restarts(n, "agent")
        /\ ProgramEnds(n)
        /\ UNCHANGED agent

AgentReceive(n, s) ==
  /\ agent[n].waiting = None /\ link[n][s] # <<>>
  /\ LET msg == Head(link[n][s])
         taken == [link EXCEPT ![n][s] = Tail(@)]
     IN
     \/ /\ msg.type = "Members"
        /\ HandleMembers(n, msg.members, taken)
        /\ UNCHANGED <<replies, actors, poisoned, spawning, panics>>
     \/ /\ msg.type \in {"ActorTopology", "Activation"} /\ ~IsNil(msg)
        /\ HandleActivation(n, msg.pids, taken)
        /\ UNCHANGED <<replies, actors, poisoned, spawning, panics, race>>
     \/ /\ msg.type = "Deactivation"
        /\ \E p \in msg.pids : HandleDeactivation(n, p, taken)
        /\ UNCHANGED <<replies, actors, spawning, panics, race>>
     \/ /\ IsNil(msg)
        /\ HandleNil(n, taken)
        /\ UNCHANGED replies
     \/ /\ msg.type = "ActivationRequest"
        /\ HandleActivationRequest(n, msg.call, taken)
        /\ UNCHANGED <<agent, poisoned, spawning, panics, race>>
  /\ UNCHANGED <<provider, plink, todo, unreachable, events>>

Bcast(n, msg) == PostAll(link, agent[n].members, n, msg)

Apart == \E n \in Nodes : agent[n].members # Nodes

\* Something about the id is under way.
Unsettled(i) ==
  \/ \E n \in Nodes : agent[n].waiting # None /\ agent[n].waiting.id = i
  \/ \E p \in poisoned : p.id = i
  \/ \E w \in spawning : w.pid.id = i
  \/ \E n \in Nodes : \E s \in Nodes : \E k \in DOMAIN link[n][s] :
       \E p \in link[n][s][k].pids : p.id = i

\* Mutant of CanActivate: any id can be activated.
CanActivateAny(n, i) == TRUE

\* The check at the beginning of activate().
CanActivate(n, i) == \A p \in agent[n].activated : p.id # i

FilterByKind(n, kind) == {m \in agent[n].members : kind \in LocalKinds[m]}

\* activate(): it fails if the id is known, if no member has the kind or if
\* SelectMember returns nil, and to is None; otherwise to is what SelectMember
\* returned, which need not be one of the members it was given.  The actor is
\* spawned here, or a request is sent, which nobody gets when there is no such
\* node.  A kind that is not registered makes a response without PID, and only
\* a response of another node is looked at before its PID is broadcast.
\* Races "activate" and "apart": an earlier activation or deactivation may not
\* be known here; "stranger": the node that is chosen will not be told.
Activate(c, to) ==
  LET n == c.node
      goes == CanActivate(n, c.id) /\ FilterByKind(n, KindOf[c.id]) # {}
      has == KindOf[c.id] \in LocalKinds[n]
  IN
  /\ c \in todo.calls /\ todo.left > 0
  /\ todo' = [todo EXCEPT !.calls = @ \ {c}, !.left = @ - 1]
  /\ agent[n].waiting = None
  /\ race' = race \cup (IF Unsettled(c.id) THEN {"activate"} ELSE {})
                   \cup (IF Apart THEN {"apart"} ELSE {})
                   \cup (IF to # None /\ to \notin agent[n].members THEN {"stranger"} ELSE {})
  /\ \/ /\ to = None
        /\ UNCHANGED <<agent, link, actors>>
     \/ /\ goes /\ to = n /\ has
        /\ actors' = actors \cup {PID(n, c.id)}
        /\ link' = Bcast(n, Activation(PID(n, c.id)))
        /\ UNCHANGED agent
     \/ /\ goes /\ to = n /\ ~has
        /\ link' = Bcast(n, Nil("Activation"))
        /\ UNCHANGED <<agent, actors>>
     \/ /\ goes /\ to \in Nodes \ {n}
        /\ link' = Post(link, to, n, ActivationRequest(c))
        /\ agent' = [agent EXCEPT ![n].waiting = c]
        /\ UNCHANGED actors
     \/ /\ goes /\ to = Nowhere
        /\ agent' = [agent EXCEPT ![n].waiting = c]
        /\ UNCHANGED <<link, actors>>
  /\ UNCHANGED <<provider, plink, replies, poisoned, panics, unreachable, events, spawning>>

\* The rest of activate(), when the response has come.
ActivateReply(n) ==
  /\ \E r \in replies :
       /\ r.call = agent[n].waiting
       /\ link' = IF r.success THEN Bcast(n, Activation(r.pid)) ELSE link
       /\ replies' = replies \ {r}
  /\ agent' = [agent EXCEPT ![n].waiting = None]
  /\ UNCHANGED <<panics, provider, plink, actors, poisoned, todo, unreachable, events, race, spawning>>

\* Mutant of ActivateTimeout: the response is awaited without a deadline.
ActivateTimeoutNever(n) == FALSE

\* The response does not come in time; the request may still be handled.
ActivateTimeout(n) ==
  /\ agent[n].waiting # None
  /\ agent' = [agent EXCEPT ![n].waiting = None]
  /\ replies' = {r \in replies : r.call # agent[n].waiting}
  /\ race' = race \cup {"timeout"}
  /\ UNCHANGED <<panics, provider, plink, link, actors, poisoned, todo, unreachable, events, spawning>>

\* Deactivate, with a PID that the agent need not know, or nil.  Race
\* "deactivate": the Deactivation may overtake an Activation.
Deactivate(n, p) ==
  /\ p \in todo.deactivate
  /\ agent[n].waiting = None
  /\ todo.left > 0 /\ todo' = [todo EXCEPT !.deactivate = @ \ {p}, !.left = @ - 1]
  /\ \/ /\ p # None
        /\ link' = Bcast(n, Deactivation(p))
        /\ race' = race \cup (IF Apart \/ Unsettled(p.id) THEN {"deactivate"} ELSE {})
     \/ /\ p = None
        /\ link' = Bcast(n, Nil("Deactivation"))
        /\ UNCHANGED race
  /\ UNCHANGED <<provider, plink, agent, replies, actors, poisoned, panics,
                 unreachable, events, spawning>>

\* Cluster.Spawn starts the actor on its node, whether or not the id is in use
\* elsewhere, and asks the agent for the members (race "activate" as above).
Spawn(p) ==
  /\ p \in todo.spawns /\ todo.left > 0
  /\ todo' = [todo EXCEPT !.spawns = @ \ {p}, !.left = @ - 1]
  /\ actors' = actors \cup {p}
  /\ spawning' = spawning \cup {[pid |-> p, members |-> None]}
  /\ race' = race \cup (IF Unsettled(p.id) \/ \E q \in actors : q.id = p.id
                       THEN {"activate"} ELSE {})
  /\ UNCHANGED <<panics, provider, plink, agent, link, replies, poisoned, unreachable, events>>

\* The agent answers; it has at least itself as a member unless it has been
\* restarted, since Start returns after the provider has sent it the first list.
SpawnMembers(w) ==
  /\ w.members = None /\ agent[w.pid.host].waiting = None
  /\ agent[w.pid.host].members # {} \/ panics[w.pid.host].agent > 0
  /\ spawning' = (spawning \ {w}) \cup {[w EXCEPT !.members = agent[w.pid.host].members]}
  /\ UNCHANGED <<panics, provider, plink, agent, link, replies, actors, poisoned, todo,
                 unreachable, events, race>>

\* It does not answer in time: the empty list, and nobody is told.
SpawnTimeout(w) ==
  /\ w.members = None
  /\ spawning' = (spawning \ {w}) \cup {[w EXCEPT !.members = {}]}
  /\ race' = race \cup {"timeout"}
  /\ UNCHANGED <<panics, provider, plink, agent, link, replies, actors, poisoned, todo,
                 unreachable, events>>

\* An Activation to each member that the agent had then.
SpawnAnnounce(w) ==
  /\ w.members # None
  /\ link' = PostAll(link, w.members, w.pid.host, Activation(w.pid))
  /\ spawning' = spawning \ {w}
  /\ UNCHANGED <<panics, provider, plink, agent, replies, actors, poisoned, todo,
                 unreachable, events, race>>

\* The actor handles its pill (see Process).
ActorStops(p) ==
  /\ p \in poisoned
  /\ poisoned' = poisoned \ {p} /\ actors' = actors \ {p}
  /\ UNCHANGED <<panics, provider, plink, agent, link, replies, todo, unreachable,
                 events, race, spawning>>

-----------------------------------------------------------------------------
\* The goroutines of a node.
ProviderRuns(n) == \E s \in Nodes : ProviderReceive(n, s)
AgentRuns(n) ==
  \/ \E s \in Nodes \cup {Provider} : AgentReceive(n, s)
  \/ ActivateReply(n) \/ ActivateTimeout(n)

\* What goes on by itself, when nobody calls and the network reports nothing.
Runs ==
  \/ \E n \in Up : ProviderRuns(n) \/ AgentRuns(n)
  \/ \E p \in poisoned : ActorStops(p)
  \/ \E w \in spawning : SpawnMembers(w) \/ SpawnTimeout(w) \/ SpawnAnnounce(w)

Next ==
  \/ Runs
  \/ \E n \in Up, m \in Nodes : Discover(n, m) \/ Unreachable(n, m)
  \/ \E c \in Calls : c.node \in Up /\ \E to \in Nodes \cup {Nowhere, None} : Activate(c, to)
  \/ \E n \in Up : \E p \in MayDeactivate : Deactivate(n, p)
  \/ \E p \in Spawns : p.host \in Up /\ Spawn(p)

Spec == Init /\ [][Next]_vars

\* Somebody who can go on does: inboxes are emptied, timers fire and Spawn is
\* not abandoned.
FairSpec == Spec /\ WF_vars(Runs)

-----------------------------------------------------------------------------
(* Properties *)

\* The state of providers and agents; a provider always has itself as a member,
\* and an agent one PID for an id.
TypeOK ==
  /\ \A n \in Nodes : n \in provider[n] /\ provider[n] \subseteq Nodes
  /\ \A n \in Nodes :
       /\ agent[n].members \subseteq Nodes /\ agent[n].kinds \subseteq Kinds
       /\ agent[n].activated \subseteq [host : Nodes, id : Ids]
       /\ \A p, q \in agent[n].activated : p.id = q.id => p = q
       /\ agent[n].waiting \in Calls \cup {None}
  /\ actors \subseteq [host : Nodes, id : Ids] /\ poisoned \subseteq actors
  /\ \A n \in Nodes : panics[n].provider \in Nat /\ panics[n].agent \in Nat
  /\ \A w \in spawning : w.pid \in Spawns /\ (w.members = None \/ w.members \subseteq Nodes)

\* The kinds that an agent offers include those of its members and its own,
\* through joins and leaves in every order, memberJoin adding to them and
\* memberLeave rebuilding them; and they are no others unless the agent has been
\* restarted, which forgets the members and not their kinds.
KindsFollowMembers ==
  \A n \in Nodes :
    /\ KindsOf(agent[n].members \cup {n}) \subseteq agent[n].kinds
    /\ panics[n].agent = 0 => agent[n].kinds = KindsOf(agent[n].members \cup {n})

\* "Make sure actors are unique across the whole cluster."
Unique == \A p, q \in actors : p.id = q.id => p = q

\* The check of activate() does make them unique, with Spawn and Deactivate
\* between, as long as every call starts when all agents know each other and
\* nothing about its id is under way, no request times out, no member joins
\* while an Activation is on its way (it would never hear of that actor), no
\* agent has panicked and no member is lost.  Any SelectMember will do, as long
\* as it selects members.
UniqueUnlessRaced == (race = {} /\ unreachable = {}) => Unique

Quiet ==
  /\ \A n \in Up : \A m \in Nodes : plink[n][m] = <<>>
  /\ \A n \in Up : \A s \in DOMAIN link[n] : link[n][s] = <<>>
  /\ \A n \in Up : agent[n].waiting = None
  /\ poisoned = {} /\ spawning = {}

\* All comes to rest, whatever is called, lost or restarted: agents that wait for each
\* other's answers go on when the requests time out, and no two agents or
\* providers keep answering each other.
ComesToRest == <>[]Quiet

\* When all is quiet, an agent knows of no actor that does not run, and every
\* actor is known on its own node; once all nodes have met, all agents know
\* exactly the actors that run, also those started before they met.  Unless an
\* Activation was under way when a member joined, a Deactivation when its actor
\* was not known everywhere, a request timed out, an id was activated twice or on
\* a node that is no member, an agent panicked or a member was lost.
Agreement ==
  (Quiet /\ Unique /\ unreachable = {} /\ race \subseteq {"apart"}) =>
    /\ \A n \in Nodes : agent[n].activated \subseteq actors
    /\ \A p \in actors : p \in agent[p.host].activated
    /\ ~Apart => \A n \in Nodes : agent[n].activated = actors

\* An agent gives a member up only after an event that says that this member
\* is unreachable, after a provider has been restarted, or when it is restarted
\* itself.
LeaveJustified ==
  [][\A n, m \in Nodes :
       (m \in agent[n].members /\ m \notin agent'[n].members) =>
         <<n, m>> \in unreachable \/ "restart" \in race \/ panics'[n].agent # panics[n].agent]_vars

\* When all is quiet, a handshake with a bootstrap member has made the two
\* agents members of each other's cluster, as long as no member was found
\* unreachable and no agent was restarted.
BootstrapJoins ==
  (Quiet /\ unreachable = {} /\ \A n \in Nodes : panics[n].agent = 0) =>
    \A n \in Nodes : \A m \in Bootstrap[n] :
      n \in agent[m].members /\ m \in agent[n].members
=============================================================================
