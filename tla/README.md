# TLA+ models of hollywood

Hollywood is an actor engine for Go: actors with mailboxes on one machine
(`actor/`, `ringbuffer/`), messages between machines (`remote/`) and a cluster
that starts actors on any of its members (`cluster/`). This directory holds
TLA+ models of its concurrent parts and of its wire format, the TLC
configurations that check them on small instances, and TLAPS proofs about eight
of them (ring buffer, inbox, process, supervision, requests, the life of a remote,
streams, cluster). Paths such as
`actor/inbox.go:81` are relative to `src/`. `PROJECT.json` maps every
definition to the lines it models.

Contents: [inventory](#inventory) ·
[models](#the-models) · [runs](#runs-and-bounds) · [fairness](#fairness) ·
[proofs](#proofs) · [findings](#where-code-and-documentation-disagree) ·
[not modelled](#not-modelled) · [plan](#plan)

To repeat the checks: `tlc -workers 2 -config MCInbox.cfg MCInbox` (the
other pairs are under "runs" in `PROJECT.json`) and `tlapm InboxProof.tla`.

## Inventory

| Part | State | Operations | Concurrency |
|---|---|---|---|
| Ring buffer, `ringbuffer/` | items, head, tail, mod, len | Push, PushFront, Pop, PopN, Clear | a mutex around each operation |
| Inbox, `actor/inbox.go` | ring buffer, procStatus, proc | Send, SendPriority, Start, Stop, Clear; schedule, process, run | senders, the owner and the goroutine of process(), by atomic operations |
| Process, `actor/process.go` | mbuffer, restarts, context | Start, Invoke, tryRestart, cleanup | the spawner and successive goroutines of the inbox, without a lock |
| Engine and registry, `actor/engine.go`, `registry.go` | id → process | Spawn, Send, Stop, Poison, ClearMailbox, Request | any goroutine; each look at the registry is a critical section of its own |
| Response, `actor/response.go` | an id, a channel of capacity one | Request, Respond, Send, Result | the replier against the timeout; ids are random and are reused |
| Event stream, `actor/event_stream.go` | subscribers | Subscribe, Unsubscribe, BroadcastEvent; SendRepeat | an actor, fed by everybody's dead letters |
| Context and children, `actor/context.go` | children, parent | SpawnChild, Respond, Forward | the actor and the cleanup of its children |
| Remote, `remote/remote.go` | state, engine, router PID, stopCh | Start, Stop, Send | calls from any goroutine, two goroutines of Start; only `state` is atomic |
| Streams, `remote/` | router map, writer (inbox, connection), envelope tables | Send; deliverStream, init, Invoke, Shutdown; Receive of the reader | router, writers, the goroutine that watches a connection, the network |
| Generated codec, `*_vtproto.pb.go`, `remote/protoreg.go`, `serialize.go` | the bytes, the target, the registered instances | MarshalVT, SizeVT, UnmarshalVT, CloneVT, EqualVT; Serialize and Deserialize of `VTProtoSerializer`, which is exported and called by no code of the repository | sequential; the instances are shared by all messages |
| Cluster, `cluster/cluster.go` | – | Activate, Deactivate, Spawn, Members | callers from any goroutine |
| Agent, `cluster/agent.go` | members, kinds, activated | activation, deactivation, members, topology | one actor on each node |
| Self-managed provider, `cluster/selfmanaged.go` | members | handshake, members, memberLeave, discovery | one actor on each node, and its child on the event stream |

How the parts interact: `Engine.Send` finds a process in the registry and
pushes into its inbox; the inbox calls `Invoke` of the process with batches; the
process calls the actor. A PID with another address goes to `Remote.Send`,
which sends to the router, which keeps a stream writer for each address; the
writer is itself a registered process with an inbox. A closed connection
produces a `RemoteUnreachableEvent`, on which the router drops its entry and the
provider its member. Agents talk to each other through all of that.

What is hard here, with the lines, is under "hazards" in `PROJECT.json`. In short:
the wake-up protocol of the inbox; panics and restarts with a batch half
done; pills that meet restarts or each other; the registry entry that is looked up and
used after it has changed; parents and children that are stopped at the same
time; late and repeated replies; events that produce events; writers that
succeed each other under one PID; four unrolled transcriptions of one wire
format; and cluster state that every agent learns at another time.

## The models

    Deque  <-- implemented by --  RingBuffer
                                       | the queue of an inbox is a Deque
    Mailbox <-- implemented by -- Inbox
                                       | the inboxes of writers are Mailboxes
                                  Process      Streams (EXTENDS Envelope)
                                     |             | ordered links that may lose their tail
                                  Supervision  Cluster

    Requests, Events: one engine service each, the mailboxes as queues
    Remote: before and after Streams        Wire <- EXTENDS - Codec

The first two refinements are proved for all parameters. `Inbox` uses the ring buffer
as a `Deque`. `Process` and `Supervision` keep the queue and the status of an inbox
themselves, with coarser steps than `Inbox` and with the `Stop` and the second
`Start` of a restart; that these are the steps that `Mailbox` allows is not checked
as a refinement (see the plan). `Streams` has writers whose inbox is opened and
closed once.

### RingBuffer, Deque

Variables are the fields of `buffer[T]` and `len`; `out` is what the last operation
returned. Each method holds the mutex from beginning to end and is one action.
`Len` reads `len` and changes nothing. `Deque` is a sequence; the mapping reads
the `len` slots after `head`.

### Inbox, Mailbox

One action for each atomic operation: the push, the compare-and-swap of
`schedule`, the steps of `Start` (compare-and-swap, assignment of `proc`,
swap, schedule), the load, `PopN` and invocation of `run`, and the
compare-and-swap, `Len` and re-schedule of `process`. `call[m]`, `start[c]` and
`go[w]` are program counters. The invocation hands over one message of the batch in each
step. `runtime.Gosched` after `Throughput()` batches changes no state and is
left out.

Start is called by the spawner, and again by every restart of the owner, from inside
the `Invoke` that a goroutine of the inbox is executing (`InvokeStart`; the last line of
`process.Start`). Usually that second call finds the inbox running and does nothing.
After a `cleanup` inside the restart it finds the inbox stopped and opens it again,
while the goroutine it runs on is still in `run()`: then there are two consumers.
`opened` counts the calls that found the inbox stopped. Stop is called only once the
first Start has made the inbox idle, as in the code that owns an inbox.

`Mailbox` says that a consumer takes batches in queue order and is handed all of one
before it takes the next, that there is one consumer for each time the mailbox was
opened, that nothing is taken before the first opening, and nothing between a
closing and the next opening.

### Process

One actor under one PID. `Start`, `Invoke`, `tryRestart` and `cleanup` call each
other on the goroutine of the spawner or of the inbox, recursively after a
panic. The only caller with work left when such a call returns is `Start`, so a
stack is the frame a goroutine executes (`th[t]`) and the number of
`Start`s below it. `queue` and `procStatus` are the inbox. Senders take two
steps, the look at the registry and the push; `Stop` and `Poison` first check the
registry and then send the pill. `log` and `order` are histories: the messages
taken by `Invoke`, and the accepted messages in queue order. Which
messages panic, and with which kind of error, is a constant; panics in
`Initialized` and `Started` are a choice of the model. The actor has no parent
and no children.

### Supervision

A tree of actors, several incarnations of each id, and the registry. It keeps
of `Process` what matters between processes: a process is one goroutine, its
batch is the whole inbox, panics come from messages and stay below the maximum of
restarts. `SpawnChild` registers the child, runs the child's Start (a
process of its own, the parent waits in `record`) and then records it;
`cleanup` is split at every access that others can see: it leaves the parent's
table, reads its children, and for each of them looks into the registry twice,
pushes a pill and waits for its context. Clients send Stop, Poison, a message on which
the actor spawns its children, or one on which it panics.

### Requests

`Request` draws an id from a small set, so that ids collide and are used again;
it registers the response (or is refused, and goes on), sends, and `Result` takes
a reply or the timeout and removes the id. The server replies as often as it
likes and may be stopped. Calls to a nil PID or to another address are the other outcomes
of `Engine.send`.

### Events

The event stream with its table keyed by *pointer* (`Handles`; `Of` says which
actor a pointer names), the loop over subscribers as steps, dead letters as
events that go back into the stream's mailbox, and a `SendRepeater`. `call` and
`sent` are histories: what had been called when an event was broadcast.

### Envelope, Streams

`Envelope` is the wire format: tables of types, targets and senders with an index
for each message, written by `streamWriter.Invoke` and read by
`streamReader.Receive`. `Streams` is the path to one remote address: the router
with its map, its goroutine as a program counter (the spawn and dial of a writer
happen on it), the writers created so far, the registry's entry for the
PID they share, and the steps of a writer's `Shutdown`. Popping, packing and
writing a batch is one action; the connection may fail before or in it, and a
message that is no `proto.Message` (`Foreign`) fails the assertion in `TypeName`, which
nobody recovers. A message that the reader cannot deserialise ends the stream and
not the connection (`"ended"`): the writer goes on until a write returns `io.EOF`. The
network is external: dials, writes and reads fail, a connection ends with or
without what it carries, up to `MaxFaults` times. The retries of a dial
are one outcome, because the router does nothing else meanwhile.

### Remote

`Start`, `Stop` and `Send` of one `Remote`, one action for each access of a field
(`state` is loaded and stored, not compared and swapped). The goroutine that serves
and the one at `<-stopCh` are `serve` and `waiter`. A WaitGroup is named by the
Start that made it. A Start that cannot listen returns; one that cannot register with
the mux returns with its listener still bound. `raced` is a history: two calls of Start
and Stop overlapped.

### Wire, Codec

The generated code repeats the same statements for each of nineteen messages.
`Wire` has them once, over four tables for each message: the tag bytes its
`MarshalToSizedBufferVT` writes, the field numbers its `UnmarshalVT` accepts, the fields
its `EqualVT` compares and those its `CloneVT` copies. Each table is read off its own
function, so that the checks compare four transcriptions and not one with itself. Bytes
are numbers. Words are scaled (24 bits for `int` and `uint64`, 12 for `int32`), so that
lengths come near the limit of an `int` and the tests for negative lengths and positions
are met. `Codec` is a connection on which messages that are whole, truncated or damaged
are decoded one field in a step: into a new Envelope (`Recv`), or into the instance that
`RegisterType` left in the registry (`Deserialize` of `VTProtoSerializer`). The
repository's own payloads go through `ProtoSerializer` instead
(`remote/stream_writer.go:44`, `stream_reader.go:21`), so the second is behaviour that a
user of the package meets, and no part of it does.

### Cluster

A node is a member ID and its host. `provider` and `agent` are the actors of a
node, `plink` and `link` the messages to them, one queue for each sender.
Every branch of `Agent.Receive` that changes state is a disjunct of
`AgentReceive`. `Activate` is the first half of `activate()`, up to the request
to another agent; during the request the agent handles nothing (`waiting`), and
`ActivateReply` or `ActivateTimeout` is the second half. `SelectMember` is a function
of the caller: it may return any member, a node that is no member or has not the kind,
a member that does not exist (`Nowhere`) or nil, and `to` ranges over all of these.
A local activation of a kind that the node does not have gives a response without PID,
which `activate()` broadcasts; `Deactivate` may be called with nil. Every agent that
takes the `ID` of a nil PID panics (`HandleNil`) and is restarted without members and
activations, but with the kinds, a map all its incarnations share. After `MaxRestarts`
the next panic of an agent or a provider ends the program of its node (`ProgramEnds`,
`Up`). `Spawn` starts
its actor, asks the agent for the members (`SpawnMembers`, or `SpawnTimeout` when
the agent does not answer in time) and announces the actor to those. A node whose
peer is unreachable may lose the messages on their way. `race` and `unreachable`
are histories that no action reads; the properties use them to say
under which circumstances they hold. `race` names what has happened: a call that met
something unsettled about its id (`"activate"`, `"deactivate"`), that came before all
agents knew each other (`"apart"`) or chose a node that is no member (`"stranger"`), a
member that joined while an Activation was under way (`"join"`), a `"timeout"`, the
`"panic"` of an agent and the `"restart"` of a provider.

## Runs and bounds

Passing runs (2 workers; `inbox` and `cluster` take about three minutes, the others less):

| Run | Instance | Distinct states | What it shows |
|---|---|---|---|
| `ringbuffer` | initial size 1, two values, at most 5 items, batches of at most 3 | 149,101 | `ImplementsDeque` |
| `inbox` | 3 messages (1 priority), 3 goroutines, 2 calls of Start, batches of 2 | 537,200 | `RunnersBounded`, `ImplementsMailbox` (nothing is taken before Start, or after Stop until it is started again, order is kept); under fairness `EventuallyTaken` |
| `process_safety` | 3 messages (2 panic, 1 of them with an InternalError, 1 has priority), a Poison, a Stop, ClearMailbox, panics in Initialized and Started, 1 restart, batches of 3, 4 goroutines up to symmetry | 364,368 | `Conservation`, `OneAtATime`, `OnlyWhileStarted`, `PoisonDrains`, `DoneMeansStopped` |
| `process_liveness` | the same without panics in Initialized and Started and without ClearMailbox, no symmetry | 109,832 | `Delivery`, `SomePillCompletes` |
| `supervision` | a chain of 3 actors, 2 clients, 2 incarnations of each id | 146,016 | `LiveIsRegistered`, `ChildRecorded`, `ChildrenFirst`; under fairness `WaitEnds` |
| `requests` | 2 requests, 2 ids, up to 3 replies | 30,506 | `PendingRegistered`, `Attribution`, `ReplyNeverBlocks` |
| `events` | 2 subscribers, one of them the target of a repeater, 2 events, a mailbox of 3 | 127,582 | `EventsInOrder`; under fairness `Quiesces`, `Notified` |
| `streams` | 4 messages (1 without sender, 1 that cannot be serialised, 1 that is no `proto.Message`), 2 faults | 527,110 | `InOrderOnce`, `Attribution`, `RemovesItself`; under fairness `Accounted`, `EntryFollowsWriterUnlessRefused` |
| `remote` | 2 Starts, 2 Stops, 2 messages | 105,036 | `StartedOnce`, `StopCloses`, `SendsRouted`; under fairness `StopReturns` |
| `codec` | 3 messages of one type in a row, for all 19 types, 4 samples each, whole or without the last 1 or 3 bytes; for Envelopes also 18 damaged inputs | 26,469 | `MergesInto`, `Reencodes`, `EqualIsSameBytes`, `Advances` |
| `cluster` | 2 nodes with different kinds, 3 calls and events among 3 activations of 2 ids, a Spawn, deactivations of a PID and of nil, and 1 discovery or unreachable member; 1 restart on one node, none on the other | 1,294,042 | `KindsFollowMembers`, `UniqueUnlessRaced`, `Agreement`, `BootstrapJoins`, `LeaveJustified`; under fairness `ComesToRest` |

Every module with state also has a type invariant `TypeOK`. It is proved where there
are proofs, and TLC has found it to hold on
the instances above for `Events` and `Codec`. `Window` and `LiveSlots` of the ring buffer
and `NoLostWakeup`, `ProcBeforeRun` and `StopIsFinal` of the inbox are proved too,
and have no run.

Why the bounds are enough for the cases that matter:

* ring buffer: from one slot, five items force growth at sizes 1, 2 and 4, from
  both ends, and every wrap-around in between;
* inbox: a goroutine may still be between its transition to idle and its exit
  while the next one runs and a third is scheduled; three messages with
  batches of two give a full batch, a partial one and an empty one; the second
  Start comes from a restart, at any time, before or after a Stop;
* process: one restart is enough for a restart inside the `Invoke` of a restart
  to exceed the maximum, and a batch of three holds a message, a pill and a
  message behind it; with two pills, pills meet each other and a restart;
* streams: two faults give a failed connection and a second one during the
  replacement of its writer, and four messages up to four writers;
* supervision: a chain of three has a process that is both parent and child;
  two clients and the parent's own pill give a child two pills and a panic, or a
  child that is respawned under its old id while its predecessor still ends. The
  invariants were also checked with three clients up to symmetry (2,632,585 states);
* requests: the id of a finished request is drawn again while a reply to it is
  still under way, which takes two requests; the proofs cover the rest;
* events: one subscriber dead and one alive, and an event before and after
  each call. A larger instance, with two pointers to one actor beside the second
  actor (`Handles = {ha, ha2, hb}`), was checked once (3,196,062 states, 14
  minutes): unsubscribing one pointer leaves the other subscribed;
* remote: two calls of each kind overlap in every way; the proofs cover the rest;
* codec: lengths of 0, 127 and 128, and longer ones around these; two messages
  are what the shared instance needs to mix, and a third meets the mixture; unknown
  fields of every wire type. Damaged lengths are the largest unsigned and signed word,
  one that takes the position over the limit, and one that does not end, in known
  and unknown fields. Decoding one type leaves the registered instances of
  the others alone, so the messages of a behaviour have one type;
* cluster: both races on an id need two nodes. Two nodes cannot show
  what a third learns from the second; the proofs do, for any number of nodes. Three calls are an
  activation, a deactivation and the next activation. One restart and none are enough
  for a node that goes on after a panic and for one that ends, where the code's
  default is three.

Deadlock is checked in `ringbuffer` and `inbox`. In the others the system may
stop: all messages are handled, or the program has ended.

Many properties are conditional: `Conservation` holds until a pill is handled,
`UniqueUnlessRaced` unless a call met something unsettled, `StartedOnce`
unless calls overlapped, and so on. Conditions are there because the code has the behaviour they
exclude: they were dropped in turn, for the safety properties of `Process` and
`Cluster` and for `Accounted`, and TLC found a counterexample on the same
instance. There are two exceptions in `Cluster`, both because two nodes are too few.
The restart of a provider (in `LeaveJustified`, `UniqueUnlessRaced` and `Agreement`)
needs an unreachable member, which the last two exclude anyway, and it makes an
agent give up a member other than the unreachable one only where there are three
nodes. A node selected that is no member (`"stranger"`, in `UniqueUnlessRaced` and
`Agreement`) is told of its actor all the same once the two nodes have met; with
three, two nodes need never meet. The hazards whose property excludes the bad
case have a note in `PROJECT.json` that says so.
What the unconditional properties run into is described
[below](#where-code-and-documentation-disagree).

## Fairness

Weak fairness of every goroutine that can proceed, as the Go scheduler
gives it: the goroutines of inboxes, a sender between its push and its
`schedule`, the router, a writer's worker, reader and shutdown. Nobody is obliged
to call Send, Stop, Poison or Clear, and no fault has to happen. Weak fairness is
enough because no step of the code waits for a condition that others keep
switching on and off: a compare-and-swap that fails is a step that returns.

* `Inbox`: the calls of Start that have begun are among these; nobody has to restart.
* `Supervision`: the steps of every process and of a client's call that has
  begun. A wait for a context is enabled only once the context is cancelled.
* `Events`: the event stream's goroutine, and the end of a repeater that has been
  stopped (`select` chooses at random among the channels that are ready, so it
  takes the closed one in the end). Ticks and calls need not happen.
* `Remote`: calls that have begun, and the return of `Serve` once it is cancelled.
  A send on a channel that nobody receives from is never enabled.
* `Cluster`: only that somebody goes on as long as anybody can (`Runs`), where a
  step of an agent may be the timeout of a request that gets no answer, which the
  timer of `Result` guarantees. `ComesToRest` needs no more.
* `Requests` and `Codec` are checked for safety only; that decoding ends is
  a bound on the turns of its loop, `Advances`.

## Proofs

The theorems hold for all values of the constants. They assume only what the
modules' ASSUMEs state: a positive initial size and natural bounds; `Priority` a
subset of the messages, a spawner that is no goroutine of the inbox and a positive batch size; `None` not a request, an id, a
Start or an actor; for `Process` that pills and panicking messages are messages,
that there is a goroutine to run the inbox, and that the names `"spawner"` and
`"nil"` (no pill) are not those of a goroutine or a message; for `Supervision`
that `Parent` maps actors to actors or `None`. `Workers`, `Requests`, `Ids`,
`Starts`, `Stops`, `Sends`, `Actors` and `Clients` may be any sets, and
`MaxRestarts`, `BatchSize` and `MaxInc` any numbers. For `Streams`: types, targets
and senders are given for the messages, and a type or a target is never the nil PID;
any of the messages may be foreign.
For `Cluster`: bootstrap members are other nodes, calls, deactivations and Spawns name
nodes and ids, and `None`, `"provider"` and `"nowhere"` are names of nothing else; there may be any
number of nodes, of any kinds, with any limits of restarts.

`RingBufferProof.tla`, `InboxProof.tla`:

* `IndexInvariant`: the ring buffer always satisfies `TypeOK`, `Window` and
  `LiveSlots`. Their conjunction is inductive. `Window` is what makes the two
  tests for a full buffer (`tail` meets `head` in Push, `len >= mod-1` in
  PushFront) agree. The modular arithmetic is in the lemmas `Wrap`,
  `WrapInjective` and `WrapShift`.
* `Refinement`: the ring buffer implements `Deque`. Each operation has a lemma
  that says what it does to the live slots, also when it grows the array.
* `InboxSafety`: type correctness, `RunnersBounded`, `NoLostWakeup` and
  `ProcBeforeRun` (`WakeupKept` and `ProcStored` restate the last two alone), with any
  number of calls of Start from inside `Invoke`. `RunnersBounded` is not inductive: a
  goroutine that ends gives the inbox back as idle, and the next one takes it from
  there. `Tokens` counts what can become a runner, the goroutines that own the inbox,
  the Starts between their compare-and-swap and their swap and an idle inbox: together
  they are at most the Starts that found the inbox stopped. `StartProgress` says how far
  the first Start is in each status, and `BatchInHand` that a goroutine holds messages only
  while it invokes.
* `OneRunnerUnlessReopened`: with one such Start, one goroutine at a time.
* `StopFinal`: the action property `StopIsFinal`. Only Start undoes a Stop.
* `InboxRefinement`: the inbox implements `Mailbox`, reopened or not. A step of the
  inbox is a step of the mailbox or invisible; the subtle one is a `Stop` between the load of
  `procStatus` and `PopN`, which the mapping (`Phase`) makes a later `Close`, and the number of
  consumers with messages in hand is below `opened` whenever one pops (`RoomToTake`).

`RequestsProof.tla`: `WaitingIsRegistered`, `OwnAnswer` and `RoomForReply` are the
three properties of the run. None is inductive. A response
is found by its id, so the proof follows an id from where it was drawn
(`Drawn`) to the entry (`Registered`), the server's inbox (`Queued`), the server
(`Serving`, with the request it is at and the response it has found) and the
channel (`Answered`), for requests that do not share their id. `Fresh` says
that a request that has not been sent is nowhere, and that a request is handled
once, which is why one reply always finds the channel empty.

`RemoteProof.tla`: `OneStart`, `ClosedAfterWait` and `AlwaysRouted`. The
invariant has a part that always holds (`Routed`: a Start that is past its spawn
has left a router) and a part under `~raced`: at most one call is under way
(`OneCall`), before it nothing has been touched (`Untouched`), the fields belong
to the one Start that got through (`Owned`), and a Stop uses the channel of
that Start (`Stopping`). The second part is inductive only together with the
fact that `raced` never becomes false again.

`ProcessProof.tla` (the invariant; the steps of Start, tryRestart and cleanup; the
steps of Invoke; senders and theorems): all safety properties of the run `process_safety`, in `ExecutedByOne`,
`Conserving`, `PillDrains`, `HandedWhileStarted` and `StoppedWhenDone`. No lock
guards a process, so nothing about its fields is inductive without knowing that one
goroutine executes it (`Alone`), and that in turn depends on what the goroutine is
doing when the inbox becomes idle. The invariant therefore says of the active
goroutine which frames it can have (`Role`), how far cleanup is against the inbox,
the registry and the contexts (`Phase`, `Removal`), what the receiver has been sent
(`LifeOf`), that what it holds lies between `log` and `queue` (`Conserves`), and that
a message that has left the inbox is taken or still owed (`Covers`, which is
weaker than `Conserves` but outlasts a pill). `Quiet` is what is left of this
between two runs of the inbox. All of it ends when a Stop has met a restart
(`Disrupted`), after which two goroutines may execute the process. Unconditionally,
the queue is the end of `order` (`QueueTail`), whatever the process holds was sent by
a call that has returned (`Sent`), and some frames belong to some goroutines only
(`Places`). `Disrupted` never becomes false again, which makes the conditional part
inductive.

`SupervisionProof.tla`: `LiveRegistered`, `LiveRecorded` and `ChildrenBefore` are
the three invariants of the run `supervision`, for every tree. The first two are inductive
nearly as they stand: `Registered` adds that a process keeps its id until its own
Remove, so that Remove never hits a successor, and `Known` that nobody is referred to who
has not been started. `ChildrenFirst` needs the course of a cleanup. `Sweeping` says
of a process behind its copy of the table that each child it ever spawned is
still in the copy, is the one it is stopping now, or is over (`Turn`; `Over` never
becomes false); that whoever holds one of its pills is the last incarnation of the
id and its turn has come (`Asked`, `Last`); and that a cancelled pill means all incarnations of
that child are over (`Answered`). `Unasked` says that no pill of a process is
under way before its cleanup, and `Progress` ties the program counter to the flags.
Like the properties, these hold as long as nobody is cleaned up twice (`CleanedOnce`),
a condition that never comes back once it is lost.

`StreamsProof.tla`: `ArrivesInOrderOnce`, `AttributedToItself` and `OnlyItself` are
the three safety properties of the run `streams`, for any messages and any number of faults.

* `Attribution` is about the tables of an envelope: an index that `lookupPIDs` returned
  early in a batch still leads to its key when the batch is complete. The table is a
  recursive function of the batch, so this is an induction over its length; it is
  done by hand, with the least length at which the claim would fail (`Least`).
* `RemovesItself` needs to know who is registered under the PID that all writers of an
  address share (`Holder`): a writer whose inbox is open, or whose Shutdown is under way,
  is the one in the registry, so that two Shutdowns never overlap.
* `InOrderOnce` follows a message along its way: sent once, in the router's inbox or
  hands, in the queue of one writer, on its wire, or handed over (`SentOnce`,
  `RouterOrder`, `HeldOrder`, `WriterOrder`, `ReaderOrder`). Each place keeps the order
  of the calls of `Remote.Send`, and everything in a later place was sent before what is
  in an earlier one. `Caused` says that each writer is due to a message of its own, which
  bounds their number.

`ClusterProof.tla`: `OffersWhatMembersHave`, `MembersAreKept`, `HandshakesJoin`,
`UniqueAcrossCluster` and `AgentsAgree` are all safety properties of the run `cluster`, for
any number of nodes and calls, any `SelectMember` and any limits of restarts. The
invariant has these layers.

* `Views` and `Joining` are about members. The lists on their way from a provider to
  its agent form a chain from the members of the agent to those of the provider, along
  which nobody disappears without a reason (`Chain`), and the last of them is what the
  provider has (`Latest`); a handshake is on its way, or was taken and its answer is.
  A restarted agent has no members until its provider sends the next list.
* `KindsInv` keeps the kinds of an agent above those of its members, equal until it is
  restarted. `Calm` ties the counts of panics to the histories: without `"panic"` no
  agent has panicked, and a provider panics only about a member that was lost, so
  that the conditional layers below are about programs that all run.
* `Sound` is about actors, as long as nothing was missed (`Mild`). A request is the
  only one of its sender, who waits (`Asking`). An actor whose end was announced is
  announced by nobody any more, and everybody who knows it is being told (`EndingInv`).
  What an agent knows is running or ending (`Valid`), and every actor is reported by
  a response under way, by its Spawn, or by an agent that has told all its
  members and will tell those that join (`Announced`). The last clause is what makes the
  topology sent in `memberJoin` enough, and why an Activation under way at that
  moment is not.
* `Single` is about ids, as long as nothing raced: one node waits for an id, and while
  a request for it is under way nobody has it.
* The conditions `Mild` and `race = {}` never come back once they are lost, which makes
  the conditional layers inductive.

The first form of `Agreement` said that any two agents that are members of each other
know the same actors. Two nodes cannot tell it from the present one. Its proof
failed, because membership is not transitive: of two nodes that join through a third,
the first does not learn of the second (a provider answers a handshake, and tells nobody
else but its own agent), so what the first activates is announced to the third node and
not to the second. TLC then gave the counterexample on three nodes, in 15 states. What does hold is the present form: agents know only what
runs, an actor is known on its own node, and all know all once everybody has met.

What is subtle in these invariants was checked by TLC before it was proved: on the instances of
`process_safety` and `streams`, of `supervision` together with a parent with two children, and
of `cluster` together with three nodes. In these proofs most leaves name Zenon: they are
about records and sets without arithmetic, and the SMT translation becomes
slower with every leaf of a module.

Only model-checked: `EventsInOrder` of `Events`, everything about `Wire` and `Codec`, and all
liveness (of `Process`, `Streams`, `Cluster` and the others). Liveness under fairness and ENABLED are out
of the prover's reach, and so are recursive operators, of which `Wire` consists.

## Where code and documentation disagree

`nil_sender` is a run that is expected to fail, with an entry under "findings".
The others have their property and configuration here too, and TLC finds the
counterexample within seconds (for instance
`tlc -config MCStopInRestart.cfg MCProcess`; the temporal ones have fairness).
For each of them a passing run checks the strongest form found that does hold.

| Configuration, module | Property | What happens | What holds |
|---|---|---|---|
| `MCNilSender`, `MCStreams` | `SenderOptional` | a message without sender gets the first sender of its batch | `Attribution` |
| `MCStopInRestart`, `MCProcess` | `StoppedForGood` | a pill in the rest of a batch that panicked: cleanup stops the inbox, and `Start` then starts it again (`actor/process.go:144`), so a message can be handled after the stop is reported | `DoneMeansStopped` |
| `MCPoisonTwice`, `MCProcess` | `PillCompletes` | the context of a second pill is never cancelled | `SomePillCompletes` |
| `MCPoisonPanic`, `MCProcess` | `AtMostOnce` | a panic while a graceful pill drains its batch replays messages that were handled | `Conservation` |
| `MCStaleEntry`, `MCStreams` | `EntryFollowsWriter` | a message between the steps of a writer's Shutdown leaves a router entry without a writer for ever | `EntryFollowsWriterUnlessRefused` |
| `MCUnique`, `MCCluster` | `Unique` | two members activate the same id at the same time | `UniqueUnlessRaced` |

`ChildrenStopped` of `Supervision` ("all children will receive the Stopped message",
`actor/context.go:64`) fails in the same way as `PillCompletes`: a parent that is
stopped together with its child may wait for ever for a pill that was discarded,
and its other children stay; `WaitEnds` and `ChildrenFirst` say what is left.

Other behaviour of the code that the models show and that a reader may not expect:

* After the last restart `tryRestart` calls `cleanup(nil)`, whose deferred
  `cancel()` panics, and the program ends. `Delivery` says, among others, that
  this happens in no other case.
* Messages behind the pill of a Stop, or pushed into a stopped inbox by a sender
  that had found the process before, are neither received nor dead letters.
* A message that cannot be serialised leaves an empty entry in its envelope, which
  the reader processes as an empty message (`Empty` in `Envelope`).
* A message that is no `proto.Message` ends the program of its sender: the writer
  asserts the type on the inbox's goroutine (`Asserted` in `Accounted`).
* A local activation on a node that does not have the kind is not checked for success:
  an Activation without PID goes to all members (`cluster/agent.go:174`), and every
  agent that handles it panics, forgets its members and the activations, and keeps
  the kinds. `Deactivate(nil)` does the same. The fourth such panic of an agent ends its program
  (`defaultMaxRestarts` is three).
* When `SetDeadline` fails, the writer stays registered without a stream and
  panics on its first batch (an outcome that `Accounted` names).
* A `memberLeave` for a host that is no longer a member makes the provider panic; it is
  restarted and has forgotten all members but itself.
* A member that joins while an Activation is on its way is never told of that
  actor, and may activate the id a second time. So may a member after a
  Deactivation that did not reach the member where the actor runs.
* An event for a dead subscriber is a dead letter, which is an event for the same
  subscriber, and so on for ever (`Quiesces` holds only once all subscribers are alive).
* Unsubscribe with another pointer to the same PID removes nothing.
* A second reply to a request may block the replying actor for ever, and two
  requests that draw one id disturb each other.
* `Stop` after a `Start` that could not listen or register sends on a nil channel and
  blocks; the second of two overlapping Stops blocks too.
* `VTProtoSerializer.Deserialize`, which no code of the repository calls, decodes into the
  one registered instance and resets nothing: a message is merged with the earlier ones
  of its type (`MergesInto`).
* `Cluster.Spawn` announces its actor to nobody when the agent is too busy to answer.
* `actor/README.md` and `README.md` describe a full inbox as blocking;
  Push grows the buffer instead.

## Not modelled

* `Cluster.Stop` and the `Stopped` branch of the provider; a second incarnation
  of a node under its old host; a `SelectMember` that panics. TLC's run of the cluster
  has two nodes, the proofs any number.
* The Consul provider: thin code around a client library. What decides is in
  Consul's own agent.
* The reflection tables and accessors of the protobuf runtime and the stubs of
  drpc, which have no state of their own; `VTStrict` functions are copies of the
  functions in `Wire`. `ProtoSerializer` is a call of the protobuf library.
* `PIDSet`, which no code uses; options, examples and benchmarks.
* Hash keys of PIDs are taken to be free of collisions. A second `Stop` of a
  `SendRepeater` closes a closed channel and panics in its caller.
* In `Streams`, a batch that a writer's worker has in hand when its inbox is
  stopped counts as still in the queue: its connection is closed, so the write
  would fail. Payloads are abstract there; `Codec` has the bytes.
* In `Supervision`, `Children()` reads the table in one step. In the code a child
  that leaves in between makes the last PID nil, whose Poison completes at once.

## Plan

1. *Cluster*: Stop, a second incarnation of a node; three nodes for `ComesToRest`,
   which is liveness and not proved.
2. *Composition*: Process over Mailbox as a refinement; Supervision over Process.
3. *Proofs*: `EventsInOrder` of Events.
