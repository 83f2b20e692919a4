---------------------------- MODULE Supervision -----------------------------
(***************************************************************************)
(* Parents and children (actor/context.go, actor/process.go) with the      *)
(* registry (actor/registry.go) and the poison pills of the engine.  An    *)
(* actor spawns its children in Started (and when it is told to), and a    *)
(* process that is stopped poisons its children one by one, waiting for    *)
(* the context of each.  Several processes may live and die under one id:  *)
(* a process is an id and the number of its incarnation.                   *)
(*                                                                         *)
(* What Process.tla says of a single process is kept shorter here: a batch *)
(* is everything in the inbox; panics come from messages only, and are     *)
(* fewer than the maximum of restarts; the goroutines of one process are   *)
(* one.  Stops are the steps of the code: sendPoisonPill looks the process *)
(* up, SendLocal does so again, and the process found gets the pill.       *)
(***************************************************************************)
EXTENDS Integers, Sequences

CONSTANTS Actors,    \* the ids
          Parent,    \* Parent[a]: the id of a's parent, or None
          None,
          Clients,   \* calls from outside, one message or pill each
          Kinds,     \* what they send, of "stop", "poison", "spawn", "panic"
          MaxInc     \* bound: incarnations of an id

ASSUME SupervisionAssumption ==
    /\ None \notin Actors /\ Parent \in [Actors -> Actors \cup {None}]
    /\ Kinds \subseteq {"stop", "poison", "spawn", "panic"}
    /\ MaxInc \in Nat \ {0}

VARIABLES registry,  \* id -> the incarnation that is registered, 0 for none
          p,         \* the processes
          client,    \* client -> what it sends, to whom, and where the call is
          done       \* the pills whose context is cancelled

vars == <<registry, p, client, done>>

Procs == Actors \X (1 .. MaxInc)
Id(q) == q[1]
NoProc == <<None, 0>>
Kids(a) == {c \in Actors : Parent[c] = a}

\* Messages and pills; a pill that cleanup sends names the child it is for,
\* and which call of cleanup it is.
Msg(by, kind, kid, n) == [by |-> by, kind |-> kind, kid |-> kid, n |-> n]
NoPill == Msg(NoProc, "none", None, 0)
IsPill(m) == m.kind \in {"stop", "poison"}
CallOf(x) == Msg(<<x, 0>>, client[x].kind, client[x].to, 0)
ChildPill(q) == Msg(q, "poison", p[q].cur[1], p[q].cleanups)

\* A process whose Start has just been called by up's goroutine.
Process(up, kids) ==
    [pc |-> "receive", begun |-> FALSE, open |-> FALSE, inbox |-> <<>>,
     batch |-> <<>>, rest |-> <<>>,  \* what Invoke has to handle; what a panic in a drain keeps
     todo |-> kids, ret |-> "inbox", \* children to spawn in this Receive; where it returns to
     nested |-> FALSE,               \* the Invoke under way was called by Start
     up |-> up, children |-> {},     \* context.parentCtx, context.children
     cur |-> NoProc,                 \* the child that is being spawned or stopped
     snap |-> {}, pill |-> NoPill,   \* cleanup: the children left to stop, its argument
     cleanups |-> 0, stopped |-> FALSE]
Unborn == [Process(NoProc, {}) EXCEPT !.pc = "none"]

\* Spawn has registered the roots and calls their Start.
Init ==
    /\ registry = [a \in Actors |-> IF Parent[a] = None THEN 1 ELSE 0]
    /\ p = [q \in Procs |-> IF Parent[Id(q)] = None /\ q[2] = 1
                            THEN Process(NoProc, Kids(Id(q))) ELSE Unborn]
    /\ client = [x \in Clients |-> [at |-> "ready", kind |-> "none", to |-> None, found |-> NoProc]]
    /\ done = {}

At(q, pc) == p[q].pc = pc
Goto(q, pc) == p' = [p EXCEPT ![q].pc = pc]

\* The next incarnation of an id, if there is one left.
Unused(c) == {q \in Procs : Id(q) = c /\ At(q, "none") /\ \A i \in 1 .. (q[2] - 1) : ~At(<<c, i>>, "none")}

---------------------------------------------------------------------------
(* Start, Receive and SpawnChild.                                          *)

\* Mutant of SpawnChild: add does not look for a duplicate.
SpawnChildReplaces(q, c) ==
    /\ At(q, "receive") /\ c \in p[q].todo
    /\ \E new \in Unused(c) :
         /\ registry' = [registry EXCEPT ![c] = new[2]]
         /\ p' = [p EXCEPT ![new] = Process(q, Kids(c)), ![q].pc = "record", ![q].cur = new]
    /\ UNCHANGED <<client, done>>

\* Registry.add starts the child on this goroutine, or refuses a duplicate.
SpawnChild(q, c) ==
    /\ At(q, "receive") /\ c \in p[q].todo
    /\ IF registry[c] = 0
       THEN \E new \in Unused(c) :
            /\ registry' = [registry EXCEPT ![c] = new[2]]
            /\ p' = [p EXCEPT ![new] = Process(q, Kids(c)), ![q].pc = "record", ![q].cur = new]
       ELSE /\ p' = [p EXCEPT ![q].pc = "record", ![q].cur = <<c, 0>>]
            /\ UNCHANGED registry
    /\ UNCHANGED <<client, done>>

\* When Start has returned (or add has refused), the child is recorded.
RecordChild(q) ==
    LET c == p[q].cur IN
    /\ At(q, "record") /\ (c \in Procs => p[c].begun)
    /\ p' = [p EXCEPT ![q].pc = "receive", ![q].cur = NoProc, ![q].todo = @ \ {Id(c)},
                      ![q].children = @ \cup {Id(c)}]
    /\ UNCHANGED <<registry, client, done>>

ReceiveReturns(q) ==
    /\ At(q, "receive") /\ p[q].todo = {}
    /\ Goto(q, p[q].ret)
    /\ UNCHANGED <<registry, client, done>>

\* The end of Start: inbox.Start(p).
StartInbox(q) ==
    /\ At(q, "inbox")
    /\ p' = [p EXCEPT ![q].pc = "loop", ![q].open = TRUE, ![q].begun = TRUE]
    /\ UNCHANGED <<registry, client, done>>

---------------------------------------------------------------------------
(* The worker: inbox.run and Invoke.                                       *)

Run(q) ==
    /\ At(q, "loop") /\ p[q].open /\ p[q].inbox # <<>>
    /\ p' = [p EXCEPT ![q].pc = "next", ![q].batch = p[q].inbox, ![q].inbox = <<>>]
    /\ UNCHANGED <<registry, client, done>>

\* tryRestart and Start: a new receiver is sent Started, and what is left of
\* the batch is invoked by Start before it starts the inbox.
Restarted(q, left) ==
    [p EXCEPT ![q].pc = "receive", ![q].todo = Kids(Id(q)), ![q].batch = left,
              ![q].nested = (left # <<>>), ![q].ret = IF left = <<>> THEN "inbox" ELSE "next"]

Invoke(q) ==
    LET m == Head(p[q].batch)
        left == Tail(p[q].batch) IN
    /\ At(q, "next") /\ p[q].batch # <<>>
    /\ p' = CASE m.kind = "spawn" -> [p EXCEPT ![q].pc = "receive", ![q].todo = Kids(Id(q)),
                                               ![q].ret = "next", ![q].batch = left]
              [] m.kind = "panic" -> Restarted(q, left)
              [] m.kind = "stop" -> [p EXCEPT ![q].pc = "detach", ![q].pill = m, ![q].batch = <<>>]
              [] m.kind = "poison" -> [p EXCEPT ![q].pc = "drain", ![q].pill = m, ![q].batch = left,
                                                ![q].rest = left]
    /\ UNCHANGED <<registry, client, done>>

\* Invoke returns: to Start, which goes on to the inbox, or to run.
InvokeReturns(q) ==
    /\ At(q, "next") /\ p[q].batch = <<>>
    /\ p' = [p EXCEPT ![q].pc = IF p[q].nested THEN "inbox" ELSE "loop", ![q].nested = FALSE]
    /\ UNCHANGED <<registry, client, done>>

\* A graceful pill: the rest of the batch is handled, further pills are not.
InvokeDrain(q) ==
    /\ At(q, "drain")
    /\ p' = IF p[q].batch = <<>> THEN [p EXCEPT ![q].pc = "detach"]
            ELSE LET m == Head(p[q].batch)
                     left == Tail(p[q].batch)
                 IN CASE IsPill(m) -> [p EXCEPT ![q].batch = left]
                      [] m.kind = "spawn" -> [p EXCEPT ![q].pc = "receive", ![q].todo = Kids(Id(q)),
                                                       ![q].ret = "drain", ![q].batch = left]
                      [] m.kind = "panic" -> Restarted(q, p[q].rest)
    /\ UNCHANGED <<registry, client, done>>

---------------------------------------------------------------------------
(* cleanup                                                                 *)

CleanupDetach(q) ==
    /\ At(q, "detach")
    /\ p' = [r \in Procs |->
                IF r = q THEN [p[r] EXCEPT !.pc = "children", !.cleanups = @ + 1]
                ELSE IF r = p[q].up THEN [p[r] EXCEPT !.children = @ \ {Id(q)}] ELSE p[r]]
    /\ UNCHANGED <<registry, client, done>>

CleanupChildren(q) ==
    /\ At(q, "children")
    /\ p' = [p EXCEPT ![q].snap = p[q].children,
                      ![q].pc = IF p[q].children = {} THEN "stopInbox" ELSE "poison"]
    /\ UNCHANGED <<registry, client, done>>

\* Poison(pid): without a process its context is cancelled at once.
PoisonChild(q, c) ==
    /\ At(q, "poison") /\ c \in p[q].snap
    /\ p' = [p EXCEPT ![q].pc = IF registry[c] = 0 THEN "wait" ELSE "lookup",
                      ![q].snap = @ \ {c}, ![q].cur = <<c, 0>>]
    /\ done' = IF registry[c] = 0 THEN done \cup {Msg(q, "poison", c, p[q].cleanups)} ELSE done
    /\ UNCHANGED <<registry, client>>

\* SendLocal looks again; without a process the pill is only a dead letter.
PoisonLookup(q) ==
    LET c == Id(p[q].cur) IN
    /\ At(q, "lookup")
    /\ p' = IF registry[c] = 0 THEN [p EXCEPT ![q].pc = "wait"]
            ELSE [p EXCEPT ![q].pc = "push", ![q].cur = <<c, registry[c]>>]
    /\ UNCHANGED <<registry, client, done>>

\* Mutant of PoisonPush: the next child, without <-ctx.Done().
PoisonPushNoWait(q) ==
    /\ At(q, "push")
    /\ p' = [p EXCEPT ![q].pc = IF p[q].snap = {} THEN "stopInbox" ELSE "poison", ![q].cur = NoProc,
                      ![p[q].cur].inbox = Append(@, ChildPill(q))]
    /\ UNCHANGED <<registry, client, done>>

PoisonPush(q) ==
    /\ At(q, "push")
    /\ p' = [p EXCEPT ![q].pc = "wait", ![p[q].cur].inbox = Append(@, ChildPill(q))]
    /\ UNCHANGED <<registry, client, done>>

\* <-ctx.Done()
PoisonDone(q) ==
    /\ At(q, "wait") /\ ChildPill(q) \in done
    /\ p' = [p EXCEPT ![q].pc = IF p[q].snap = {} THEN "stopInbox" ELSE "poison", ![q].cur = NoProc]
    /\ UNCHANGED <<registry, client, done>>

CleanupStopInbox(q) ==
    /\ At(q, "stopInbox")
    /\ p' = [p EXCEPT ![q].pc = "remove", ![q].open = FALSE]
    /\ UNCHANGED <<registry, client, done>>

\* Registry.Remove deletes the entry of the id, whoever holds it.
CleanupRemove(q) ==
    /\ At(q, "remove") /\ Goto(q, "stopped")
    /\ registry' = [registry EXCEPT ![Id(q)] = 0]
    /\ UNCHANGED <<client, done>>

\* Mutant of CleanupStopped: the child leaves its parent's table last.
CleanupStoppedDetaches(q) ==
    /\ At(q, "stopped")
    /\ p' = [r \in Procs |->
                IF r = q THEN [p[r] EXCEPT !.pc = "cancel", !.stopped = TRUE]
                ELSE IF r = p[q].up THEN [p[r] EXCEPT !.children = @ \ {Id(q)}] ELSE p[r]]
    /\ UNCHANGED <<registry, client, done>>

CleanupStopped(q) ==
    /\ At(q, "stopped")
    /\ p' = [p EXCEPT ![q].pc = "cancel", ![q].stopped = TRUE]
    /\ UNCHANGED <<registry, client, done>>

\* Mutant of CleanupCancel: no deferred cancel.
CleanupNoCancel(q) ==
    /\ At(q, "cancel")
    /\ p' = [p EXCEPT ![q].pc = "next", ![q].pill = NoPill, ![q].batch = <<>>]
    /\ UNCHANGED <<registry, client, done>>

\* The deferred cancel; Invoke returns, the rest of its batch is gone.
CleanupCancel(q) ==
    /\ At(q, "cancel")
    /\ done' = done \cup {p[q].pill}
    /\ p' = [p EXCEPT ![q].pc = "next", ![q].pill = NoPill, ![q].batch = <<>>]
    /\ UNCHANGED <<registry, client>>

---------------------------------------------------------------------------
(* Calls from outside: Send, Stop and Poison.                              *)

\* sendPoisonPill's own lookup; a message goes straight to SendLocal.
Call(x, kind, a) ==
    /\ client[x].at = "ready"
    /\ IF kind \in {"stop", "poison"} /\ registry[a] = 0
       THEN /\ client' = [client EXCEPT ![x] = [@ EXCEPT !.at = "returned", !.kind = kind, !.to = a]]
            /\ done' = done \cup {Msg(<<x, 0>>, kind, a, 0)}
       ELSE /\ client' = [client EXCEPT ![x] = [@ EXCEPT !.at = "lookup", !.kind = kind, !.to = a]]
            /\ UNCHANGED done
    /\ UNCHANGED <<registry, p>>

SendLocal(x) ==
    LET a == client[x].to IN
    /\ client[x].at = "lookup"
    /\ client' = [client EXCEPT ![x].at = IF registry[a] = 0 THEN "returned" ELSE "push",
                                ![x].found = IF registry[a] = 0 THEN NoProc ELSE <<a, registry[a]>>]
    /\ UNCHANGED <<registry, p, done>>

Deliver(x) ==
    /\ client[x].at = "push"
    /\ p' = [p EXCEPT ![client[x].found].inbox = Append(@, CallOf(x))]
    /\ client' = [client EXCEPT ![x].at = "returned", ![x].found = NoProc]
    /\ UNCHANGED <<registry, done>>

---------------------------------------------------------------------------

Start(q) == (\E c \in Actors : SpawnChild(q, c)) \/ RecordChild(q) \/ ReceiveReturns(q) \/ StartInbox(q)
Work(q) == Run(q) \/ Invoke(q) \/ InvokeReturns(q) \/ InvokeDrain(q)
Cleanup(q) == \/ CleanupDetach(q) \/ CleanupChildren(q)
              \/ (\E c \in Actors : PoisonChild(q, c)) \/ PoisonLookup(q) \/ PoisonPush(q) \/ PoisonDone(q)
              \/ CleanupStopInbox(q) \/ CleanupRemove(q) \/ CleanupStopped(q) \/ CleanupCancel(q)
Step(q) == Start(q) \/ Work(q) \/ Cleanup(q)
Send(x) == SendLocal(x) \/ Deliver(x)

Next == \/ \E q \in Procs : Step(q)
        \/ \E x \in Clients : Send(x) \/ \E kind \in Kinds, a \in Actors : Call(x, kind, a)

Spec == Init /\ [][Next]_vars

\* Goroutines run; nobody need call Stop.
FairSpec == Spec /\ (\A q \in Procs : WF_vars(Step(q))) /\ (\A x \in Clients : WF_vars(Send(x)))

---------------------------------------------------------------------------
(* Properties.  cleanup can run twice on one process: when a batch that a  *)
(* panic interrupted holds a pill, Start's Invoke cleans up and Start then *)
(* reopens the inbox, from which a second pill may be taken (Process.tla). *)

PCs == {"none", "receive", "record", "inbox", "loop", "next", "drain", "detach", "children", "poison",
        "lookup", "push", "wait", "stopInbox", "remove", "stopped", "cancel"}
Mail == [by : Procs \cup (Clients \X {0}), kind : {"stop", "poison", "spawn", "panic"},
         kid : Actors, n : Nat]
Mails == Seq(Mail)
Pills == Mail \cup {NoPill}
Ids == SUBSET Actors
Refs == Procs \cup {NoProc}
Names == (Actors \X (0 .. MaxInc)) \cup {NoProc}
Returns == {"inbox", "next", "drain"}
ProcessType ==
    [pc : PCs, begun : BOOLEAN, open : BOOLEAN, inbox : Mails, batch : Mails, rest : Mails,
     todo : Ids, ret : Returns, nested : BOOLEAN, up : Refs, children : Ids, cur : Names,
     snap : Ids, pill : Pills, cleanups : Nat, stopped : BOOLEAN]
CallType == [at : {"ready", "lookup", "push", "returned"}, kind : Kinds \cup {"none"},
             to : Actors \cup {None}, found : Procs \cup {NoProc}]

TypeOK ==
    /\ registry \in [Actors -> 0 .. MaxInc]
    /\ p \in [Procs -> ProcessType]
    /\ client \in [Clients -> CallType]
    /\ done \subseteq Mail /\ \A m \in done : IsPill(m)
    /\ \A q \in Procs : p[q].todo \cup p[q].children \cup p[q].snap \subseteq Kids(Id(q))

CleanedOnce == \A q \in Procs : p[q].cleanups <= 1
Live(q) == p[q].pc # "none" /\ p[q].cleanups = 0

\* A process that is not being stopped is the one its id stands for, so that
\* messages and pills reach it and no second actor runs under the id: add
\* refuses duplicates, and Remove (by id, whoever holds it) only ever removes
\* the process that calls it.
LiveIsRegistered == CleanedOnce => \A q \in Procs : Live(q) => registry[Id(q)] = q[2]

\* Every live child is in its parent's table, from which cleanup stops it,
\* unless SpawnChild has yet to record it: a dying child takes itself out of
\* the table before it gives up its id, so that it cannot take out a
\* successor of the same name.
ChildRecorded ==
    CleanedOnce => \A q \in Procs : (Live(q) /\ p[q].up # NoProc) =>
        \/ Id(q) \in p[p[q].up].children
        \/ At(p[q].up, "record") /\ p[p[q].up].cur = q

\* When a process is sent Stopped, each of its children has been sent Stopped
\* before, or was already in a cleanup that somebody else asked for, as long
\* as Start does not reopen the inbox of the process after that.
ChildrenFirst ==
    CleanedOnce => \A q, r \in Procs : (p[r].up = q /\ p[q].stopped /\ ~p[q].open) =>
        p[r].stopped \/ (p[r].cleanups = 1 /\ p[r].pill.by # q)

\* The ids below c, c included.
Below(c) == CHOOSE S \in SUBSET Actors :
    /\ c \in S /\ \A a \in S : Kids(a) \subseteq S
    /\ \A a \in S \ {c} : Parent[a] \in S

\* Somebody else has stopped a process at or below c, or made it panic.
Disturbed(c) == \E x \in Clients : client[x].to \in Below(c) /\ client[x].kind # "spawn"

\* A cleanup that waits for a child goes on, unless the child or one below it
\* was stopped from elsewhere as well (its second pill is discarded and the
\* context of it never cancelled) or panicked while it drained its batch.
WaitEnds == \A q \in {r \in Procs : Kids(Id(r)) # {}} :
    At(q, "wait") ~> (~At(q, "wait") \/ Disturbed(Id(p[q].cur)))

\* "If the parent process dies, all the children will be automatically
\* shutdown gracefully.  Hence, all children will receive the Stopped
\* message." (actor/context.go)
ChildrenStopped == \A q, r \in Procs :
    (p[q].cleanups > 0 /\ p[r].up = q) ~> p[r].stopped
=============================================================================
