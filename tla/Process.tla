------------------------------ MODULE Process ------------------------------
(***************************************************************************)
(* actor/process.go, with the registry and engine operations that reach it: *)
(* the life of one actor under one PID.  It is spawned, receives messages   *)
(* in batches, panics and is restarted with the rest of its batch, and is   *)
(* stopped by poison pills.                                                 *)
(*                                                                          *)
(* Start, Invoke, tryRestart and cleanup call each other on the goroutine   *)
(* of the spawner or of a worker (a goroutine of inbox.process).  Only one  *)
(* of these calls has anything left to do when it returns: Start, after     *)
(* Invoke(p.mbuffer), clears mbuffer and starts the inbox.  The others are  *)
(* made by a deferred function as its last act.  So a goroutine's stack is  *)
(* the frame it executes and `depth`, the number of Starts below it that    *)
(* wait for their Invoke.                                                   *)
(*                                                                          *)
(* The inbox is the Mailbox that Inbox.tla implements, with procStatus kept *)
(* because a restarted process calls inbox.Start again.  The actor has no   *)
(* parent and no children, and its Receive of Stopped does not panic.       *)
(***************************************************************************)
EXTENDS Integers, Sequences, FiniteSets

CONSTANTS Msgs,         \* everything ever sent to the PID, once each
          Pills,        \* of these, the poison pills of Stop and Poison
          Graceful,     \* of these, the ones of Poison
          Priority,     \* messages sent with SendPriority
          Panics,       \* messages on which Receive panics
          Internal,     \* of these, with an *InternalError
          StartPanics,  \* lifecycle messages on which Receive may panic, and how
          MayClear,     \* whether ClearMailbox is called
          MaxRestarts,
          BatchSize,    \* messageBatchSize
          Workers       \* bound: goroutines of inbox.process at the same time

ASSUME MsgAssumption ==
  /\ Graceful \subseteq Pills /\ Pills \subseteq Msgs
  /\ Internal \subseteq Panics /\ Panics \subseteq Msgs \ Pills
  /\ Priority \subseteq Msgs \ Pills
  /\ StartPanics \subseteq {"Initialized", "Started"} \X {"error", "internal"}
  /\ MayClear \in BOOLEAN
  /\ "nil" \notin Msgs
ASSUME BoundAssumption ==
  /\ MaxRestarts \in Nat /\ BatchSize \in Nat \ {0}
  /\ Workers # {} /\ "spawner" \notin Workers

VARIABLES registered,   \* whether the registry holds the process
          queue,        \* the ring buffer of the inbox
          procStatus,   \* of the inbox
          mbuffer, restarts,
          th,           \* the frame each goroutine executes
          call,         \* where the call that sends a message is
          done,         \* pills whose context is cancelled
          dead,         \* messages published in a DeadLetterEvent
          life,         \* last lifecycle message of the current receiver
          log,          \* history: the messages taken by Invoke, in order
          order         \* history: the accepted messages, in queue order

inboxVars == <<queue, procStatus>>
sendVars == <<call, dead, order>>
vars == <<registered, queue, procStatus, mbuffer, restarts, th, call, done, dead,
          life, log, order>>

Spawner == "spawner"
Threads == Workers \cup {Spawner}
NoCancel == "nil"

\* Frame fields: where the goroutine is; Invoke's msgs, nproc and, in the
\* graceful loop, the next index; the argument of cleanup; the recovered value.
Frame(pc) == [pc |-> pc, msgs |-> <<>>, nproc |-> 0, next |-> 0, cancel |-> NoCancel,
              err |-> "error", depth |-> 0]

Init ==
  /\ registered = FALSE
  /\ queue = <<>> /\ procStatus = "stopped"
  /\ mbuffer = <<>> /\ restarts = 0
  /\ th = [t \in Threads |-> Frame(IF t = Spawner THEN "add" ELSE "none")]
  /\ call = [m \in Msgs |-> "ready"]
  /\ done = {} /\ dead = {}
  /\ life = "none" /\ log = <<>> /\ order = <<>>

At(t, pc) == th[t].pc = pc
Goto(t, pc) == th' = [th EXCEPT ![t].pc = pc]
Rest(t) == SubSeq(th[t].msgs, th[t].nproc + 1, Len(th[t].msgs))

\* The goroutines after g, with a new one in inbox.process.
WithWorker(g) ==
  [g EXCEPT ![CHOOSE w \in Workers : g[w].pc = "none"] = Frame("loop")]

-----------------------------------------------------------------------------
(* Engine: Send, SendPriority, Stop, Poison, ClearMailbox *)

\* The PID is known from Spawn, or to the receiver, once it is registered.
Known == ~At(Spawner, "add")

\* SendLocal (and SendPriorityLocal) looks the process up; without one the
\* message is published as a dead letter.
SendLocal(m) ==
  /\ Known /\ call[m] = IF m \in Pills THEN "checked" ELSE "ready"
  /\ \/ /\ registered
        /\ call' = [call EXCEPT ![m] = "found"]
        /\ dead' = dead
     \/ /\ ~registered
        /\ call' = [call EXCEPT ![m] = "returned"]
        /\ dead' = dead \cup {m}
  /\ UNCHANGED <<registered, inboxVars, mbuffer, restarts, th, done, life, log, order>>

\* sendPoisonPill looks the process up before SendLocal does so again; without
\* one it publishes the dead letter and cancels the context itself.
SendPoisonPill(m) ==
  /\ Known /\ m \in Pills /\ call[m] = "ready"
  /\ \/ /\ registered
        /\ call' = [call EXCEPT ![m] = "checked"]
        /\ UNCHANGED <<dead, done>>
     \/ /\ ~registered
        /\ call' = [call EXCEPT ![m] = "returned"]
        /\ dead' = dead \cup {m} /\ done' = done \cup {m}
  /\ UNCHANGED <<registered, inboxVars, mbuffer, restarts, th, life, log, order>>

\* proc.Send: inbox.Send or inbox.SendPriority on the process that was found.
Deliver(m) ==
  /\ call[m] = "found" /\ call' = [call EXCEPT ![m] = "returned"]
  /\ IF m \in Priority
     THEN /\ queue' = <<m>> \o queue
          /\ order' = SubSeq(order, 1, Len(order) - Len(queue)) \o <<m>> \o queue
     ELSE /\ queue' = Append(queue, m)
          /\ order' = SubSeq(order, 1, Len(order) - Len(queue)) \o queue'
  /\ \/ procStatus = "idle" /\ procStatus' = "running" /\ th' = WithWorker(th)
     \/ procStatus # "idle" /\ UNCHANGED <<procStatus, th>>
  /\ UNCHANGED <<registered, mbuffer, restarts, done, dead, life, log>>

ClearMailbox ==
  /\ MayClear /\ registered
  /\ queue' = <<>>
  /\ order' = SubSeq(order, 1, Len(order) - Len(queue))
  /\ UNCHANGED <<registered, procStatus, mbuffer, restarts, th, call, done, dead, life, log>>

-----------------------------------------------------------------------------
(* Registry.add and Start *)

Add ==
  /\ At(Spawner, "add") /\ Goto(Spawner, "initialize")
  /\ registered' = TRUE
  /\ UNCHANGED <<inboxVars, mbuffer, restarts, sendVars, done, life, log>>

\* A new receiver is sent Initialized and then Started.
StartReceive(t, pc, msg, status, nextpc) ==
  /\ At(t, pc)
  /\ life' = status
  /\ \/ Goto(t, nextpc)
     \/ \E e \in {"error", "internal"} :
          /\ <<msg, e>> \in StartPanics
          /\ th' = [th EXCEPT ![t].pc = "recoverStart", ![t].err = e]
  /\ UNCHANGED <<registered, inboxVars, mbuffer, restarts, sendVars, done, log>>

\* Mutant of StartInitialized: mbuffer is invoked before Started is sent.
StartBufferFirst(t) == StartReceive(t, "initialize", "Initialized", "initialized", "buffer")

StartInitialized(t) == StartReceive(t, "initialize", "Initialized", "initialized", "started")
StartStarted(t) == StartReceive(t, "started", "Started", "started", "buffer")

\* If we have messages in our buffer, invoke them.
StartBuffer(t) ==
  /\ At(t, "buffer")
  /\ th' = [th EXCEPT ![t] = IF mbuffer # <<>>
              THEN [Frame("invoke") EXCEPT !.msgs = mbuffer, !.depth = th[t].depth + 1]
              ELSE [@ EXCEPT !.pc = "inbox"]]
  /\ UNCHANGED <<registered, inboxVars, mbuffer, restarts, sendVars, done, life, log>>

\* Mutant of StartInbox: inbox.Start without its compare-and-swap.
StartInboxAlways(t) ==
  /\ At(t, "inbox")
  /\ procStatus' = "running"
  /\ th' = WithWorker([th EXCEPT ![t] = Frame(IF t = Spawner THEN "returned" ELSE "loop")])
  /\ UNCHANGED <<registered, queue, mbuffer, restarts, sendVars, done, life, log>>

\* inbox.Start(p) opens a stopped inbox and schedules a goroutine; Start then
\* returns, to a Start that waits for its Invoke or to the goroutine's base.
StartInbox(t) ==
  LET base == Frame(IF t = Spawner THEN "returned" ELSE "loop")
      g == [th EXCEPT ![t] = IF @.depth > 0 THEN [@ EXCEPT !.pc = "invoked"] ELSE base]
  IN
  /\ At(t, "inbox")
  /\ \/ procStatus = "stopped" /\ procStatus' = "running" /\ th' = WithWorker(g)
     \/ procStatus # "stopped" /\ procStatus' = procStatus /\ th' = g
  /\ UNCHANGED <<registered, queue, mbuffer, restarts, sendVars, done, life, log>>

\* Invoke(p.mbuffer) has returned to Start.
StartInvoked(t) ==
  /\ At(t, "invoked")
  /\ th' = [th EXCEPT ![t] = [Frame("inbox") EXCEPT !.depth = th[t].depth - 1]]
  /\ mbuffer' = <<>>
  /\ UNCHANGED <<registered, inboxVars, restarts, sendVars, done, life, log>>

-----------------------------------------------------------------------------
(* inbox.run and Invoke *)

Run(w) ==
  LET k == IF BatchSize < Len(queue) THEN BatchSize ELSE Len(queue) IN
  /\ At(w, "loop")
  /\ \/ /\ procStatus # "stopped" /\ queue # <<>>
        /\ th' = [th EXCEPT ![w] = [Frame("invoke") EXCEPT !.msgs = SubSeq(queue, 1, k)]]
        /\ queue' = SubSeq(queue, k + 1, Len(queue))
        /\ UNCHANGED procStatus
     \/ /\ procStatus = "stopped" \/ queue = <<>>
        /\ th' = [th EXCEPT ![w] = Frame("none")]
        /\ procStatus' = IF procStatus = "running" THEN "idle" ELSE procStatus
        /\ UNCHANGED queue
  /\ UNCHANGED <<registered, mbuffer, restarts, sendVars, done, life, log>>

\* Invoke returns to the Start that called it or to inbox.run.
AfterInvoke(f) ==
  IF f.depth > 0 THEN [Frame("invoked") EXCEPT !.depth = f.depth] ELSE Frame("loop")

\* invokeMsg: Receive of m, which may panic; otherwise the frame becomes f.
InvokeMsg(t, m, f) ==
  /\ log' = Append(log, m)
  /\ th' = [th EXCEPT ![t] = IF m \notin Panics THEN f
              ELSE [f EXCEPT !.pc = "recover",
                             !.err = IF m \in Internal THEN "internal" ELSE "error"]]

\* One turn of the loop: nproc is incremented before the message is handled.
Invoke(t) ==
  LET f == [th[t] EXCEPT !.nproc = @ + 1]
      m == f.msgs[f.nproc]
  IN
  /\ At(t, "invoke")
  /\ \/ /\ th[t].nproc < Len(th[t].msgs)
        /\ \/ m \notin Pills /\ InvokeMsg(t, m, f)
           \/ /\ m \in Pills
              /\ log' = Append(log, m)
              /\ th' = [th EXCEPT ![t] =
                   [f EXCEPT !.cancel = m,
                             !.pc = IF m \in Graceful THEN "drain" ELSE "stopInbox",
                             !.next = f.nproc + 1]]
     \/ /\ th[t].nproc = Len(th[t].msgs)
        /\ th' = [th EXCEPT ![t] = AfterInvoke(@)]
        /\ UNCHANGED log
  /\ UNCHANGED <<registered, inboxVars, mbuffer, restarts, sendVars, done, life>>

\* Mutant of InvokeDrain: the rest of the batch is dropped.
InvokeNoDrain(t) ==
  /\ At(t, "drain") /\ Goto(t, "stopInbox")
  /\ UNCHANGED <<registered, inboxVars, mbuffer, restarts, sendVars, done, life, log>>

\* Mutant of InvokeDrain: return without cleanup.
InvokeDrainReturns(t) ==
  /\ At(t, "drain") /\ th' = [th EXCEPT ![t] = AfterInvoke(@)]
  /\ UNCHANGED <<registered, inboxVars, mbuffer, restarts, sendVars, done, life, log>>

\* A graceful pill: the rest of the batch is handled, other pills suppressed.
\* (The pill itself, first of msgs[processed:], is suppressed too.)
InvokeDrain(t) ==
  LET f == [th[t] EXCEPT !.next = @ + 1]
      m == f.msgs[th[t].next]
  IN
  /\ At(t, "drain")
  /\ \/ /\ th[t].next <= Len(th[t].msgs)
        /\ InvokeMsg(t, m, f)
     \/ /\ th[t].next > Len(th[t].msgs)
        /\ Goto(t, "stopInbox")
        /\ UNCHANGED log
  /\ UNCHANGED <<registered, inboxVars, mbuffer, restarts, sendVars, done, life>>

-----------------------------------------------------------------------------
(* The deferred functions, tryRestart and cleanup *)

\* tryRestart: an InternalError always restarts, any other panic at most
\* MaxRestarts times; then cleanup(nil).
TryRestart(t) ==
  \/ /\ th[t].err = "internal"
     /\ Goto(t, "initialize")
     /\ UNCHANGED restarts
  \/ /\ th[t].err # "internal" /\ restarts = MaxRestarts
     /\ th' = [th EXCEPT ![t].pc = "stopInbox", ![t].cancel = NoCancel]
     /\ UNCHANGED restarts
  \/ /\ th[t].err # "internal" /\ restarts # MaxRestarts
     /\ Goto(t, "initialize")
     /\ restarts' = restarts + 1

\* Mutant of RecoverInvoke: the rest of the batch is not kept.
RecoverDropsRest(t) ==
  /\ At(t, "recover") /\ life' = "stopped" /\ mbuffer' = <<>> /\ TryRestart(t)
  /\ UNCHANGED <<registered, inboxVars, sendVars, done, log>>

\* Invoke recovers: Receive(Stopped), and the messages behind nproc are kept.
RecoverInvoke(t) ==
  /\ At(t, "recover")
  /\ life' = "stopped"
  /\ mbuffer' = Rest(t)
  /\ TryRestart(t)
  /\ UNCHANGED <<registered, inboxVars, sendVars, done, log>>

\* Start recovers: a panic of its receiver, or one that left its Invoke.
RecoverStart(t) ==
  /\ At(t, "recoverStart")
  /\ life' = "stopped"
  /\ TryRestart(t)
  /\ UNCHANGED <<registered, inboxVars, mbuffer, sendVars, done, log>>

CleanupStopInbox(t) ==
  /\ At(t, "stopInbox") /\ Goto(t, "remove")
  /\ procStatus' = "stopped"
  /\ UNCHANGED <<registered, queue, mbuffer, restarts, sendVars, done, life, log>>

\* Mutant of CleanupRemove: the process stays registered.
CleanupKeepRegistered(t) ==
  /\ At(t, "remove") /\ Goto(t, "stopped")
  /\ UNCHANGED <<registered, inboxVars, mbuffer, restarts, sendVars, done, life, log>>

CleanupRemove(t) ==
  /\ At(t, "remove") /\ Goto(t, "stopped")
  /\ registered' = FALSE
  /\ UNCHANGED <<inboxVars, mbuffer, restarts, sendVars, done, life, log>>

CleanupStopped(t) ==
  /\ At(t, "stopped") /\ Goto(t, "cancel")
  /\ life' = "stopped"
  /\ UNCHANGED <<registered, inboxVars, mbuffer, restarts, sendVars, done, log>>

\* The deferred cancel().  Calling a nil function panics: a Start below that
\* waits for its Invoke recovers it, otherwise it leaves the goroutine.
CleanupCancel(t) ==
  /\ At(t, "cancel")
  /\ \/ /\ th[t].cancel # NoCancel
        /\ done' = done \cup {th[t].cancel}
        /\ th' = [th EXCEPT ![t] = AfterInvoke(@)]
     \/ /\ th[t].cancel = NoCancel
        /\ th' = [th EXCEPT ![t] = IF @.depth > 0
                    THEN [Frame("recoverStart") EXCEPT !.depth = th[t].depth - 1]
                    ELSE Frame("escaped")]
        /\ UNCHANGED done
  /\ UNCHANGED <<registered, inboxVars, mbuffer, restarts, sendVars, life, log>>

-----------------------------------------------------------------------------
StartSteps(t) ==
  \/ StartInitialized(t) \/ StartStarted(t) \/ StartBuffer(t)
  \/ StartInbox(t) \/ StartInvoked(t)

InvokeSteps(t) == Invoke(t) \/ InvokeDrain(t) \/ RecoverInvoke(t) \/ RecoverStart(t)

CleanupSteps(t) ==
  \/ CleanupStopInbox(t) \/ CleanupRemove(t) \/ CleanupStopped(t) \/ CleanupCancel(t)

\* A panic that leaves its goroutine ends the program.
Crashed == \E t \in Threads : At(t, "escaped")

Goroutine(t) ==
  /\ ~Crashed
  /\ \/ t = Spawner /\ Add
     \/ t \in Workers /\ Run(t)
     \/ StartSteps(t) \/ InvokeSteps(t) \/ CleanupSteps(t)

\* The rest of a call, once begun.
Sender(m) ==
  /\ ~Crashed
  /\ \/ m \in Pills /\ SendLocal(m)
     \/ Deliver(m)

Next ==
  \/ \E t \in Threads : Goroutine(t)
  \/ \E m \in Msgs : Sender(m)
  \/ ~Crashed /\ \E m \in Msgs : SendPoisonPill(m) \/ (m \notin Pills /\ SendLocal(m))
  \/ ~Crashed /\ ClearMailbox

Spec == Init /\ [][Next]_vars

\* The Go scheduler runs every goroutine that can proceed; nobody is obliged
\* to send anything.
FairSpec ==
  /\ Spec
  /\ \A t \in Threads : WF_vars(Goroutine(t))
  /\ \A m \in Msgs : WF_vars(Sender(m))

-----------------------------------------------------------------------------
(* Properties *)

PCs == {"add", "none", "loop", "returned", "initialize", "started", "buffer", "inbox",
        "invoked", "invoke", "drain", "recover", "recoverStart", "stopInbox", "remove",
        "stopped", "cancel", "escaped"}

FrameType ==
  [pc : PCs,
   msgs : Seq(Msgs), nproc : Nat, next : Nat, cancel : Pills \cup {NoCancel},
   err : {"error", "internal"}, depth : Nat]

\* Every variable holds a value of its Go type, with the queue history.
TypeOK ==
  /\ registered \in BOOLEAN
  /\ queue \in Seq(Msgs) /\ mbuffer \in Seq(Msgs)
  /\ log \in Seq(Msgs) /\ order \in Seq(Msgs)
  /\ procStatus \in {"stopped", "idle", "running"}
  /\ restarts \in 0..MaxRestarts
  /\ th \in [Threads -> FrameType]
  /\ \A t \in Threads : th[t].nproc <= Len(th[t].msgs)
  /\ call \in [Msgs -> {"ready", "checked", "found", "returned"}]
  /\ done \subseteq Pills /\ dead \subseteq Msgs
  /\ life \in {"none", "initialized", "started", "stopped"}

\* The goroutines that execute code of the process or its receiver.
InProcess(t) == th[t].pc \notin {"add", "none", "loop", "inbox", "returned", "escaped"}

Taken(m) == \E i \in 1..Len(log) : log[i] = m
Panicked == \E m \in Panics : Taken(m)
Draining == \E m \in Graceful : Taken(m)
Closing == \E t \in Threads : th[t].pc \in {"stopInbox", "remove", "stopped", "cancel"}

\* Start, Invoke, tryRestart and cleanup are not executed by two goroutines at
\* once, although the spawner and a succession of workers execute them:
\* process.go has no lock, so mbuffer, restarts and context depend on it.
\* (Until a Stop meets a restart, see StoppedForGood.)
OneAtATime ==
  ~(Panicked /\ done # {}) =>
    \A t, u \in Threads : InProcess(t) /\ InProcess(u) => t = u

\* Until it is stopped, Invoke hands a message only to a receiver that Start
\* has sent Started and nobody has sent Stopped since.
OnlyWhileStarted ==
  [][done = {} /\ log' # log => life = "started"]_vars

\* What the process holds outside the inbox: the rest of a batch or mbuffer.
Held(t) == CASE th[t].pc \in {"invoke", "recover"} -> Rest(t)
             [] th[t].pc \in {"initialize", "started", "buffer", "recoverStart"} -> mbuffer
             [] OTHER -> <<>>
Pending ==
  LET holders == {t \in Threads : Held(t) # <<>>}
  IN IF holders = {} THEN <<>> ELSE Held(CHOOSE t \in holders : TRUE)

\* Guaranteed delivery on failure: until a pill is handled, the messages taken,
\* those in Invoke's batch or in mbuffer, and those in the inbox are the
\* accepted messages in their order.  No panic loses, repeats or reorders one.
Conservation ==
  registered /\ ~Closing /\ ~Draining => order = log \o Pending \o queue

\* When a graceful pill shuts the inbox, every message that was accepted
\* before the pill or is in its batch has been handled.
PoisonDrains ==
  \A t \in Threads :
    done = {} /\ th[t].pc = "stopInbox" /\ th[t].cancel \in Graceful =>
      \A i \in 1..(Len(order) - Len(queue)) : Taken(order[i])

\* Unless a panic interfered, when the context of the pill that stopped the
\* process is done, the registry has forgotten the process and its receiver
\* has been sent Stopped; and from then on nothing is handled any more.
DoneMeansStopped ==
  [][/\ (\E m \in done' : Taken(m)') /\ ~Panicked' => ~registered' /\ life' = "stopped"
     /\ done # {} /\ ~Panicked => log' = log]_vars

\* Every message sent is received or a dead letter, through any number of
\* allowed restarts, unless a pill is handled or the program ends; and it
\* ends only after the last allowed restart, when tryRestart has no cancel
\* function to give to cleanup.
Delivery ==
  \A m \in Msgs \ Pills : call[m] = "returned" ~>
    Taken(m) \/ m \in dead \/ (Crashed /\ restarts = MaxRestarts) \/ \E p \in Pills : Taken(p)

\* A message behind a graceful pill has panicked: the pill is not replayed.
DrainPanicked ==
  \E i, j \in 1..Len(log) : i < j /\ log[i] \in Graceful /\ log[j] \in Panics

\* Of any number of Stops and Poisons, one context is eventually done (a single
\* one therefore completes), unless the program ends or a panic interrupts the
\* draining of a graceful pill.
SomePillCompletes ==
  (\E m \in Pills : call[m] # "ready") ~> done # {} \/ Crashed \/ DrainPanicked

-----------------------------------------------------------------------------
(* What comments and documents say without the conditions above. *)

\* "The process will shut down immediately": once a context of Stop or Poison
\* is done, no message is handled (engine.go:250).
StoppedForGood ==
  [][done # {} => log' = log]_vars

\* "we buffer up all the messages that we could not process": Invoke takes no
\* message twice (process.go:72).
AtMostOnce ==
  \A i, j \in 1..Len(log) : log[i] = log[j] => i = j

\* "A context is returned that can be used to block / wait until the process
\* is stopped": every context is eventually done (engine.go:258).
PillCompletes ==
  \A m \in Pills : call[m] # "ready" ~> m \in done
=============================================================================
