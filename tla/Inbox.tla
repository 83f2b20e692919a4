------------------------------- MODULE Inbox -------------------------------
(***************************************************************************)
(* actor/inbox.go: the lock-free scheduling protocol of an inbox.  Any      *)
(* number of goroutines call Send and SendPriority, Stop and Clear; the     *)
(* goroutine that spawns the owner calls Start, and so does every restart   *)
(* of the owner, from inside the Invoke that a goroutine running process()  *)
(* is in (process.go:144).  Such a goroutine exists only while there is     *)
(* work.  Every atomic operation on procStatus and every call on the ring   *)
(* buffer (a Deque, see RingBuffer.tla) is a step of its own.               *)
(***************************************************************************)
EXTENDS Integers, Sequences, FiniteSets

CONSTANTS Msgs,        \* one message for each call of Send or SendPriority
          Priority,    \* the messages sent with SendPriority
          Workers,     \* bound: goroutines in process() at the same time
          Spawner,     \* the goroutine that makes the first call of Start
          BatchSize,   \* messageBatchSize
          MaxStarts    \* bound: calls of Start

Callers == Workers \union {Spawner}

ASSUME PriorityAssumption == Priority \subseteq Msgs
ASSUME SpawnerAssumption == Spawner \notin Workers
ASSUME BatchAssumption == BatchSize \in Nat \ {0}
ASSUME StartsAssumption == MaxStarts \in Nat

VARIABLES queue,       \* in.rb
          procStatus,
          proc,        \* whether in.proc is set
          call,        \* where the call that sends a message is
          start,       \* where each caller is in its call of Start
          starts,      \* how often Start has been called
          opened,      \* history: the calls of Start whose compare-and-swap succeeded
          go,          \* where each goroutine in process() is
          batch,       \* the msgs each goroutine has popped, not yet invoked
          delivered    \* history: the messages invoked, in order

vars == <<queue, procStatus, proc, call, start, starts, opened, go, batch, delivered>>

Init ==
  /\ queue = <<>>
  /\ procStatus = "stopped"
  /\ proc = FALSE
  /\ call = [m \in Msgs |-> "ready"]
  /\ start = [c \in Callers |-> IF c = Spawner THEN "cas" ELSE "done"]
  /\ starts = 1
  /\ opened = 0
  /\ go = [w \in Workers |-> "none"]
  /\ batch = [w \in Workers |-> <<>>]
  /\ delivered = <<>>

-----------------------------------------------------------------------------
(* schedule() *)

\* Goroutines are interchangeable, so which free entry of g a new one gets does
\* not matter.
Fresh(g) == CHOOSE w \in Workers : g[w] = "none"

\* Mutant of Schedule: a running inbox is scheduled again.
ScheduleAlways(g) ==
  IF procStatus \in {"idle", "running"}
  THEN /\ procStatus' = "running"
       /\ (\E w \in Workers : g[w] = "none") /\ go' = [g EXCEPT ![Fresh(g)] = "load"]
  ELSE procStatus' = procStatus /\ go' = g

\* The compare-and-swap and, when it succeeds, the new goroutine; at most one
\* goroutine is added to g, the goroutines as the caller leaves them.
Schedule(g) ==
  \/ /\ procStatus = "idle"
     /\ procStatus' = "running"
     /\ (\E w \in Workers : g[w] = "none") /\ go' = [g EXCEPT ![Fresh(g)] = "load"]
  \/ /\ procStatus # "idle"
     /\ procStatus' = procStatus
     /\ go' = g

(* Send and SendPriority *)

Send(m) ==
  /\ m \notin Priority
  /\ call[m] = "ready" /\ call' = [call EXCEPT ![m] = "pushed"]
  /\ queue' = Append(queue, m)
  /\ UNCHANGED <<procStatus, proc, start, starts, opened, go, batch, delivered>>

SendPriority(m) ==
  /\ m \in Priority
  /\ call[m] = "ready" /\ call' = [call EXCEPT ![m] = "pushed"]
  /\ queue' = <<m>> \o queue
  /\ UNCHANGED <<procStatus, proc, start, starts, opened, go, batch, delivered>>

SendSchedule(m) ==
  /\ call[m] = "pushed" /\ call' = [call EXCEPT ![m] = "returned"]
  /\ Schedule(go)
  /\ UNCHANGED <<queue, proc, start, starts, opened, batch, delivered>>

(* Start *)

StartCAS(c) ==
  /\ start[c] = "cas"
  /\ \/ /\ procStatus = "stopped"
        /\ procStatus' = "starting" /\ opened' = opened + 1
        /\ start' = [start EXCEPT ![c] = "proc"]
     \/ /\ procStatus # "stopped"
        /\ start' = [start EXCEPT ![c] = "done"]
        /\ UNCHANGED <<procStatus, opened>>
  /\ UNCHANGED <<queue, proc, call, starts, go, batch, delivered>>

StartProc(c) ==
  /\ start[c] = "proc" /\ start' = [start EXCEPT ![c] = "swap"]
  /\ proc' = TRUE
  /\ UNCHANGED <<queue, procStatus, call, starts, opened, go, batch, delivered>>

StartSwap(c) ==
  /\ start[c] = "swap" /\ start' = [start EXCEPT ![c] = "schedule"]
  /\ procStatus' = "idle"
  /\ UNCHANGED <<queue, proc, call, starts, opened, go, batch, delivered>>

StartSchedule(c) ==
  /\ start[c] = "schedule" /\ start' = [start EXCEPT ![c] = "done"]
  /\ Schedule(go)
  /\ UNCHANGED <<queue, proc, call, starts, opened, batch, delivered>>

(* run() and process() *)

\* run() looks at procStatus when it begins and whenever Invoke has returned.
AtLoop(w) ==
  \/ go[w] = "load"
  \/ go[w] = "invoke" /\ start[w] = "done" /\ batch[w] = <<>>

\* Mutant of RunLoad: run() does not look at procStatus.
RunLoadAlways(w) ==
  /\ AtLoop(w) /\ go' = [go EXCEPT ![w] = "pop"]
  /\ UNCHANGED <<queue, procStatus, proc, call, start, starts, opened, batch, delivered>>

RunLoad(w) ==
  /\ AtLoop(w)
  /\ go' = [go EXCEPT ![w] = IF procStatus # "stopped" THEN "pop" ELSE "cas"]
  /\ UNCHANGED <<queue, procStatus, proc, call, start, starts, opened, batch, delivered>>

RunPop(w) ==
  LET k == IF BatchSize < Len(queue) THEN BatchSize ELSE Len(queue) IN
  /\ go[w] = "pop"
  /\ \/ /\ queue # <<>>
        /\ batch' = [batch EXCEPT ![w] = SubSeq(queue, 1, k)]
        /\ queue' = SubSeq(queue, k + 1, Len(queue))
        /\ go' = [go EXCEPT ![w] = "invoke"]
     \/ /\ queue = <<>>
        /\ go' = [go EXCEPT ![w] = "cas"]
        /\ UNCHANGED <<batch, queue>>
  /\ UNCHANGED <<procStatus, proc, call, start, starts, opened, delivered>>

\* in.proc.Invoke(msgs), one message at a time.
RunInvoke(w) ==
  /\ go[w] = "invoke" /\ start[w] = "done" /\ batch[w] # <<>>
  /\ delivered' = Append(delivered, Head(batch[w]))
  /\ batch' = [batch EXCEPT ![w] = Tail(@)]
  /\ UNCHANGED <<queue, procStatus, proc, call, start, starts, opened, go>>

\* Inside Invoke the owner is restarted, and process.Start ends with a call of
\* inbox.Start, whether or not a cleanup has stopped the inbox before.
InvokeStart(w) ==
  /\ go[w] = "invoke" /\ start[w] = "done"
  /\ starts < MaxStarts /\ starts' = starts + 1
  /\ start' = [start EXCEPT ![w] = "cas"]
  /\ UNCHANGED <<queue, procStatus, proc, call, opened, go, batch, delivered>>

ProcessCAS(w) ==
  /\ go[w] = "cas"
  /\ \/ /\ procStatus = "running"
        /\ procStatus' = "idle"
        /\ go' = [go EXCEPT ![w] = "len"]
     \/ /\ procStatus # "running"
        /\ go' = [go EXCEPT ![w] = "none"]
        /\ UNCHANGED procStatus
  /\ UNCHANGED <<queue, proc, call, start, starts, opened, batch, delivered>>

\* Mutant of ProcessLen: the buffer is not looked at again.
ProcessNoLen(w) ==
  /\ go[w] = "len" /\ go' = [go EXCEPT ![w] = "none"]
  /\ UNCHANGED <<queue, procStatus, proc, call, start, starts, opened, batch, delivered>>

ProcessLen(w) ==
  /\ go[w] = "len"
  /\ go' = [go EXCEPT ![w] = IF queue # <<>> THEN "schedule" ELSE "none"]
  /\ UNCHANGED <<queue, procStatus, proc, call, start, starts, opened, batch, delivered>>

\* The caller has nothing left to do: its own entry is free for the new one.
ProcessSchedule(w) ==
  /\ go[w] = "schedule"
  /\ Schedule([go EXCEPT ![w] = "none"])
  /\ UNCHANGED <<queue, proc, call, start, starts, opened, batch, delivered>>

(* Stop and Clear *)

\* The owners of an inbox call Stop only after the first Start has made it
\* idle: process.cleanup runs in a goroutine of process(), or before Start in
\* the spawner, when Stop changes nothing; streamWriter.Shutdown after
\* streamWriter.Start has started the inbox.
Stop ==
  /\ start[Spawner] \in {"schedule", "done"}
  /\ procStatus' = "stopped"
  /\ UNCHANGED <<queue, proc, call, start, starts, opened, go, batch, delivered>>

Clear ==
  /\ queue' = <<>>
  /\ UNCHANGED <<procStatus, proc, call, start, starts, opened, go, batch, delivered>>

-----------------------------------------------------------------------------
Start(c) == StartCAS(c) \/ StartProc(c) \/ StartSwap(c) \/ StartSchedule(c)

Process(w) ==
  \/ RunLoad(w) \/ RunPop(w) \/ RunInvoke(w)
  \/ ProcessCAS(w) \/ ProcessLen(w) \/ ProcessSchedule(w)

Next ==
  \/ \E m \in Msgs : Send(m) \/ SendPriority(m) \/ SendSchedule(m)
  \/ \E c \in Callers : Start(c)
  \/ \E w \in Workers : Process(w) \/ InvokeStart(w)
  \/ Stop
  \/ Clear

Spec == Init /\ [][Next]_vars

\* The Go scheduler runs every goroutine that can proceed; nobody is obliged
\* to send, to restart, to stop or to clear.
FairSpec ==
  /\ Spec
  /\ \A m \in Msgs : WF_vars(SendSchedule(m))
  /\ \A c \in Callers : WF_vars(Start(c))
  /\ \A w \in Workers : WF_vars(Process(w))

-----------------------------------------------------------------------------
TypeOK ==
  /\ queue \in Seq(Msgs)
  /\ procStatus \in {"stopped", "starting", "idle", "running"}
  /\ proc \in BOOLEAN
  /\ call \in [Msgs -> {"ready", "pushed", "returned"}]
  /\ start \in [Callers -> {"cas", "proc", "swap", "schedule", "done"}]
  /\ starts \in Nat
  /\ opened \in Nat
  /\ go \in [Workers -> {"none", "load", "pop", "invoke", "cas", "len", "schedule"}]
  /\ batch \in [Workers -> Seq(Msgs)]
  /\ delivered \in Seq(Msgs)

\* A goroutine owns the inbox from its start to its compare-and-swap to idle.
Owner(w) == go[w] \in {"load", "pop", "invoke", "cas"}

\* A call of Start that has left "stopped" and has not yet made the inbox idle.
Opening(c) == start[c] \in {"proc", "swap"}

(* How many goroutines pop and invoke at the same time: never more than the    *)
(* calls of Start that found the inbox stopped, however Send, Start, Stop and  *)
(* the end of process() interleave.  An inbox that is not started again after  *)
(* a Stop so has one consumer, and its actor handles one message at a time; a  *)
(* restart after a Stop (process.go:144 after process.go:198) may add one.     *)
RunnersBounded == Cardinality({w \in Workers : Owner(w)}) <= opened

(* A message pushed between the last PopN of run() and the transition to idle *)
(* is not forgotten: an idle inbox holds messages only while somebody is       *)
(* about to call schedule() (inbox.go:83).                                     *)
NoLostWakeup ==
  procStatus = "idle" /\ queue # <<>> =>
    \/ \E m \in Msgs : call[m] = "pushed"
    \/ \E w \in Workers : go[w] \in {"len", "schedule"}
    \/ \E c \in Callers : start[c] = "schedule"

(* "no race condition on in.proc" (inbox.go:107): in.proc is set when a        *)
(* goroutine that uses it exists, and is written again only by a Start that    *)
(* found the inbox stopped a second time.                                      *)
ProcBeforeRun ==
  (\E w \in Workers : go[w] # "none") =>
    proc /\ (opened < 2 => \A c \in Callers : start[c] # "proc")

(* Stop is undone by Start alone: with no Start on its way to idle, neither    *)
(* the end of process() nor a racing schedule() takes a stopped inbox back to  *)
(* idle or running; only a new Start that finds it stopped leaves the state.   *)
StopIsFinal ==
  [][procStatus = "stopped" /\ (\A c \in Callers : ~ Opening(c))
       => procStatus' = "stopped" \/ opened' = opened + 1]_vars

(* Every message waiting in an inbox that is not stopped is taken out of it.   *)
EventuallyTaken ==
  \A m \in Msgs :
    (\E i \in DOMAIN queue : queue[i] = m)
      ~> \/ ~ \E i \in DOMAIN queue : queue[i] = m
         \/ opened > 0 /\ procStatus = "stopped"

-----------------------------------------------------------------------------
(* Refinement of Mailbox: each goroutine is a consumer; the mailbox is closed  *)
(* once the inbox is stopped, no Start is on its way to idle and no goroutine  *)
(* has passed its look at procStatus on the way to PopN.                       *)
Phase ==
  IF opened = 0 THEN "new"
  ELSE IF /\ procStatus = "stopped"
          /\ ~ \E w \in Workers : go[w] = "pop"
          /\ ~ \E c \in Callers : Opening(c)
       THEN "closed" ELSE "open"

M == INSTANCE Mailbox WITH Consumers <- Workers, hands <- batch, state <- Phase

(* The inbox is a mailbox: no message is taken twice, lost or reordered,       *)
(* nothing is taken before Start, after Stop at most the batches that          *)
(* goroutines were already about to pop until Start opens it again, and there  *)
(* is one consumer for each time it was opened.                                *)
ImplementsMailbox == M!Spec
=============================================================================
