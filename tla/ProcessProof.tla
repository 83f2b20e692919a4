---------------------------- MODULE ProcessProof ----------------------------
(***************************************************************************)
(* Proofs about Process, for any messages, pills, panics, bounds and any    *)
(* number of goroutines.                                                    *)
(***************************************************************************)
EXTENDS Process, TLAPS

\* The goroutines that are not at rest.
Active(t) == th[t].pc \notin {"none", "returned"}

\* A Stop has met a restart: from then on nothing is claimed.
Disrupted == Panicked /\ done # {} /\ ~registered

\* The inbox: the end of order is what is queued.
QueueTail ==
  /\ Len(queue) <= Len(order)
  /\ \A i \in 1..Len(queue) : order[Len(order) - Len(queue) + i] = queue[i]

\* What the process has been given was sent, and that call has returned.
Sent ==
  /\ \A i \in 1..Len(queue) : call[queue[i]] = "returned"
  /\ \A i \in 1..Len(mbuffer) : call[mbuffer[i]] = "returned"
  /\ \A i \in 1..Len(log) : call[log[i]] = "returned"
  /\ \A t \in Threads : \A i \in 1..Len(th[t].msgs) : call[th[t].msgs[i]] = "returned"

\* Only the spawner executes Registry.add, first, and only Start waits for an Invoke.
\* The loop of a graceful pill begins behind the pill.
Places ==
  /\ \A w \in Workers : th[w].pc \notin {"add", "returned"}
  /\ At(Spawner, "add") => log = <<>>
  /\ \A t \in Threads :
       /\ At(t, "invoked") => th[t].depth > 0
       /\ At(t, "drain") => Draining /\ th[t].next > th[t].nproc /\ th[t].cancel \in Graceful

\* One goroutine at a time, and none while the inbox is idle.
Alone ==
  /\ \A t, u \in Threads : Active(t) /\ Active(u) => t = u
  /\ procStatus = "idle" => \A t \in Threads : ~Active(t)

\* A context is cancelled, and the inbox open, on either side of Remove.
Removal ==
  /\ registered => done = {}
  /\ procStatus # "stopped" => registered
  /\ (\E m \in done : Taken(m)) => life = "stopped"

\* The spawner executes Start with nothing to invoke; a worker executes it
\* after a panic only.
Role(t) ==
  IF t = Spawner
  THEN /\ th[t].pc \notin {"loop", "invoke", "invoked", "drain", "recover"}
       /\ th[t].depth = 0 /\ th[t].cancel = NoCancel
       /\ mbuffer = <<>> /\ procStatus = "stopped"
  ELSE \/ th[t].pc \in {"initialize", "started", "buffer", "inbox", "invoked",
                        "recoverStart", "recover"}
       \/ th[t].depth > 0
       => Panicked

\* A cleanup(nil) after the last restart, and how it leaves the goroutine: a
\* Start that waits for its Invoke recovers the panic and cleans up again.
Unwinding(t) ==
  /\ Panicked
  /\ \/ th[t].pc \in {"stopInbox", "remove"} /\ th[t].cancel = NoCancel
     \/ At(t, "recoverStart") /\ th[t].err = "error" /\ restarts = MaxRestarts

\* cleanup: inbox.Stop, Remove, Stopped and cancel, in this order.
Phase(t) ==
  /\ At(t, "add") => /\ ~registered /\ done = {}
                     /\ order = <<>> /\ log = <<>> /\ queue = <<>>
                     /\ \A m \in Msgs : call[m] = "ready"
  /\ th[t].pc \in {"stopInbox", "remove", "stopped", "cancel"} /\ th[t].cancel = NoCancel =>
       restarts = MaxRestarts
  /\ At(t, "remove") => procStatus = "stopped"
  /\ registered => /\ th[t].pc \notin {"stopped", "cancel", "escaped"}
                   /\ procStatus = "stopped" /\ t # Spawner => At(t, "remove")
  /\ ~registered => \/ th[t].pc \in {"add", "stopped", "cancel", "escaped"}
                    \/ done = {} /\ Unwinding(t)
                    \/ done # {} /\ At(t, "loop")

\* The receiver that is handed messages has been sent Started, and the one
\* whose cleanup is over has been sent Stopped.
LifeOf(t) ==
  /\ done = {} /\ th[t].pc \in {"buffer", "inbox", "invoke", "drain", "loop", "invoked"} =>
       life = "started"
  /\ At(t, "cancel") => life = "stopped"

\* Conservation, for the goroutine that is active.
Conserves(t) ==
  registered /\ th[t].pc \notin {"stopInbox", "remove"} /\ ~Draining =>
    order = log \o Held(t) \o queue

\* What the goroutine still has to hand over.
Owes(t, m) ==
  \/ /\ th[t].pc \in {"invoke", "recover"}
     /\ \E j \in (th[t].nproc + 1)..Len(th[t].msgs) : th[t].msgs[j] = m
  \/ /\ At(t, "drain")
     /\ \E j \in th[t].next..Len(th[t].msgs) : th[t].msgs[j] = m
  \/ /\ th[t].pc \in {"initialize", "started", "buffer", "recoverStart"}
     /\ \E j \in 1..Len(mbuffer) : mbuffer[j] = m

\* Whether the goroutine is in a cleanup that drops the rest of its batch.
Dropping(t) == At(t, "remove") \/ (At(t, "stopInbox") /\ th[t].cancel \notin Graceful)

\* Nothing that has left the inbox is forgotten.
Covers(t) ==
  registered /\ ~Dropping(t) =>
    \A i \in 1..(Len(order) - Len(queue)) : Taken(order[i]) \/ Owes(t, order[i])

Good(t) == Role(t) /\ Phase(t) /\ LifeOf(t) /\ Conserves(t) /\ Covers(t)

\* Between two runs of the inbox.
Quiet ==
  registered =>
    /\ life = "started"
    /\ ~Draining => order = log \o queue
    /\ \A i \in 1..(Len(order) - Len(queue)) : Taken(order[i])

Calm ==
  /\ Alone /\ Removal
  /\ \A t \in Threads : Active(t) => Good(t)
  /\ (\A t \in Threads : ~Active(t)) => Quiet

\* Everything that needs one goroutine at a time ends with a disruption.
IInv == TypeOK /\ QueueTail /\ Sent /\ Places /\ (~Disrupted => Calm)

-----------------------------------------------------------------------------
\* A new frame.
LEMMA FrameTyped ==
  ASSUME NEW pc \in PCs
  PROVE  /\ Frame(pc) \in FrameType
         /\ Frame(pc).pc = pc /\ Frame(pc).msgs = <<>> /\ Frame(pc).nproc = 0
         /\ Frame(pc).cancel = NoCancel /\ Frame(pc).err = "error" /\ Frame(pc).depth = 0
BY DEF Frame, FrameType, PCs

\* A frame of which the pc is changed.
LEMMA PcTyped ==
  ASSUME NEW f \in FrameType, NEW pc \in PCs
  PROVE  /\ [f EXCEPT !.pc = pc] \in FrameType
         /\ [f EXCEPT !.pc = pc].pc = pc
         /\ [f EXCEPT !.pc = pc].msgs = f.msgs /\ [f EXCEPT !.pc = pc].nproc = f.nproc
         /\ [f EXCEPT !.pc = pc].next = f.next /\ [f EXCEPT !.pc = pc].cancel = f.cancel
         /\ [f EXCEPT !.pc = pc].err = f.err /\ [f EXCEPT !.pc = pc].depth = f.depth
BY Zenon DEF FrameType, PCs

\* What a step of a goroutine does to the frames.
LEMMA StepTyped ==
  ASSUME TypeOK, NEW t \in Threads, NEW f \in FrameType, f.nproc <= Len(f.msgs),
         th' = [th EXCEPT ![t] = f]
  PROVE  /\ th' \in [Threads -> FrameType]
         /\ th'[t] = f /\ \A u \in Threads \ {t} : th'[u] = th[u]
         /\ \A u \in Threads : th'[u].nproc <= Len(th'[u].msgs)
BY Zenon DEF TypeOK

\* Histories only grow.
LEMMA SameLog ==
  ASSUME log' = log
  PROVE  /\ Panicked' = Panicked /\ Draining' = Draining /\ \A m : Taken(m)' = Taken(m)
BY Zenon DEF Panicked, Draining, Taken

\* A step that hands nothing over and neither cancels nor removes.
LEMMA SameScope ==
  ASSUME log' = log, done' = done, registered' = registered
  PROVE  /\ Panicked' = Panicked /\ Draining' = Draining /\ \A m : Taken(m)' = Taken(m)
         /\ Disrupted' = Disrupted
BY SameLog DEF Disrupted

LEMMA LongerLog ==
  ASSUME TypeOK, NEW m \in Msgs, log' = Append(log, m)
  PROVE  /\ log' \in Seq(Msgs)
         /\ \A x : Taken(x)' <=> Taken(x) \/ x = m
         /\ Panicked' <=> Panicked \/ m \in Panics
         /\ Draining' <=> Draining \/ m \in Graceful
<1>1. log \in Seq(Msgs)
  BY Zenon DEF TypeOK
<1>2. /\ Len(log') = Len(log) + 1 /\ log' \in Seq(Msgs) /\ Len(log) \in Nat
      /\ \A i \in 1..Len(log) : log'[i] = log[i] 
      /\ log'[Len(log) + 1] = m
  BY <1>1
<1>3. \A x : Taken(x)' <=> Taken(x) \/ x = m
  BY <1>2 DEF Taken
<1> QED BY <1>2, <1>3, Zenon DEF Panicked, Draining
\* While one goroutine is at a time, what is known of the one that is active.
LEMMA InScope ==
  ASSUME IInv, ~Disrupted, NEW t \in Threads, Active(t)
  PROVE  /\ Good(t) /\ Removal /\ procStatus # "idle"
         /\ \A u \in Threads \ {t} : ~Active(u)
BY Zenon DEF IInv, Calm, Alone

\* A step of the active goroutine.
LEMMA Move ==
  ASSUME IInv, NEW t \in Threads, Active(t), TypeOK', QueueTail', Sent',
         \A u \in Threads \ {t} : th'[u] = th[u],
         th'[t].pc # "add", t # Spawner => th'[t].pc # "returned",
         th'[t].pc = "invoked" => th'[t].depth > 0,
         th'[t].pc = "drain" =>
           Draining' /\ th'[t].next > th'[t].nproc /\ th'[t].cancel \in Graceful,
         Draining => Draining', Disrupted => Disrupted',
         ~Disrupted' => /\ Removal'
                        /\ Active(t)' => procStatus' # "idle" /\ Good(t)'
                        /\ ~Active(t)' => Quiet'
  PROVE  IInv'
<1>1. Places'
  <2>1. Spawner \in Threads /\ Workers \subseteq Threads /\ Spawner \notin Workers
    BY BoundAssumption, Zenon DEF Threads, Spawner
  <2>2. ~At(Spawner, "add")'
    <3>1. SUFFICES ASSUME t # Spawner, At(Spawner, "add") PROVE FALSE
      BY <2>1, Zenon DEF At
    <3>2. log = <<>>
      BY <3>1, Zenon DEF IInv, Places
    <3>3. ~Disrupted
      BY <3>2 DEF Disrupted, Panicked, Taken
    <3> QED BY <2>1, <3>1, <3>3, InScope, Zenon DEF Active, At
  <2> QED BY <2>1, <2>2, Zenon DEF IInv, Places, At
<1>2. ASSUME ~Disrupted' PROVE Calm'
  <2>1. \A u \in Threads \ {t} : ~Active(u)'
    BY <1>2, InScope, Zenon DEF Active
  <2>2. Alone'
    BY <1>2, <2>1, Zenon DEF Alone
  <2> QED BY <1>2, <2>1, <2>2, Zenon DEF Calm
<1> QED BY <1>1, <1>2, Zenon DEF IInv

\* A step that leaves what has been received where it is.
LEMMA SameData ==
  ASSUME IInv, NEW t \in Threads, \A u \in Threads \ {t} : th'[u] = th[u],
         UNCHANGED <<call, queue, order, mbuffer, log>>,
         th'[t].msgs = th[t].msgs \/ th'[t].msgs = <<>>
  PROVE  QueueTail' /\ Sent'
<1>1. QueueTail'
  BY Zenon DEF IInv, QueueTail
<1>2. \A u \in Threads : th'[u].msgs = th[u].msgs \/ th'[u].msgs = <<>>
  BY Zenon
<1>3. \A u \in Threads : \A i \in 1..Len(th'[u].msgs) : call[th'[u].msgs[i]] = "returned"
  BY <1>2 DEF IInv, Sent
<1> QED BY <1>1, <1>3, Zenon DEF IInv, Sent

\* The frames after a step that changes a pc.
LEMMA GotoFrames ==
  ASSUME TypeOK, NEW t \in Threads, NEW pc \in PCs, Goto(t, pc)
  PROVE  /\ th' \in [Threads -> FrameType] /\ th[t] \in FrameType
         /\ \A u \in Threads \ {t} : th'[u] = th[u]
         /\ \A u \in Threads : th'[u].nproc <= Len(th'[u].msgs)
         /\ th'[t].pc = pc
         /\ th'[t].msgs = th[t].msgs /\ th'[t].nproc = th[t].nproc
         /\ th'[t].next = th[t].next /\ th'[t].cancel = th[t].cancel
         /\ th'[t].err = th[t].err /\ th'[t].depth = th[t].depth
<1>1. th \in [Threads -> FrameType] /\ \A u \in Threads : th[u].nproc <= Len(th[u].msgs)
  BY Zenon DEF TypeOK
<1> DEFINE f == [th[t] EXCEPT !.pc = pc]
<1>2. f \in FrameType /\ th[t] \in FrameType
  BY <1>1, PcTyped, Zenon
<1>3. th' = [th EXCEPT ![t] = f]
  BY Zenon DEF Goto
<1>4. /\ f.pc = pc /\ f.msgs = th[t].msgs /\ f.nproc = th[t].nproc /\ f.next = th[t].next
      /\ f.cancel = th[t].cancel /\ f.err = th[t].err /\ f.depth = th[t].depth
  BY <1>2, PcTyped, Zenon
<1>5. f.nproc <= Len(f.msgs)
  BY <1>1, <1>4, Zenon
<1> HIDE DEF f
<1> QED BY <1>1, <1>2, <1>3, <1>4, <1>5, StepTyped, Zenon

LEMMA CleanupStopInboxStep ==
  ASSUME IInv, NEW t \in Threads, CleanupStopInbox(t)
  PROVE  IInv'
<1>1. TypeOK BY Zenon DEF IInv
<1>2. /\ th[t].pc = "stopInbox" /\ Goto(t, "remove") /\ procStatus' = "stopped"
      /\ UNCHANGED <<registered, queue, mbuffer, restarts, sendVars, done, life, log>>
  BY Zenon DEF CleanupStopInbox, At
<1>3. /\ th' \in [Threads -> FrameType] /\ th[t] \in FrameType
      /\ \A u \in Threads \ {t} : th'[u] = th[u]
      /\ \A u \in Threads : th'[u].nproc <= Len(th'[u].msgs)
      /\ th'[t].pc = "remove" /\ th'[t].msgs = th[t].msgs /\ th'[t].cancel = th[t].cancel
      /\ th'[t].depth = th[t].depth
  BY <1>1, <1>2, GotoFrames, Zenon DEF PCs
<1>4. TypeOK'
  BY <1>1, <1>2, <1>3, Zenon DEF TypeOK, sendVars
<1>5. QueueTail' /\ Sent'
  BY <1>2, <1>3, SameData, Zenon DEF sendVars
<1>6. /\ Panicked' = Panicked /\ Draining' = Draining /\ \A m : Taken(m)' = Taken(m)
      /\ Disrupted' = Disrupted
  BY <1>2, SameScope, Zenon
<1>7. Active(t) /\ Active(t)'
  BY <1>2, <1>3, Zenon DEF Active
<1>8. ASSUME ~Disrupted' PROVE Removal' /\ Good(t)'
  <2>1. Good(t) /\ Removal
    BY <1>6, <1>7, <1>8, InScope, Zenon
  <2>2. Removal'
    BY <1>2, <1>6, <2>1, Zenon DEF Removal
  <2>3. Role(t)'
    BY <1>2, <1>3, <1>6, <2>1, Zenon DEF Good, Role
  <2>4. Phase(t)'
    BY <1>2, <1>3, <1>6, <2>1, Zenon DEF Good, Phase, Unwinding, At
  <2>5. LifeOf(t)' /\ Conserves(t)' /\ Covers(t)'
    BY <1>3, Zenon DEF LifeOf, Conserves, Covers, Dropping, At
  <2> QED BY <2>2, <2>3, <2>4, <2>5, Zenon DEF Good
<1> QED BY <1>2, <1>3, <1>4, <1>5, <1>6, <1>7, <1>8, Move, Zenon
LEMMA CleanupRemoveStep ==
  ASSUME IInv, NEW t \in Threads, CleanupRemove(t)
  PROVE  IInv'
<1>1. TypeOK BY Zenon DEF IInv
<1>2. /\ th[t].pc = "remove" /\ Goto(t, "stopped") /\ registered' = FALSE
      /\ UNCHANGED <<inboxVars, mbuffer, restarts, sendVars, done, life, log>>
  BY Zenon DEF CleanupRemove, At
<1>3. /\ th' \in [Threads -> FrameType] /\ th[t] \in FrameType
      /\ \A u \in Threads \ {t} : th'[u] = th[u]
      /\ \A u \in Threads : th'[u].nproc <= Len(th'[u].msgs)
      /\ th'[t].pc = "stopped" /\ th'[t].msgs = th[t].msgs /\ th'[t].cancel = th[t].cancel
      /\ th'[t].depth = th[t].depth
  BY <1>1, <1>2, GotoFrames, Zenon DEF PCs
<1>4. TypeOK'
  BY <1>1, <1>2, <1>3, Zenon DEF TypeOK, sendVars, inboxVars
<1>5. QueueTail' /\ Sent'
  BY <1>2, <1>3, SameData, Zenon DEF sendVars, inboxVars
<1>6. /\ Panicked' = Panicked /\ Draining' = Draining /\ \A m : Taken(m)' = Taken(m)
      /\ Disrupted => Disrupted'
  BY <1>2, SameLog DEF Disrupted
<1>7. Active(t) /\ Active(t)'
  BY <1>2, <1>3, Zenon DEF Active
<1>8. ASSUME ~Disrupted' PROVE Removal' /\ procStatus' # "idle" /\ Good(t)'
  <2>1. Good(t) /\ Removal
    BY <1>6, <1>7, <1>8, InScope, Zenon
  <2>2. procStatus = "stopped"
    BY <1>2, <2>1, Zenon DEF Good, Phase, At
  <2>3. Removal'
    BY <1>2, <1>6, <2>1, <2>2, Zenon DEF Removal, inboxVars
  <2>4. Role(t)'
    BY <1>2, <1>3, <1>6, <2>1, Zenon DEF Good, Role, inboxVars
  <2>5. Phase(t)'
    BY <1>2, <1>3, <1>6, <2>1, Zenon DEF Good, Phase, Unwinding, At, inboxVars
  <2>6. LifeOf(t)' /\ Conserves(t)' /\ Covers(t)'
    BY <1>2, <1>3, Zenon DEF LifeOf, Conserves, Covers, At
  <2> QED BY <1>2, <2>2, <2>3, <2>4, <2>5, <2>6, Zenon DEF Good, inboxVars
<1> QED BY <1>2, <1>3, <1>4, <1>5, <1>6, <1>7, <1>8, Move, Zenon

LEMMA CleanupStoppedStep ==
  ASSUME IInv, NEW t \in Threads, CleanupStopped(t)
  PROVE  IInv'
<1>1. TypeOK BY Zenon DEF IInv
<1>2. /\ th[t].pc = "stopped" /\ Goto(t, "cancel") /\ life' = "stopped"
      /\ UNCHANGED <<registered, inboxVars, mbuffer, restarts, sendVars, done, log>>
  BY Zenon DEF CleanupStopped, At
<1>3. /\ th' \in [Threads -> FrameType] /\ th[t] \in FrameType
      /\ \A u \in Threads \ {t} : th'[u] = th[u]
      /\ \A u \in Threads : th'[u].nproc <= Len(th'[u].msgs)
      /\ th'[t].pc = "cancel" /\ th'[t].msgs = th[t].msgs /\ th'[t].cancel = th[t].cancel
      /\ th'[t].depth = th[t].depth
  BY <1>1, <1>2, GotoFrames, Zenon DEF PCs
<1>4. TypeOK'
  BY <1>1, <1>2, <1>3, Zenon DEF TypeOK, sendVars, inboxVars
<1>5. QueueTail' /\ Sent'
  BY <1>2, <1>3, SameData, Zenon DEF sendVars, inboxVars
<1>6. /\ Panicked' = Panicked /\ Draining' = Draining /\ \A m : Taken(m)' = Taken(m)
      /\ Disrupted' = Disrupted
  BY <1>2, SameScope, Zenon
<1>7. Active(t) /\ Active(t)'
  BY <1>2, <1>3, Zenon DEF Active
<1>8. ASSUME ~Disrupted' PROVE Removal' /\ procStatus' # "idle" /\ Good(t)'
  <2>1. Good(t) /\ Removal /\ procStatus # "idle"
    BY <1>6, <1>7, <1>8, InScope, Zenon
  <2>2. Removal'
    BY <1>2, <1>6, <2>1, Zenon DEF Removal, inboxVars
  <2>3. Role(t)'
    BY <1>2, <1>3, <1>6, <2>1, Zenon DEF Good, Role, inboxVars
  <2>4. Phase(t)' /\ ~registered'
    BY <1>2, <1>3, <1>6, <2>1, Zenon DEF Good, Phase, Unwinding, At, inboxVars
  <2>5. LifeOf(t)' /\ Conserves(t)' /\ Covers(t)'
    BY <1>2, <1>3, <2>4, Zenon DEF LifeOf, Conserves, Covers, At
  <2> QED BY <1>2, <2>1, <2>2, <2>3, <2>4, <2>5, Zenon DEF Good, inboxVars
<1> QED BY <1>2, <1>3, <1>4, <1>5, <1>6, <1>7, <1>8, Move, Zenon
\* A frame of which the pc and the recovered value, or the pc and the argument
\* of cleanup, are changed.
LEMMA ErrTyped ==
  ASSUME NEW f \in FrameType, NEW pc \in PCs, NEW e \in {"error", "internal"}
  PROVE  /\ [f EXCEPT !.pc = pc, !.err = e] \in FrameType
         /\ [f EXCEPT !.pc = pc, !.err = e].pc = pc
         /\ [f EXCEPT !.pc = pc, !.err = e].err = e
         /\ [f EXCEPT !.pc = pc, !.err = e].msgs = f.msgs
         /\ [f EXCEPT !.pc = pc, !.err = e].nproc = f.nproc
         /\ [f EXCEPT !.pc = pc, !.err = e].next = f.next
         /\ [f EXCEPT !.pc = pc, !.err = e].cancel = f.cancel
         /\ [f EXCEPT !.pc = pc, !.err = e].depth = f.depth
BY Zenon DEF FrameType, PCs

LEMMA CancelTyped ==
  ASSUME NEW f \in FrameType, NEW pc \in PCs
  PROVE  /\ [f EXCEPT !.pc = pc, !.cancel = NoCancel] \in FrameType
         /\ [f EXCEPT !.pc = pc, !.cancel = NoCancel].pc = pc
         /\ [f EXCEPT !.pc = pc, !.cancel = NoCancel].cancel = NoCancel
         /\ [f EXCEPT !.pc = pc, !.cancel = NoCancel].msgs = f.msgs
         /\ [f EXCEPT !.pc = pc, !.cancel = NoCancel].nproc = f.nproc
         /\ [f EXCEPT !.pc = pc, !.cancel = NoCancel].next = f.next
         /\ [f EXCEPT !.pc = pc, !.cancel = NoCancel].err = f.err
         /\ [f EXCEPT !.pc = pc, !.cancel = NoCancel].depth = f.depth
BY Zenon DEF FrameType, PCs

\* The frames after a panic of the receiver in Start.
LEMMA PanicFrames ==
  ASSUME TypeOK, NEW t \in Threads, NEW pc \in PCs, NEW e \in {"error", "internal"},
         th' = [th EXCEPT ![t].pc = pc, ![t].err = e]
  PROVE  /\ th' \in [Threads -> FrameType] /\ th[t] \in FrameType
         /\ \A u \in Threads \ {t} : th'[u] = th[u]
         /\ \A u \in Threads : th'[u].nproc <= Len(th'[u].msgs)
         /\ th'[t].pc = pc /\ th'[t].err = e
         /\ th'[t].msgs = th[t].msgs /\ th'[t].nproc = th[t].nproc
         /\ th'[t].next = th[t].next /\ th'[t].cancel = th[t].cancel
         /\ th'[t].depth = th[t].depth
<1>1. th \in [Threads -> FrameType] /\ \A u \in Threads : th[u].nproc <= Len(th[u].msgs)
  BY Zenon DEF TypeOK
<1> DEFINE f == [th[t] EXCEPT !.pc = pc, !.err = e]
<1>2. f \in FrameType /\ th[t] \in FrameType
  BY <1>1, ErrTyped, Zenon
<1>3. th' = [th EXCEPT ![t] = f]
  BY <1>1, Zenon
<1>4. /\ f.pc = pc /\ f.msgs = th[t].msgs /\ f.nproc = th[t].nproc /\ f.next = th[t].next
      /\ f.cancel = th[t].cancel /\ f.err = e /\ f.depth = th[t].depth
  <2>1. th[t] \in FrameType
    BY <1>2, Zenon
  <2> QED BY <2>1, Zenon DEF FrameType
<1>5. f.nproc <= Len(f.msgs)
  BY <1>1, <1>4, Zenon
<1> HIDE DEF f
<1> QED BY <1>1, <1>2, <1>3, <1>4, <1>5, StepTyped, Zenon

\* The frames after tryRestart gives up.
LEMMA GiveUpFrames ==
  ASSUME TypeOK, NEW t \in Threads, NEW pc \in PCs,
         th' = [th EXCEPT ![t].pc = pc, ![t].cancel = NoCancel]
  PROVE  /\ th' \in [Threads -> FrameType] /\ th[t] \in FrameType
         /\ \A u \in Threads \ {t} : th'[u] = th[u]
         /\ \A u \in Threads : th'[u].nproc <= Len(th'[u].msgs)
         /\ th'[t].pc = pc /\ th'[t].cancel = NoCancel
         /\ th'[t].msgs = th[t].msgs /\ th'[t].nproc = th[t].nproc
         /\ th'[t].next = th[t].next /\ th'[t].depth = th[t].depth
<1>1. th \in [Threads -> FrameType] /\ \A u \in Threads : th[u].nproc <= Len(th[u].msgs)
  BY Zenon DEF TypeOK
<1> DEFINE f == [th[t] EXCEPT !.pc = pc, !.cancel = NoCancel]
<1>2. f \in FrameType /\ th[t] \in FrameType
  BY <1>1, CancelTyped, Zenon
<1>3. th' = [th EXCEPT ![t] = f]
  BY <1>1, Zenon
<1>4. /\ f.pc = pc /\ f.msgs = th[t].msgs /\ f.nproc = th[t].nproc /\ f.next = th[t].next
      /\ f.cancel = NoCancel /\ f.depth = th[t].depth
  BY <1>2, CancelTyped, Zenon
<1>5. f.nproc <= Len(f.msgs)
  BY <1>1, <1>4, Zenon
<1> HIDE DEF f
<1> QED BY <1>1, <1>2, <1>3, <1>4, <1>5, StepTyped, Zenon

LEMMA AddStep ==
  ASSUME IInv, Add
  PROVE  IInv'
<1> DEFINE t == Spawner
<1>0. t \in Threads
  BY Zenon DEF Threads
<1>1. TypeOK BY Zenon DEF IInv
<1>2. /\ th[t].pc = "add" /\ Goto(t, "initialize") /\ registered' = TRUE
      /\ UNCHANGED <<inboxVars, mbuffer, restarts, sendVars, done, life, log>>
  BY Zenon DEF Add, At
<1> HIDE DEF t
<1>3. /\ th' \in [Threads -> FrameType] /\ th[t] \in FrameType
      /\ \A u \in Threads \ {t} : th'[u] = th[u]
      /\ \A u \in Threads : th'[u].nproc <= Len(th'[u].msgs)
      /\ th'[t].pc = "initialize" /\ th'[t].msgs = th[t].msgs /\ th'[t].cancel = th[t].cancel
      /\ th'[t].depth = th[t].depth
  BY <1>0, <1>1, <1>2, GotoFrames, Zenon DEF PCs
<1>4. TypeOK'
  BY <1>1, <1>2, <1>3, Zenon DEF TypeOK, sendVars, inboxVars
<1>5. QueueTail' /\ Sent'
  BY <1>0, <1>2, <1>3, SameData, Zenon DEF sendVars, inboxVars
<1>6. /\ Panicked' = Panicked /\ Draining' = Draining /\ \A m : Taken(m)' = Taken(m)
  BY <1>2, SameLog, Zenon
<1>9. ~Disrupted
  <2>1. log = <<>>
    BY <1>2, Zenon DEF IInv, Places, At, t
  <2> QED BY <2>1 DEF Disrupted, Panicked, Taken
<1>7. Active(t) /\ Active(t)'
  BY <1>2, <1>3, Zenon DEF Active
<1>8. ASSUME ~Disrupted' PROVE Removal' /\ procStatus' # "idle" /\ Good(t)'
  <2>1. Good(t) /\ Removal /\ procStatus # "idle"
    BY <1>0, <1>7, <1>9, InScope, Zenon
  <2>2. Removal'
    BY <1>2, <1>6, <2>1, Zenon DEF Removal, inboxVars, Good, Phase, At
  <2>3. Role(t)'
    BY <1>2, <1>3, <1>6, <2>1, Zenon DEF Good, Role, inboxVars, t
  <2>4. Phase(t)'
    BY <1>2, <1>3, <1>6, <2>1, Zenon DEF Good, Phase, Unwinding, At, inboxVars, t
  <2>5. LifeOf(t)'
    BY <1>3, Zenon DEF LifeOf, At
  <2>6. order = <<>> /\ log = <<>> /\ queue = <<>> /\ mbuffer = <<>>
    BY <1>2, <2>1, Zenon DEF Good, Phase, Role, At, t
  <2>7. Held(t)' = <<>>
    BY <1>2, <1>3, <2>6, Zenon DEF Held
  <2>8. Conserves(t)' /\ Covers(t)'
    BY <1>2, <2>6, <2>7 DEF Conserves, Covers, sendVars, inboxVars
  <2> QED BY <1>2, <2>1, <2>2, <2>3, <2>4, <2>5, <2>8, Zenon DEF Good, inboxVars
<1> QED BY <1>0, <1>2, <1>3, <1>4, <1>5, <1>6, <1>7, <1>8, <1>9, Move, Zenon
LEMMA StartReceiveStep ==
  ASSUME IInv, NEW t \in Threads, NEW pc, NEW msg, NEW status, NEW nextpc,
         StartReceive(t, pc, msg, status, nextpc),
         \/ pc = "initialize" /\ status = "initialized" /\ nextpc = "started"
         \/ pc = "started" /\ status = "started" /\ nextpc = "buffer"
  PROVE  IInv'
<1>1. TypeOK BY Zenon DEF IInv
<1>2. /\ th[t].pc = pc /\ life' = status
      /\ UNCHANGED <<registered, queue, procStatus, mbuffer, restarts, call, dead, order, done, log>>
  BY Zenon DEF StartReceive, At, inboxVars, sendVars
<1>3. /\ th' \in [Threads -> FrameType] /\ th[t] \in FrameType
      /\ \A u \in Threads \ {t} : th'[u] = th[u]
      /\ \A u \in Threads : th'[u].nproc <= Len(th'[u].msgs)
      /\ th'[t].pc = nextpc \/ th'[t].pc = "recoverStart"
      /\ th'[t].msgs = th[t].msgs /\ th'[t].cancel = th[t].cancel
      /\ th'[t].depth = th[t].depth
  <2>1. CASE Goto(t, nextpc)
    BY <1>1, <2>1, GotoFrames, Zenon DEF PCs
  <2>2. CASE \E e \in {"error", "internal"} : th' = [th EXCEPT ![t].pc = "recoverStart", ![t].err = e]
    BY <1>1, <2>2, PanicFrames, Zenon DEF PCs
  <2> QED BY <2>1, <2>2, Zenon DEF StartReceive
<1>4. TypeOK'
  BY <1>1, <1>2, <1>3, Zenon DEF TypeOK
<1>5. QueueTail' /\ Sent'
  BY <1>2, <1>3, SameData, Zenon
<1>6. /\ Panicked' = Panicked /\ Draining' = Draining /\ \A m : Taken(m)' = Taken(m)
      /\ Disrupted' = Disrupted
  BY <1>2, SameScope, Zenon
<1>7. Active(t) /\ Active(t)'
  BY <1>2, <1>3, Zenon DEF Active
<1>8. ASSUME ~Disrupted' PROVE Removal' /\ procStatus' # "idle" /\ Good(t)'
  <2>1. Good(t) /\ Removal /\ procStatus # "idle"
    BY <1>6, <1>7, <1>8, InScope, Zenon
  <2>2. registered
    BY <1>2, <2>1, Zenon DEF Good, Phase, Unwinding, At
  <2>3. Removal'
    BY <1>2, <1>6, <2>1, <2>2, Zenon DEF Removal
  <2>4. Role(t)'
    BY <1>2, <1>3, <1>6, <2>1, Zenon DEF Good, Role
  <2>5. Phase(t)'
    BY <1>2, <1>3, <1>6, <2>1, <2>2, Zenon DEF Good, Phase, Unwinding, At
  <2>6. LifeOf(t)'
    BY <1>2, <1>3, Zenon DEF LifeOf, At
  <2>7. Conserves(t)'
    <3>1. Held(t)' = mbuffer /\ Held(t) = mbuffer
      BY <1>2, <1>3, Zenon DEF Held
    <3> QED BY <1>2, <1>6, <2>1, <3>1, Zenon DEF Good, Conserves
  <2>8. Covers(t)'
    <3>1. \A x : Owes(t, x)' = Owes(t, x)
      BY <1>2, <1>3, Zenon DEF Owes, At
    <3> QED BY <1>2, <1>6, <2>1, <3>1, Zenon DEF Good, Covers, Dropping, At
  <2> QED BY <1>2, <2>1, <2>3, <2>4, <2>5, <2>6, <2>7, <2>8, Zenon DEF Good
<1> QED BY <1>2, <1>3, <1>4, <1>5, <1>6, <1>7, <1>8, Move, Zenon

\* A frame in a Start that was called by d others.
LEMMA DepthTyped ==
  ASSUME NEW f \in FrameType, NEW d \in Nat
  PROVE  /\ [f EXCEPT !.depth = d] \in FrameType
         /\ [f EXCEPT !.depth = d].depth = d
         /\ [f EXCEPT !.depth = d].pc = f.pc /\ [f EXCEPT !.depth = d].msgs = f.msgs
         /\ [f EXCEPT !.depth = d].nproc = f.nproc /\ [f EXCEPT !.depth = d].next = f.next
         /\ [f EXCEPT !.depth = d].cancel = f.cancel /\ [f EXCEPT !.depth = d].err = f.err
BY Zenon DEF FrameType

\* The whole of a sequence, and none of it.
LEMMA WholeSeq ==
  ASSUME NEW q \in Seq(Msgs)
  PROVE  SubSeq(q, 1, Len(q)) = q /\ SubSeq(q, Len(q) + 1, Len(q)) = <<>>
         /\ q \o <<>> = q /\ <<>> \o q = q
OBVIOUS

LEMMA StartBufferStep ==
  ASSUME IInv, NEW t \in Threads, StartBuffer(t)
  PROVE  IInv'
<1>1. TypeOK /\ mbuffer \in Seq(Msgs) /\ th[t] \in FrameType
  BY Zenon DEF IInv, TypeOK
<1>2. /\ th[t].pc = "buffer"
      /\ UNCHANGED <<registered, queue, procStatus, mbuffer, restarts, call, dead, order, done, life, log>>
  BY Zenon DEF StartBuffer, At, inboxVars, sendVars
<1> DEFINE f == [Frame("invoke") EXCEPT !.msgs = mbuffer, !.depth = th[t].depth + 1]
<1>3. /\ th' \in [Threads -> FrameType]
      /\ \A u \in Threads \ {t} : th'[u] = th[u]
      /\ \A u \in Threads : th'[u].nproc <= Len(th'[u].msgs)
      /\ th'[t].cancel = th[t].cancel \/ th'[t].cancel = NoCancel
      /\ \/ /\ mbuffer # <<>> /\ th'[t].pc = "invoke" /\ th'[t].msgs = mbuffer
            /\ th'[t].nproc = 0
         \/ /\ mbuffer = <<>> /\ th'[t].pc = "inbox" /\ th'[t].msgs = th[t].msgs
            /\ th'[t].depth = th[t].depth /\ th'[t].cancel = th[t].cancel
  <2>0. th[t].depth + 1 \in Nat
    BY <1>1, SMTT(30) DEF FrameType
  <2>1. CASE mbuffer # <<>>
    <3>1. /\ f \in FrameType /\ f.pc = "invoke" /\ f.msgs = mbuffer /\ f.nproc = 0
          /\ f.cancel = NoCancel
      BY <1>1, <2>0, Zenon DEF Frame, FrameType, PCs
    <3>2. th' = [th EXCEPT ![t] = f]
      BY <2>1, Zenon DEF StartBuffer
    <3> HIDE DEF f
    <3>3. f.nproc <= Len(f.msgs)
      BY <1>1, <3>1
    <3> QED BY <1>1, <2>1, <3>1, <3>2, <3>3, StepTyped, Zenon
  <2>2. CASE mbuffer = <<>>
    <3>1. Goto(t, "inbox")
      BY <2>2, Zenon DEF StartBuffer, Goto
    <3> QED BY <1>1, <2>2, <3>1, GotoFrames, Zenon DEF PCs
  <2> QED BY <2>1, <2>2, Zenon
<1>4. TypeOK'
  BY <1>1, <1>2, <1>3, Zenon DEF TypeOK
<1>5. QueueTail' /\ Sent'
  <2>1. QueueTail'
    BY <1>2, Zenon DEF IInv, QueueTail
  <2>2. \A u \in Threads : \A i \in 1..Len(th'[u].msgs) : call[th'[u].msgs[i]] = "returned"
    BY <1>3, SMTT(30) DEF IInv, Sent
  <2> QED BY <1>2, <2>1, <2>2, Zenon DEF IInv, Sent
<1>6. /\ Panicked' = Panicked /\ Draining' = Draining /\ \A m : Taken(m)' = Taken(m)
      /\ Disrupted' = Disrupted
  BY <1>2, SameScope, Zenon
<1>7. Active(t) /\ Active(t)'
  BY <1>2, <1>3, Zenon DEF Active
<1>8. ASSUME ~Disrupted' PROVE Removal' /\ procStatus' # "idle" /\ Good(t)'
  <2>1. Good(t) /\ Removal /\ procStatus # "idle"
    BY <1>6, <1>7, <1>8, InScope, Zenon
  <2>2. registered
    BY <1>2, <2>1, Zenon DEF Good, Phase, Unwinding, At
  <2>3. Removal'
    BY <1>2, <1>6, <2>1, <2>2, Zenon DEF Removal
  <2>4. Role(t)'
    BY <1>2, <1>3, <1>6, <2>1, Zenon DEF Good, Role
  <2>5. Phase(t)'
    BY <1>2, <1>3, <1>6, <2>1, <2>2, Zenon DEF Good, Phase, Unwinding, At
  <2>6. LifeOf(t)'
    BY <1>2, <1>3, <2>1, Zenon DEF LifeOf, At, Good
  <2>7. Conserves(t)'
    <3>1. Held(t)' = mbuffer /\ Held(t) = mbuffer
      BY <1>1, <1>2, <1>3, WholeSeq DEF Held, Rest
    <3> QED BY <1>2, <1>6, <2>1, <3>1, Zenon DEF Good, Conserves
  <2>8. Covers(t)'
    <3>1. \A x : Owes(t, x) => Owes(t, x)'
      BY <1>1, <1>2, <1>3 DEF Owes, At
    <3> QED BY <1>2, <1>6, <2>1, <3>1, Zenon DEF Good, Covers, Dropping, At
  <2> QED BY <1>2, <2>1, <2>3, <2>4, <2>5, <2>6, <2>7, <2>8, Zenon DEF Good
<1> QED BY <1>2, <1>3, <1>4, <1>5, <1>6, <1>7, <1>8, Move, Zenon
LEMMA StartInvokedStep ==
  ASSUME IInv, NEW t \in Threads, StartInvoked(t)
  PROVE  IInv'
<1>1. TypeOK /\ th[t] \in FrameType
  BY Zenon DEF IInv, TypeOK
<1>2. /\ th[t].pc = "invoked" /\ mbuffer' = <<>>
      /\ UNCHANGED <<registered, queue, procStatus, restarts, call, dead, order, done, life, log>>
  BY Zenon DEF StartInvoked, At, inboxVars, sendVars
<1> DEFINE f == [Frame("inbox") EXCEPT !.depth = th[t].depth - 1]
<1>3. /\ th' \in [Threads -> FrameType]
      /\ \A u \in Threads \ {t} : th'[u] = th[u]
      /\ \A u \in Threads : th'[u].nproc <= Len(th'[u].msgs)
      /\ th'[t].pc = "inbox" /\ th'[t].msgs = <<>>
  <2>0. th[t].depth > 0
    BY <1>2, Zenon DEF IInv, Places, At
  <2>1. th[t].depth - 1 \in Nat
    <3>1. th[t].depth \in Nat
      BY <1>1, Zenon DEF FrameType
    <3> QED BY <2>0, <3>1
  <2>2. Frame("inbox") \in FrameType /\ Frame("inbox").pc = "inbox" /\ Frame("inbox").msgs = <<>>
        /\ Frame("inbox").nproc = 0
    BY FrameTyped, Zenon DEF PCs
  <2>3. f \in FrameType /\ f.pc = "inbox" /\ f.msgs = <<>> /\ f.nproc = 0
    BY <2>1, <2>2, DepthTyped, Zenon
  <2>4. th' = [th EXCEPT ![t] = f]
    BY Zenon DEF StartInvoked
  <2> HIDE DEF f
  <2>5. f.nproc <= Len(f.msgs)
    BY <2>3, SMTT(30)
  <2> QED BY <1>1, <2>3, <2>4, <2>5, StepTyped, Zenon
<1>4. TypeOK'
  BY <1>1, <1>2, <1>3 DEF TypeOK
<1>5. QueueTail' /\ Sent'
  <2>1. QueueTail'
    BY <1>2, Zenon DEF IInv, QueueTail
  <2>2. \A u \in Threads : \A i \in 1..Len(th'[u].msgs) : call[th'[u].msgs[i]] = "returned"
    BY <1>3 DEF IInv, Sent
  <2> QED BY <1>2, <2>1, <2>2, SMTT(30) DEF IInv, Sent
<1>6. /\ Panicked' = Panicked /\ Draining' = Draining /\ \A m : Taken(m)' = Taken(m)
      /\ Disrupted' = Disrupted
  BY <1>2, SameScope, Zenon
<1>7. Active(t) /\ Active(t)'
  BY <1>2, <1>3, Zenon DEF Active
<1>8. ASSUME ~Disrupted' PROVE Removal' /\ procStatus' # "idle" /\ Good(t)'
  <2>1. Good(t) /\ Removal /\ procStatus # "idle"
    BY <1>6, <1>7, <1>8, InScope, Zenon
  <2>2. registered
    BY <1>2, <2>1, Zenon DEF Good, Phase, Unwinding, At
  <2>3. Removal'
    BY <1>2, <1>6, <2>1, <2>2, Zenon DEF Removal
  <2>4. Role(t)'
    BY <1>2, <1>3, <1>6, <2>1, Zenon DEF Good, Role
  <2>5. Phase(t)'
    BY <1>2, <1>3, <1>6, <2>1, <2>2, Zenon DEF Good, Phase, Unwinding, At
  <2>6. LifeOf(t)'
    BY <1>2, <1>3, <2>1, Zenon DEF LifeOf, At, Good
  <2>7. Conserves(t)'
    <3>1. Held(t)' = <<>> /\ Held(t) = <<>>
      BY <1>2, <1>3, Zenon DEF Held
    <3> QED BY <1>2, <1>6, <2>1, <3>1, Zenon DEF Good, Conserves
  <2>8. Covers(t)'
    <3>1. \A x : ~Owes(t, x)
      BY <1>2, Zenon DEF Owes, At
    <3> QED BY <1>2, <1>6, <2>1, <3>1, Zenon DEF Good, Covers, Dropping, At
  <2> QED BY <1>2, <2>1, <2>3, <2>4, <2>5, <2>6, <2>7, <2>8, Zenon DEF Good
<1> QED BY <1>2, <1>3, <1>4, <1>5, <1>6, <1>7, <1>8, Move, Zenon

\* The frame Invoke returns to.
LEMMA AfterTyped ==
  ASSUME NEW f \in FrameType
  PROVE  /\ AfterInvoke(f) \in FrameType
         /\ AfterInvoke(f).msgs = <<>> /\ AfterInvoke(f).nproc = 0
         /\ AfterInvoke(f).cancel = NoCancel
         /\ f.depth > 0 => AfterInvoke(f).pc = "invoked" /\ AfterInvoke(f).depth = f.depth
         /\ ~(f.depth > 0) => AfterInvoke(f).pc = "loop" /\ AfterInvoke(f).depth = 0
<1>1. f.depth \in Nat
  BY Zenon DEF FrameType
<1>2. /\ Frame("invoked") \in FrameType /\ Frame("invoked").pc = "invoked"
      /\ Frame("invoked").msgs = <<>> /\ Frame("invoked").nproc = 0
      /\ Frame("invoked").cancel = NoCancel
  BY FrameTyped, Zenon DEF PCs
<1>3. /\ Frame("loop") \in FrameType /\ Frame("loop").pc = "loop"
      /\ Frame("loop").msgs = <<>> /\ Frame("loop").nproc = 0
      /\ Frame("loop").cancel = NoCancel /\ Frame("loop").depth = 0
  BY FrameTyped, Zenon DEF PCs
<1> DEFINE g == [Frame("invoked") EXCEPT !.depth = f.depth]
<1>4. /\ g \in FrameType /\ g.pc = "invoked" /\ g.depth = f.depth
      /\ g.msgs = <<>> /\ g.nproc = 0 /\ g.cancel = NoCancel
  BY <1>1, <1>2, DepthTyped, Zenon
<1>5. AfterInvoke(f) = IF f.depth > 0 THEN g ELSE Frame("loop")
  BY Zenon DEF AfterInvoke
<1> HIDE DEF g
<1> QED BY <1>3, <1>4, <1>5, Zenon

LEMMA CleanupCancelStep ==
  ASSUME IInv, NEW t \in Threads, CleanupCancel(t)
  PROVE  IInv'
<1>1. TypeOK /\ th[t] \in FrameType /\ th[t].depth \in Nat
      /\ th[t].cancel \in Pills \cup {NoCancel}
  BY Zenon DEF IInv, TypeOK, FrameType
<1>2. /\ th[t].pc = "cancel"
      /\ UNCHANGED <<registered, queue, procStatus, mbuffer, restarts, call, dead, order, life, log>>
  BY Zenon DEF CleanupCancel, At, inboxVars, sendVars
<1> DEFINE f == IF th[t].cancel # NoCancel THEN AfterInvoke(th[t])
                ELSE IF th[t].depth > 0
                     THEN [Frame("recoverStart") EXCEPT !.depth = th[t].depth - 1]
                     ELSE Frame("escaped")
<1>3. /\ f \in FrameType /\ f.msgs = <<>> /\ f.nproc = 0 /\ f.cancel = NoCancel
      /\ f.pc = IF th[t].cancel # NoCancel
                THEN IF th[t].depth > 0 THEN "invoked" ELSE "loop"
                ELSE IF th[t].depth > 0 THEN "recoverStart" ELSE "escaped"
      /\ f.pc = "recoverStart" => f.err = "error"
      /\ th[t].cancel # NoCancel => f.depth = th[t].depth
      /\ ~(th[t].depth > 0) => f.depth = 0
  <2>1. CASE th[t].cancel # NoCancel
    BY <1>1, <2>1, AfterTyped
  <2>2. CASE th[t].cancel = NoCancel /\ th[t].depth > 0
    <3>1. th[t].depth - 1 \in Nat
      BY <1>1, <2>2
    <3>2. /\ Frame("recoverStart") \in FrameType /\ Frame("recoverStart").pc = "recoverStart"
          /\ Frame("recoverStart").msgs = <<>> /\ Frame("recoverStart").nproc = 0
          /\ Frame("recoverStart").cancel = NoCancel /\ Frame("recoverStart").err = "error"
      BY FrameTyped, Zenon DEF PCs
    <3> QED BY <2>2, <3>1, <3>2, DepthTyped, Zenon
  <2>3. CASE th[t].cancel = NoCancel /\ ~(th[t].depth > 0)
    BY <2>3, FrameTyped DEF PCs
  <2> QED BY <2>1, <2>2, <2>3, Zenon
<1>4. /\ th' = [th EXCEPT ![t] = f]
      /\ done' = IF th[t].cancel # NoCancel THEN done \cup {th[t].cancel} ELSE done
  BY Zenon DEF CleanupCancel
<1> HIDE DEF f
<1>5. f.nproc <= Len(f.msgs)
  BY <1>3
<1>6. /\ th' \in [Threads -> FrameType] /\ th'[t] = f
      /\ \A u \in Threads \ {t} : th'[u] = th[u]
      /\ \A u \in Threads : th'[u].nproc <= Len(th'[u].msgs)
  BY <1>1, <1>3, <1>4, <1>5, StepTyped, Zenon
<1>7. TypeOK'
  BY <1>1, <1>2, <1>4, <1>6, Zenon DEF TypeOK
<1>8. QueueTail' /\ Sent'
  BY <1>2, <1>3, <1>6, SameData, Zenon
<1>9. /\ Panicked' = Panicked /\ Draining' = Draining /\ \A m : Taken(m)' = Taken(m)
      /\ Disrupted => Disrupted'
  BY <1>2, <1>4, SameLog DEF Disrupted
<1>10. Active(t) /\ Active(t)'
  BY <1>2, <1>3, <1>6, Zenon DEF Active
<1>11. ASSUME ~Disrupted' PROVE Removal' /\ procStatus' # "idle" /\ Good(t)'
  <2>1. Good(t) /\ Removal /\ procStatus # "idle"
    BY <1>9, <1>10, <1>11, InScope, Zenon
  <2>2. ~registered /\ life = "stopped" /\ procStatus = "stopped"
    BY <1>2, <2>1, Zenon DEF Good, Phase, LifeOf, At, Removal
  <2>3. Removal'
    BY <1>2, <2>2, Zenon DEF Removal
  <2>4. th[t].cancel # NoCancel => ~Panicked /\ t # Spawner /\ ~(th[t].depth > 0)
    BY <1>2, <1>4, <1>9, <1>11, <2>1, <2>2, Zenon DEF Good, Role, Disrupted
  <2>5. th[t].depth > 0 => Panicked /\ done = {} /\ t # Spawner
    BY <1>1, <1>2, <1>4, <1>9, <1>11, <2>1, <2>2 DEF Good, Role, Disrupted
  <2>6. Role(t)'
    <3>1. CASE t = Spawner
      BY <1>2, <1>3, <1>6, <2>1, <2>4, <2>5, <3>1, Zenon DEF Good, Role
    <3>2. CASE t # Spawner
      <4>1. CASE th[t].depth > 0
        <5>1. Panicked'
          BY <1>9, <2>5, <4>1, Zenon
        <5> QED BY <3>2, <5>1, Zenon DEF Role
      <4>2. CASE ~(th[t].depth > 0)
        <5>1. th'[t].pc \in {"loop", "escaped"} /\ th'[t].depth = 0
          BY <1>3, <1>6, <4>2, Zenon
        <5> QED BY <3>2, <5>1 DEF Role
      <4> QED BY <4>1, <4>2, Zenon
    <3> QED BY <3>1, <3>2, Zenon
  <2>7. Phase(t)'
    BY <1>1, <1>2, <1>3, <1>4, <1>6, <1>9, <2>1, <2>2, <2>4, <2>5, Zenon DEF Good, Phase, Unwinding, At
  <2>8. LifeOf(t)' /\ Conserves(t)' /\ Covers(t)'
    BY <1>2, <1>3, <1>4, <1>6, <2>2, <2>4, <2>5, Zenon DEF LifeOf, Conserves, Covers, At
  <2> QED BY <1>2, <2>1, <2>3, <2>6, <2>7, <2>8, Zenon DEF Good
<1>12. /\ th'[t].pc \notin {"add", "returned", "drain"}
       /\ th'[t].pc = "invoked" => th'[t].depth > 0
  BY <1>3, <1>6, Zenon
<1> QED BY <1>6, <1>7, <1>8, <1>9, <1>10, <1>11, <1>12, Move, Zenon
\* The frames after tryRestart.
LEMMA TryRestartFrames ==
  ASSUME TypeOK, NEW t \in Threads, TryRestart(t)
  PROVE  /\ th' \in [Threads -> FrameType] /\ th[t] \in FrameType
         /\ \A u \in Threads \ {t} : th'[u] = th[u]
         /\ \A u \in Threads : th'[u].nproc <= Len(th'[u].msgs)
         /\ th'[t].msgs = th[t].msgs /\ th'[t].depth = th[t].depth
         /\ restarts' \in 0..MaxRestarts
         /\ \/ /\ th'[t].pc = "initialize" /\ th'[t].cancel = th[t].cancel
               /\ th[t].err = "error" => restarts # MaxRestarts
            \/ /\ th'[t].pc = "stopInbox" /\ th'[t].cancel = NoCancel
               /\ restarts' = MaxRestarts
<1>1. restarts \in 0..MaxRestarts /\ MaxRestarts \in Nat
  BY BoundAssumption, Zenon DEF TypeOK
<1>2. CASE /\ Goto(t, "initialize") /\ (th[t].err = "error" => restarts # MaxRestarts)
           /\ restarts' = restarts \/ (restarts # MaxRestarts /\ restarts' = restarts + 1)
  <2>1. restarts' \in 0..MaxRestarts
    BY <1>1, <1>2
  <2> QED BY <1>2, <2>1, GotoFrames, Zenon DEF PCs
<1>3. CASE th' = [th EXCEPT ![t].pc = "stopInbox", ![t].cancel = NoCancel] /\ restarts = MaxRestarts
           /\ restarts' = restarts
  BY <1>1, <1>3, GiveUpFrames, Zenon DEF PCs
<1> QED BY <1>2, <1>3, Zenon DEF TryRestart

\* The end of a sequence holds some of its elements.
LEMMA RestElements ==
  ASSUME NEW q \in Seq(Msgs), NEW n \in Nat, n <= Len(q)
  PROVE  /\ SubSeq(q, n + 1, Len(q)) \in Seq(Msgs)
         /\ Len(SubSeq(q, n + 1, Len(q))) = Len(q) - n
         /\ \A i \in 1..(Len(q) - n) : SubSeq(q, n + 1, Len(q))[i] = q[n + i]
<1>1. SubSeq(q, n + 1, Len(q)) \in Seq(Msgs)
  OBVIOUS
<1> QED BY <1>1

LEMMA RecoverInvokeStep ==
  ASSUME IInv, NEW t \in Threads, RecoverInvoke(t)
  PROVE  IInv'
<1>1. /\ TypeOK /\ th[t] \in FrameType
      /\ th[t].msgs \in Seq(Msgs) /\ th[t].nproc \in Nat /\ th[t].nproc <= Len(th[t].msgs)
  BY Zenon DEF IInv, TypeOK, FrameType
<1>2. /\ th[t].pc = "recover" /\ life' = "stopped" /\ mbuffer' = Rest(t) /\ TryRestart(t)
      /\ UNCHANGED <<registered, queue, procStatus, call, dead, order, done, log>>
  BY Zenon DEF RecoverInvoke, At, inboxVars, sendVars
<1>3. /\ th' \in [Threads -> FrameType]
      /\ \A u \in Threads \ {t} : th'[u] = th[u]
      /\ \A u \in Threads : th'[u].nproc <= Len(th'[u].msgs)
      /\ th'[t].msgs = th[t].msgs /\ th'[t].depth = th[t].depth
      /\ restarts' \in 0..MaxRestarts
      /\ \/ th'[t].pc = "initialize" /\ th'[t].cancel = th[t].cancel
         \/ th'[t].pc = "stopInbox" /\ th'[t].cancel = NoCancel /\ restarts' = MaxRestarts
  BY <1>1, <1>2, TryRestartFrames, Zenon
<1>4. /\ mbuffer' \in Seq(Msgs)
      /\ Len(mbuffer') = Len(th[t].msgs) - th[t].nproc
      /\ \A i \in 1..(Len(th[t].msgs) - th[t].nproc) : mbuffer'[i] = th[t].msgs[th[t].nproc + i]
  BY <1>1, <1>2, RestElements, Zenon DEF Rest
<1>5. TypeOK'
  BY <1>1, <1>2, <1>3, <1>4, Zenon DEF TypeOK
<1>6. QueueTail' /\ Sent'
  <2>1. QueueTail'
    BY <1>2, Zenon DEF IInv, QueueTail
  <2>2. \A u \in Threads : \A i \in 1..Len(th'[u].msgs) : call[th'[u].msgs[i]] = "returned"
    BY <1>3 DEF IInv, Sent
  <2>3. \A i \in 1..Len(mbuffer') : call[mbuffer'[i]] = "returned"
    <3> DEFINE q == th[t].msgs
               n == th[t].nproc
    <3>1. q \in Seq(Msgs) /\ n \in Nat /\ \A i \in 1..Len(q) : call[q[i]] = "returned"
      BY <1>1, Zenon DEF IInv, Sent
    <3>2. Len(mbuffer') = Len(q) - n /\ \A i \in 1..(Len(q) - n) : mbuffer'[i] = q[n + i]
      BY <1>4, Zenon
    <3> HIDE DEF q, n
    <3> QED BY <3>1, <3>2
  <2> QED BY <1>2, <2>1, <2>2, <2>3, Zenon DEF IInv, Sent
<1>7. /\ Panicked' = Panicked /\ Draining' = Draining /\ \A m : Taken(m)' = Taken(m)
      /\ Disrupted' = Disrupted
  BY <1>2, SameScope, Zenon
<1>8. Active(t) /\ Active(t)'
  BY <1>2, <1>3, Zenon DEF Active
<1>9. ASSUME ~Disrupted' PROVE Removal' /\ procStatus' # "idle" /\ Good(t)'
  <2>1. Good(t) /\ Removal /\ procStatus # "idle"
    BY <1>7, <1>8, <1>9, InScope, Zenon
  <2>2. registered /\ t # Spawner /\ Panicked
    BY <1>2, <2>1, Zenon DEF Good, Phase, Role, Unwinding, At
  <2>3. Removal'
    BY <1>2, <1>7, <2>1, <2>2, Zenon DEF Removal
  <2>4. Role(t)'
    BY <1>7, <2>2, Zenon DEF Role
  <2>5. Phase(t)'
    BY <1>2, <1>3, <1>7, <2>1, <2>2, Zenon DEF Good, Phase, Unwinding, At
  <2>6. LifeOf(t)'
    BY <1>3, Zenon DEF LifeOf, At
  <2>7. Conserves(t)'
    <3>1. CASE th'[t].pc = "initialize"
      <4>1. Held(t)' = Held(t)
        BY <1>2, <1>3, <3>1, Zenon DEF Held
      <4> QED BY <1>2, <1>7, <2>1, <4>1, Zenon DEF Good, Conserves
    <3> QED BY <1>3, <3>1, Zenon DEF Conserves
  <2>8. Covers(t)'
    <3>1. CASE th'[t].pc = "initialize"
      <4>1. ASSUME NEW x, Owes(t, x) PROVE Owes(t, x)'
        <5>1. PICK j \in (th[t].nproc + 1)..Len(th[t].msgs) : th[t].msgs[j] = x
          BY <1>2, <4>1, Zenon DEF Owes, At
        <5>2. j - th[t].nproc \in 1..Len(mbuffer') /\ mbuffer'[j - th[t].nproc] = x
          <6> DEFINE q == th[t].msgs
                     n == th[t].nproc
          <6>1. q \in Seq(Msgs) /\ n \in Nat /\ j \in (n + 1)..Len(q) /\ q[j] = x
            BY <1>1, <5>1, Zenon
          <6>2. Len(mbuffer') = Len(q) - n /\ \A i \in 1..(Len(q) - n) : mbuffer'[i] = q[n + i]
            BY <1>4, Zenon
          <6> HIDE DEF q, n
          <6>3. j - n \in 1..(Len(q) - n) /\ n + (j - n) = j
            BY <6>1
          <6>4. j - n \in 1..Len(mbuffer') /\ mbuffer'[j - n] = x
            BY <6>1, <6>2, <6>3, Zenon
          <6> QED BY <6>4, Zenon DEF n
        <5> QED BY <3>1, <5>2, Zenon DEF Owes
      <4> QED BY <1>2, <1>7, <2>1, <4>1, Zenon DEF Good, Covers, Dropping, At
    <3>2. CASE th'[t].pc = "stopInbox"
      BY <1>3, <3>2, MsgAssumption, Zenon DEF Covers, Dropping, At, NoCancel
    <3> QED BY <1>3, <3>1, <3>2, Zenon
  <2> QED BY <1>2, <2>1, <2>3, <2>4, <2>5, <2>6, <2>7, <2>8, Zenon DEF Good
<1> QED BY <1>3, <1>5, <1>6, <1>7, <1>8, <1>9, Move, Zenon

LEMMA RecoverStartStep ==
  ASSUME IInv, NEW t \in Threads, RecoverStart(t)
  PROVE  IInv'
<1>1. TypeOK /\ th[t] \in FrameType
  BY Zenon DEF IInv, TypeOK
<1>2. /\ th[t].pc = "recoverStart" /\ life' = "stopped" /\ TryRestart(t)
      /\ UNCHANGED <<registered, queue, procStatus, mbuffer, call, dead, order, done, log>>
  BY Zenon DEF RecoverStart, At, inboxVars, sendVars
<1>3. /\ th' \in [Threads -> FrameType]
      /\ \A u \in Threads \ {t} : th'[u] = th[u]
      /\ \A u \in Threads : th'[u].nproc <= Len(th'[u].msgs)
      /\ th'[t].msgs = th[t].msgs /\ th'[t].depth = th[t].depth
      /\ restarts' \in 0..MaxRestarts
      /\ \/ /\ th'[t].pc = "initialize" /\ th'[t].cancel = th[t].cancel
            /\ th[t].err = "error" => restarts # MaxRestarts
         \/ th'[t].pc = "stopInbox" /\ th'[t].cancel = NoCancel /\ restarts' = MaxRestarts
  BY <1>1, <1>2, TryRestartFrames, Zenon
<1>5. TypeOK'
  BY <1>1, <1>2, <1>3, Zenon DEF TypeOK
<1>6. QueueTail' /\ Sent'
  BY <1>2, <1>3, SameData, Zenon
<1>7. /\ Panicked' = Panicked /\ Draining' = Draining /\ \A m : Taken(m)' = Taken(m)
      /\ Disrupted' = Disrupted
  BY <1>2, SameScope, Zenon
<1>8. Active(t) /\ Active(t)'
  BY <1>2, <1>3, Zenon DEF Active
<1>9. ASSUME ~Disrupted' PROVE Removal' /\ procStatus' # "idle" /\ Good(t)'
  <2>1. Good(t) /\ Removal /\ procStatus # "idle"
    BY <1>7, <1>8, <1>9, InScope, Zenon
  <2>2. ~registered => Unwinding(t) /\ done = {}
    BY <1>2, <2>1, Zenon DEF Good, Phase, At
  <2>3. Removal'
    BY <1>2, <1>7, <2>1, <2>2, Zenon DEF Removal
  <2>4. Role(t)'
    BY <1>2, <1>3, <1>7, <2>1, Zenon DEF Good, Role
  <2>5. Phase(t)'
    BY <1>2, <1>3, <1>7, <2>1, <2>2, Zenon DEF Good, Phase, Unwinding, At
  <2>6. LifeOf(t)'
    BY <1>3, Zenon DEF LifeOf, At
  <2>7. Conserves(t)'
    <3>1. CASE th'[t].pc = "initialize"
      <4>1. Held(t)' = Held(t)
        BY <1>2, <1>3, <3>1, Zenon DEF Held
      <4> QED BY <1>2, <1>7, <2>1, <4>1, Zenon DEF Good, Conserves
    <3> QED BY <1>3, <3>1, Zenon DEF Conserves
  <2>8. Covers(t)'
    <3>1. CASE th'[t].pc = "initialize"
      <4>1. \A x : Owes(t, x) => Owes(t, x)'
        BY <1>2, <3>1, Zenon DEF Owes, At
      <4> QED BY <1>2, <1>7, <2>1, <4>1, Zenon DEF Good, Covers, Dropping, At
    <3>2. CASE th'[t].pc = "stopInbox"
      BY <1>3, <3>2, MsgAssumption, Zenon DEF Covers, Dropping, At, NoCancel
    <3> QED BY <1>3, <3>1, <3>2, Zenon
  <2> QED BY <1>2, <2>1, <2>3, <2>4, <2>5, <2>6, <2>7, <2>8, Zenon DEF Good
<1> QED BY <1>3, <1>5, <1>6, <1>7, <1>8, <1>9, Move, Zenon

-----------------------------------------------------------------------------
\* Sequences are equal when their elements are.
LEMMA SeqExt ==
  ASSUME NEW a \in Seq(Msgs), NEW b \in Seq(Msgs), Len(a) = Len(b), \A i \in 1..Len(a) : a[i] = b[i]
  PROVE  a = b
OBVIOUS

\* Concatenation, element by element.
LEMMA Concat ==
  ASSUME NEW a \in Seq(Msgs), NEW b \in Seq(Msgs)
  PROVE  /\ a \o b \in Seq(Msgs) /\ Len(a \o b) = Len(a) + Len(b)
         /\ \A i \in 1..Len(a) : (a \o b)[i] = a[i]
         /\ \A i \in 1..Len(b) : (a \o b)[Len(a) + i] = b[i]
OBVIOUS

\* A sequence is its beginning and its end.
LEMMA SplitSeq ==
  ASSUME NEW q \in Seq(Msgs), NEW k \in 0..Len(q)
  PROVE  /\ SubSeq(q, 1, k) \in Seq(Msgs) /\ SubSeq(q, k + 1, Len(q)) \in Seq(Msgs)
         /\ q = SubSeq(q, 1, k) \o SubSeq(q, k + 1, Len(q))
<1> DEFINE a == SubSeq(q, 1, k)
           b == SubSeq(q, k + 1, Len(q))
<1>1. /\ a \in Seq(Msgs) /\ Len(a) = k /\ \A i \in 1..k : a[i] = q[i]
      /\ k \in Nat /\ Len(q) \in Nat /\ k <= Len(q)
  OBVIOUS
<1>2. /\ b \in Seq(Msgs) /\ Len(b) = Len(q) - k /\ \A i \in 1..(Len(q) - k) : b[i] = q[k + i]
  OBVIOUS
<1> HIDE DEF a, b
<1>6. /\ a \o b \in Seq(Msgs) /\ Len(a \o b) = Len(a) + Len(b)
      /\ \A i \in 1..Len(a) : (a \o b)[i] = a[i]
      /\ \A i \in 1..Len(b) : (a \o b)[Len(a) + i] = b[i]
  BY <1>1, <1>2, Concat, Zenon
<1>3. a \o b \in Seq(Msgs) /\ Len(a \o b) = Len(q)
  BY <1>1, <1>2, <1>6
<1>4. ASSUME NEW i \in 1..Len(q) PROVE (a \o b)[i] = q[i]
  <2>1. CASE i \in 1..k
    BY <1>1, <1>6, <2>1, Zenon
  <2>2. CASE i \notin 1..k
    <3>1. i - k \in 1..Len(b) /\ k + (i - k) = i
      BY <1>1, <1>2, <2>2
    <3>2. (a \o b)[k + (i - k)] = b[i - k]
      BY <1>1, <1>6, <3>1, Zenon
    <3> QED BY <1>2, <3>1, <3>2, Zenon
  <2> QED BY <2>1, <2>2, Zenon
<1>5. a \o b = q
  BY <1>3, <1>4, SeqExt, Zenon
<1> QED BY <1>1, <1>2, <1>5, Zenon DEF a, b

\* A batch leaves the inbox: where the messages are in the order of arrival.
LEMMA TakeBatch ==
  ASSUME TypeOK, QueueTail, NEW b \in Seq(Msgs), queue' \in Seq(Msgs), queue = b \o queue'
  PROVE  /\ Len(queue') <= Len(order)
         /\ \A i \in 1..Len(queue') : order[Len(order) - Len(queue') + i] = queue'[i]
         /\ \A i \in 1..Len(b) : \E j \in 1..Len(queue) : b[i] = queue[j]
         /\ \A i \in 1..Len(queue') : \E j \in 1..Len(queue) : queue'[i] = queue[j]
         /\ \A i \in 1..(Len(order) - Len(queue')) :
              i <= Len(order) - Len(queue) \/ \E j \in 1..Len(b) : order[i] = b[j]
<1> DEFINE o == order
           q == queue
           r == queue'
<1>0. /\ o \in Seq(Msgs) /\ q \in Seq(Msgs) /\ r \in Seq(Msgs) /\ q = b \o r
      /\ Len(q) <= Len(o) /\ \A i \in 1..Len(q) : o[Len(o) - Len(q) + i] = q[i]
  BY Zenon DEF TypeOK, QueueTail
<1> SUFFICES /\ Len(r) <= Len(o) /\ \A i \in 1..Len(r) : o[Len(o) - Len(r) + i] = r[i]
             /\ \A i \in 1..Len(b) : \E j \in 1..Len(q) : b[i] = q[j]
             /\ \A i \in 1..Len(r) : \E j \in 1..Len(q) : r[i] = q[j]
             /\ \A i \in 1..(Len(o) - Len(r)) :
                  i <= Len(o) - Len(q) \/ \E j \in 1..Len(b) : o[i] = b[j]
  BY Zenon
<1> HIDE DEF o, q, r
<1>1. /\ Len(o) \in Nat /\ Len(q) \in Nat /\ Len(b) \in Nat /\ Len(r) \in Nat
      /\ Len(q) = Len(b) + Len(r)
  BY <1>0
<1>2. /\ \A i \in 1..Len(b) : q[i] = b[i]
      /\ \A i \in 1..Len(r) : q[Len(b) + i] = r[i]
  BY <1>0
<1>3. ASSUME NEW i \in 1..Len(r) PROVE o[Len(o) - Len(r) + i] = r[i]
  <2>1. Len(b) + i \in 1..Len(q) /\ Len(o) - Len(q) + (Len(b) + i) = Len(o) - Len(r) + i
    BY <1>0, <1>1
  <2> QED BY <1>0, <1>2, <2>1, Zenon
<1>4. ASSUME NEW i \in 1..(Len(o) - Len(r)), ~(i <= Len(o) - Len(q))
      PROVE  \E j \in 1..Len(b) : o[i] = b[j]
  <2> DEFINE j == i - (Len(o) - Len(q))
  <2>1. j \in 1..Len(b) /\ j \in 1..Len(q) /\ Len(o) - Len(q) + j = i
    BY <1>0, <1>1, <1>4
  <2> HIDE DEF j
  <2>2. o[i] = b[j]
    BY <1>0, <1>2, <2>1, Zenon
  <2> QED BY <2>1, <2>2, Zenon
<1>5. \A i \in 1..Len(b) : \E j \in 1..Len(q) : b[i] = q[j]
  <2>1. \A i \in 1..Len(b) : i \in 1..Len(q)
    BY <1>0, <1>1
  <2> QED BY <1>0, <1>2, <2>1, Zenon
<1>6. \A i \in 1..Len(r) : \E j \in 1..Len(q) : r[i] = q[j]
  <2>1. \A i \in 1..Len(r) : Len(b) + i \in 1..Len(q)
    BY <1>0, <1>1
  <2> QED BY <1>0, <1>2, <2>1, Zenon
<1>7. Len(r) <= Len(o)
  BY <1>0, <1>1
<1> QED BY <1>3, <1>4, <1>5, <1>6, <1>7, Zenon

\* Concatenation is associative.
LEMMA Assoc ==
  ASSUME NEW a \in Seq(Msgs), NEW b \in Seq(Msgs), NEW c \in Seq(Msgs)
  PROVE  a \o (b \o c) = (a \o b) \o c
OBVIOUS

LEMMA RunStep ==
  ASSUME IInv, NEW w \in Workers, Run(w)
  PROVE  IInv'
<1> DEFINE k == IF BatchSize < Len(queue) THEN BatchSize ELSE Len(queue)
<1>1. /\ TypeOK /\ th[w] \in FrameType /\ w \in Threads /\ w # Spawner
      /\ queue \in Seq(Msgs) /\ order \in Seq(Msgs) /\ log \in Seq(Msgs) /\ BatchSize \in Nat
  BY BoundAssumption, Zenon DEF IInv, TypeOK, Threads, Spawner
<1>2. /\ th[w].pc = "loop"
      /\ UNCHANGED <<registered, mbuffer, restarts, call, dead, order, done, life, log>>
  BY Zenon DEF Run, At, sendVars
<1>3. /\ Panicked' = Panicked /\ Draining' = Draining /\ \A m : Taken(m)' = Taken(m)
      /\ Disrupted' = Disrupted
  BY <1>2, SameScope, Zenon
<1>4. Active(w)
  BY <1>2, Zenon DEF Active
<1>5. ASSUME ~Disrupted
      PROVE  /\ Good(w) /\ Removal /\ procStatus # "idle" /\ ~(procStatus = "stopped" /\ registered)
             /\ registered => life = "started"
             /\ registered /\ ~Draining => order = log \o queue
             /\ registered => \A i \in 1..(Len(order) - Len(queue)) : Taken(order[i])
  <2>1. Good(w) /\ Removal /\ procStatus # "idle"
    BY <1>1, <1>4, <1>5, InScope, Zenon
  <2>2. ~(procStatus = "stopped" /\ registered) /\ (registered => life = "started")
    BY <1>1, <1>2, <2>1, Zenon DEF Good, Phase, LifeOf, Removal, At
  <2>3. registered /\ ~Draining => order = log \o queue
    <3>1. Held(w) = <<>>
      BY <1>2, Zenon DEF Held
    <3> QED BY <1>1, <1>2, <2>1, <3>1, WholeSeq, Zenon DEF Good, Conserves
  <2>4. registered => \A i \in 1..(Len(order) - Len(queue)) : Taken(order[i])
    BY <1>2, <2>1, Zenon DEF Good, Covers, Owes, Dropping, At
  <2> QED BY <2>1, <2>2, <2>3, <2>4, Zenon
<1>6. CASE procStatus # "stopped" /\ queue # <<>>
  <2> DEFINE b == SubSeq(queue, 1, k)
             f == [Frame("invoke") EXCEPT !.msgs = b]
  <2>1. k \in 0..Len(queue)
    BY <1>1
  <2>2. /\ th' = [th EXCEPT ![w] = f] /\ queue' = SubSeq(queue, k + 1, Len(queue))
        /\ procStatus' = procStatus
    BY <1>6, Zenon DEF Run
  <2> HIDE DEF k
  <2>3. /\ f \in FrameType /\ f.pc = "invoke" /\ f.msgs = b /\ f.nproc = 0
        /\ f.cancel = NoCancel /\ f.depth = 0
    <3>1. b \in Seq(Msgs)
      BY <1>1, <2>1, SplitSeq, Zenon
    <3> HIDE DEF b
    <3> QED BY <3>1, Zenon DEF Frame, FrameType, PCs
  <2>4. b \in Seq(Msgs) /\ queue' \in Seq(Msgs) /\ queue = b \o queue'
    BY <1>1, <2>1, <2>2, SplitSeq, Zenon
  <2> HIDE DEF b, f
  <2>11. /\ Len(queue') <= Len(order)
         /\ \A i \in 1..Len(queue') : order[Len(order) - Len(queue') + i] = queue'[i]
         /\ \A i \in 1..Len(b) : \E j \in 1..Len(queue) : b[i] = queue[j]
         /\ \A i \in 1..Len(queue') : \E j \in 1..Len(queue) : queue'[i] = queue[j]
         /\ \A i \in 1..(Len(order) - Len(queue')) :
              i <= Len(order) - Len(queue) \/ \E j \in 1..Len(b) : order[i] = b[j]
    BY <1>1, <2>4, TakeBatch, Zenon DEF IInv
  <2>5. /\ th' \in [Threads -> FrameType] /\ th'[w] = f
        /\ \A u \in Threads \ {w} : th'[u] = th[u]
        /\ \A u \in Threads : th'[u].nproc <= Len(th'[u].msgs)
    <3>1. f.nproc <= Len(f.msgs)
      BY <2>3, <2>4
    <3> QED BY <1>1, <2>2, <2>3, <3>1, StepTyped, Zenon
  <2>6. TypeOK'
    BY <1>1, <1>2, <2>2, <2>4, <2>5, Zenon DEF TypeOK
  <2>7. QueueTail'
    BY <1>2, <2>11, Zenon DEF QueueTail
  <2>8. Sent'
    <3>1. \A i \in 1..Len(queue) : call[queue[i]] = "returned"
      BY Zenon DEF IInv, Sent
    <3>2. \A i \in 1..Len(b) : call[b[i]] = "returned"
      BY <2>11, <3>1
    <3>3. \A i \in 1..Len(queue') : call[queue'[i]] = "returned"
      BY <2>11, <3>1
    <3>4. \A u \in Threads : \A i \in 1..Len(th'[u].msgs) : call[th'[u].msgs[i]] = "returned"
      BY <2>3, <2>5, <3>2 DEF IInv, Sent
    <3> QED BY <1>2, <3>3, <3>4, Zenon DEF IInv, Sent
  <2>9. Active(w)'
    BY <2>3, <2>5, Zenon DEF Active
  <2>10. ASSUME ~Disrupted' PROVE Removal' /\ procStatus' # "idle" /\ Good(w)'
    <3>1. Removal' /\ procStatus' # "idle" /\ registered
      BY <1>2, <1>3, <1>5, <1>6, <2>2, <2>10, Zenon DEF Removal
    <3>2. Role(w)'
      BY <1>1, <2>3, <2>5 DEF Role
    <3>3. Phase(w)'
      BY <1>2, <1>6, <2>2, <2>3, <2>5, <3>1, Zenon DEF Phase, At
    <3>4. LifeOf(w)'
      BY <1>2, <1>3, <1>5, <2>3, <2>5, <2>10, <3>1, Zenon DEF LifeOf, At
    <3>5. Conserves(w)'
      <4>1. Held(w)' = SubSeq(b, 0 + 1, Len(b))
        BY <2>3, <2>5, Zenon DEF Held, Rest
      <4>2. ~Draining => order = (log \o b) \o queue'
        BY <1>1, <1>3, <1>5, <2>4, <2>10, <3>1, Assoc, Zenon
      <4>3. SubSeq(b, 0 + 1, Len(b)) = b
        BY <2>4, WholeSeq
      <4> QED BY <1>2, <1>3, <4>1, <4>2, <4>3, Zenon DEF Conserves
    <3>6. Covers(w)'
      <4>1. ASSUME NEW i \in 1..(Len(order) - Len(queue')) PROVE Taken(order[i]) \/ Owes(w, order[i])'
        <5>1. CASE i <= Len(order) - Len(queue)
          BY <1>1, <1>3, <1>5, <2>10, <3>1, <5>1
        <5>2. CASE ~(i <= Len(order) - Len(queue))
          <6>1. PICK j \in 1..Len(b) : order[i] = b[j]
            BY <2>11, <4>1, <5>2, Zenon
          <6>2. j \in (f.nproc + 1)..Len(b)
            BY <2>3, <2>4, <6>1
          <6> QED BY <1>2, <2>3, <2>5, <6>1, <6>2, Zenon DEF Owes
        <5> QED BY <5>1, <5>2, Zenon
      <4> QED BY <1>2, <1>3, <4>1, Zenon DEF Covers
    <3> QED BY <3>1, <3>2, <3>3, <3>4, <3>5, <3>6, Zenon DEF Good
  <2> QED BY <1>1, <1>3, <1>4, <2>3, <2>5, <2>6, <2>7, <2>8, <2>9, <2>10, Move, Zenon
<1>7. CASE procStatus = "stopped" \/ queue = <<>>
  <2>1. /\ th' = [th EXCEPT ![w] = Frame("none")] /\ queue' = queue
        /\ procStatus' = IF procStatus = "running" THEN "idle" ELSE procStatus
    BY <1>7, Zenon DEF Run
  <2>2. /\ Frame("none") \in FrameType /\ Frame("none").pc = "none"
        /\ Frame("none").msgs = <<>> /\ Frame("none").nproc = 0
    BY FrameTyped, Zenon DEF PCs
  <2>3. /\ th' \in [Threads -> FrameType] /\ th'[w] = Frame("none")
        /\ \A u \in Threads \ {w} : th'[u] = th[u]
        /\ \A u \in Threads : th'[u].nproc <= Len(th'[u].msgs)
    <3>1. Frame("none").nproc <= Len(Frame("none").msgs)
      BY <2>2
    <3> QED BY <1>1, <2>1, <2>2, <3>1, StepTyped, Zenon
  <2>4. TypeOK'
    BY <1>1, <1>2, <2>1, <2>3, Zenon DEF TypeOK
  <2>5. QueueTail' /\ Sent'
    BY <1>1, <1>2, <2>1, <2>2, <2>3, SameData, Zenon
  <2>6. ~Active(w)'
    BY <2>2, <2>3, Zenon DEF Active
  <2>7. ASSUME ~Disrupted' PROVE Removal' /\ Quiet'
    <3>1. Removal'
      BY <1>2, <1>3, <1>5, <2>1, <2>7, Zenon DEF Removal
    <3>2. Quiet'
      BY <1>2, <1>3, <1>5, <2>1, <2>7, Zenon DEF Quiet
    <3> QED BY <3>1, <3>2, Zenon
  <2> QED BY <1>1, <1>3, <1>4, <2>2, <2>3, <2>4, <2>5, <2>6, <2>7, Move, Zenon
<1> QED BY <1>6, <1>7, Zenon DEF Run
\* The next message moves from the batch to the history.
LEMMA RestStep ==
  ASSUME NEW q \in Seq(Msgs), NEW n \in Nat, n < Len(q), NEW l \in Seq(Msgs)
  PROVE  /\ q[n + 1] \in Msgs
         /\ SubSeq(q, n + 1, Len(q)) \in Seq(Msgs)
         /\ SubSeq(q, n + 1 + 1, Len(q)) \in Seq(Msgs)
         /\ l \o SubSeq(q, n + 1, Len(q)) = Append(l, q[n + 1]) \o SubSeq(q, n + 1 + 1, Len(q))
<1> DEFINE m == q[n + 1]
           r == SubSeq(q, n + 1 + 1, Len(q))
<1>1. n + 1 \in 1..Len(q) /\ Len(q) \in (n + 1)..Len(q) /\ Len(q) \in Nat
  OBVIOUS
<1>2. m \in Msgs
  BY <1>1
<1>3. r \in Seq(Msgs) /\ SubSeq(q, n + 1, Len(q)) \in Seq(Msgs)
  BY <1>1
<1>4. SubSeq(q, n + 1, Len(q)) = <<m>> \o r
  <2>1. <<m>> \in Seq(Msgs) /\ Len(<<m>>) = 1 /\ <<m>>[1] = m
    BY <1>2
  <2>2. Len(r) = Len(q) - (n + 1) /\ \A i \in 1..Len(r) : r[i] = q[n + 1 + i]
    BY <1>1
  <2>3. /\ Len(SubSeq(q, n + 1, Len(q))) = Len(q) - n
        /\ \A i \in 1..(Len(q) - n) : SubSeq(q, n + 1, Len(q))[i] = q[n + i]
    BY <1>1
  <2> DEFINE c == <<m>> \o r
             d == SubSeq(q, n + 1, Len(q))
  <2>4. c \in Seq(Msgs) /\ Len(c) = Len(q) - n /\ c[1] = m /\ \A i \in 1..Len(r) : c[1 + i] = r[i]
    BY <1>1, <1>3, <2>1, <2>2, Concat
  <2> HIDE DEF c, d, r
  <2>5. ASSUME NEW i \in 1..(Len(q) - n) PROVE c[i] = q[n + i]
    <3>1. CASE i = 1
      BY <2>4, <3>1, Zenon DEF m
    <3>2. CASE i # 1
      <4>1. i - 1 \in 1..Len(r) /\ 1 + (i - 1) = i /\ n + 1 + (i - 1) = n + i
        BY <1>1, <2>2, <3>2
      <4> QED BY <2>2, <2>4, <4>1, ZenonT(30)
    <3> QED BY <3>1, <3>2, Zenon
  <2>6. d \in Seq(Msgs) /\ Len(d) = Len(q) - n /\ \A i \in 1..(Len(q) - n) : d[i] = q[n + i]
    BY <1>3, <2>3, Zenon DEF d
  <2>7. c = d
    BY <2>4, <2>5, <2>6, SeqExt, Zenon
  <2> QED BY <2>7, Zenon DEF c, d
<1> HIDE DEF m, r
<1>5. l \o (<<m>> \o r) = (l \o <<m>>) \o r
  <2>1. <<m>> \in Seq(Msgs)
    BY <1>2
  <2> QED BY <1>3, <2>1, Assoc
<1>6. l \o <<m>> = Append(l, m)
  BY <1>2
<1> QED BY <1>2, <1>3, <1>4, <1>5, <1>6, Zenon DEF m, r

\* The frames after Receive.
LEMMA ReceiveFrames ==
  ASSUME TypeOK, NEW t \in Threads, NEW m \in Msgs, NEW f \in FrameType,
         f.nproc <= Len(f.msgs), InvokeMsg(t, m, f)
  PROVE  /\ log' = Append(log, m) /\ th' \in [Threads -> FrameType]
         /\ \A u \in Threads \ {t} : th'[u] = th[u]
         /\ \A u \in Threads : th'[u].nproc <= Len(th'[u].msgs)
         /\ th'[t].pc = IF m \in Panics THEN "recover" ELSE f.pc
         /\ th'[t].msgs = f.msgs /\ th'[t].nproc = f.nproc /\ th'[t].next = f.next
         /\ th'[t].cancel = f.cancel /\ th'[t].depth = f.depth
<1> DEFINE e == IF m \in Internal THEN "internal" ELSE "error"
           g == [f EXCEPT !.pc = "recover", !.err = e]
<1>1. e \in {"error", "internal"} /\ "recover" \in PCs
  BY Zenon DEF PCs
<1>2. CASE m \in Panics
  <2>1. log' = Append(log, m) /\ th' = [th EXCEPT ![t] = g]
    BY <1>2, Zenon DEF InvokeMsg
  <2> HIDE DEF e
  <2>2. g \in FrameType
    BY <1>1, ErrTyped, Zenon
  <2>3. /\ g.pc = "recover" /\ g.msgs = f.msgs /\ g.nproc = f.nproc /\ g.next = f.next
        /\ g.cancel = f.cancel /\ g.depth = f.depth
    BY <1>1, Zenon DEF FrameType
  <2> HIDE DEF g
  <2>4. g.nproc <= Len(g.msgs)
    BY <2>3, Zenon
  <2> QED BY <1>2, <2>1, <2>2, <2>3, <2>4, StepTyped, Zenon
<1>3. CASE m \notin Panics
  <2>1. log' = Append(log, m) /\ th' = [th EXCEPT ![t] = f]
    BY <1>3, Zenon DEF InvokeMsg
  <2> QED BY <1>3, <2>1, StepTyped, Zenon
<1> QED BY <1>2, <1>3, Zenon
\* A message of the batch is taken.
LEMMA TakenData ==
  ASSUME IInv, NEW t \in Threads, \A u \in Threads \ {t} : th'[u] = th[u],
         UNCHANGED <<call, queue, order, mbuffer>>, th'[t].msgs = th[t].msgs,
         NEW j \in 1..Len(th[t].msgs), th[t].msgs[j] \in Msgs, log' = Append(log, th[t].msgs[j])
  PROVE  QueueTail' /\ Sent'
<1> DEFINE m == th[t].msgs[j]
<1>1. QueueTail'
  BY Zenon DEF IInv, QueueTail
<1>2. call[m] = "returned" /\ m \in Msgs /\ log \in Seq(Msgs)
  BY Zenon DEF IInv, Sent, TypeOK
<1>3. log' = Append(log, m)
  BY Zenon
<1>4. \A u \in Threads : th'[u].msgs = th[u].msgs
  BY Zenon
<1> HIDE DEF m
<1>5. \A i \in 1..Len(log') : call[log'[i]] = "returned"
  <2>1. \A i \in 1..Len(log) : call[log[i]] = "returned"
    BY Zenon DEF IInv, Sent
  <2> QED BY <1>2, <1>3, <2>1
<1>6. \A u \in Threads : \A i \in 1..Len(th'[u].msgs) : call[th'[u].msgs[i]] = "returned"
  BY <1>4 DEF IInv, Sent
<1> QED BY <1>1, <1>5, <1>6, Zenon DEF IInv, Sent

\* What is still owed when the next message of the batch has been taken.
LEMMA OwedAfter ==
  ASSUME IInv, NEW t \in Threads, th[t].pc = "invoke", th[t].nproc < Len(th[t].msgs), th[t] \in FrameType,
         th'[t].msgs = th[t].msgs, th'[t].nproc = th[t].nproc + 1,
         \/ th'[t].pc \in {"invoke", "recover"}
         \/ th'[t].pc = "drain" /\ th'[t].next = th[t].nproc + 1 + 1,
         NEW x, Owes(t, x)
  PROVE  x = th[t].msgs[th[t].nproc + 1] \/ Owes(t, x)'
<1> DEFINE q == th[t].msgs
           n == th[t].nproc
<1>1. PICK j \in (n + 1)..Len(q) : q[j] = x
  BY Zenon DEF Owes, At
<1>2. n \in Nat /\ q \in Seq(Msgs)
  BY Zenon DEF FrameType
<1>3. /\ th'[t].msgs = q /\ th'[t].nproc = n + 1
      /\ th'[t].pc = "drain" => th'[t].next = n + 1 + 1
  BY Zenon
<1>4. CASE j = n + 1
  BY <1>1, <1>4, Zenon
<1>5. CASE j # n + 1
  <2> HIDE DEF q, n
  <2>1. j \in (n + 1 + 1)..Len(q)
    BY <1>1, <1>2, <1>5
  <2> QED BY <1>1, <1>3, <2>1, Zenon DEF Owes, At
<1> QED BY <1>4, <1>5, Zenon
\* A frame of Invoke that has got to message n, in its loop or in the loop of a
\* graceful pill; and one that has met the pill m.
LEMMA NprocTyped ==
  ASSUME NEW f \in FrameType, NEW n \in Nat
  PROVE  /\ [f EXCEPT !.nproc = n] \in FrameType
         /\ [f EXCEPT !.nproc = n].nproc = n /\ [f EXCEPT !.nproc = n].pc = f.pc
         /\ [f EXCEPT !.nproc = n].msgs = f.msgs /\ [f EXCEPT !.nproc = n].next = f.next
         /\ [f EXCEPT !.nproc = n].cancel = f.cancel /\ [f EXCEPT !.nproc = n].depth = f.depth
BY Zenon DEF FrameType

LEMMA NextTyped ==
  ASSUME NEW f \in FrameType, NEW n \in Nat
  PROVE  /\ [f EXCEPT !.next = n] \in FrameType
         /\ [f EXCEPT !.next = n].next = n /\ [f EXCEPT !.next = n].pc = f.pc
         /\ [f EXCEPT !.next = n].msgs = f.msgs /\ [f EXCEPT !.next = n].nproc = f.nproc
         /\ [f EXCEPT !.next = n].cancel = f.cancel /\ [f EXCEPT !.next = n].depth = f.depth
BY Zenon DEF FrameType

LEMMA PillTyped ==
  ASSUME NEW f \in FrameType, NEW m \in Pills, NEW pc \in PCs, NEW n \in Nat
  PROVE  /\ [f EXCEPT !.cancel = m, !.pc = pc, !.next = n] \in FrameType
         /\ [f EXCEPT !.cancel = m, !.pc = pc, !.next = n].cancel = m
         /\ [f EXCEPT !.cancel = m, !.pc = pc, !.next = n].pc = pc
         /\ [f EXCEPT !.cancel = m, !.pc = pc, !.next = n].next = n
         /\ [f EXCEPT !.cancel = m, !.pc = pc, !.next = n].msgs = f.msgs
         /\ [f EXCEPT !.cancel = m, !.pc = pc, !.next = n].nproc = f.nproc
         /\ [f EXCEPT !.cancel = m, !.pc = pc, !.next = n].depth = f.depth
BY Zenon DEF FrameType

LEMMA InvokeStep ==
  ASSUME IInv, NEW t \in Threads, Invoke(t)
  PROVE  IInv'
<1> DEFINE n == th[t].nproc
           f == [th[t] EXCEPT !.nproc = n + 1]
           m == th[t].msgs[n + 1]
<1>1. /\ TypeOK /\ th[t] \in FrameType /\ th[t].msgs \in Seq(Msgs) /\ n \in Nat
      /\ n <= Len(th[t].msgs) /\ log \in Seq(Msgs) /\ queue \in Seq(Msgs) /\ th[t].depth \in Nat
  BY Zenon DEF IInv, TypeOK, FrameType
<1>2. /\ th[t].pc = "invoke"
      /\ UNCHANGED <<registered, queue, procStatus, mbuffer, restarts, call, dead, order, done, life>>
  BY Zenon DEF Invoke, At, inboxVars, sendVars
<1>3. Active(t)
  BY <1>2, Zenon DEF Active
<1>4. ASSUME ~Disrupted
      PROVE  /\ Good(t) /\ Removal /\ procStatus # "idle" /\ registered /\ t # Spawner /\ done = {}
             /\ procStatus # "stopped" /\ life = "started"
             /\ ~Draining => order = (log \o Rest(t)) \o queue
             /\ \A i \in 1..(Len(order) - Len(queue)) : Taken(order[i]) \/ Owes(t, order[i])
  <2>1. Good(t) /\ Removal /\ procStatus # "idle"
    BY <1>3, <1>4, InScope, Zenon
  <2>2. registered /\ t # Spawner
    BY <1>2, <2>1, Zenon DEF Good, Phase, Role, Unwinding, At
  <2>3. done = {} /\ procStatus # "stopped" /\ life = "started"
    BY <1>2, <2>1, <2>2, Zenon DEF Good, Phase, LifeOf, Removal, At
  <2>4. ~Draining => order = (log \o Rest(t)) \o queue
    <3>1. Held(t) = Rest(t)
      BY <1>2, Zenon DEF Held
    <3> QED BY <1>2, <2>1, <2>2, <3>1, Zenon DEF Good, Conserves
  <2>5. \A i \in 1..(Len(order) - Len(queue)) : Taken(order[i]) \/ Owes(t, order[i])
    BY <1>2, <2>1, <2>2, Zenon DEF Good, Covers, Dropping, At
  <2> QED BY <2>1, <2>2, <2>3, <2>4, <2>5, Zenon
<1>5. CASE n < Len(th[t].msgs)
  <2>1. /\ f \in FrameType /\ f.nproc = n + 1 /\ f.pc = "invoke" /\ f.msgs = th[t].msgs
        /\ f.next = th[t].next /\ f.cancel = th[t].cancel /\ f.depth = th[t].depth
    <3>1. n + 1 \in Nat
      BY <1>1
    <3> QED BY <1>1, <1>2, <3>1, NprocTyped, Zenon
  <2>2. f.nproc <= Len(f.msgs) /\ n + 1 \in 1..Len(th[t].msgs)
    BY <1>1, <1>5, <2>1
  <2>3. m \in Msgs
    BY <1>1, <2>2
  <2>4. CASE m \notin Pills /\ InvokeMsg(t, m, f)
    <3> HIDE DEF f
    <3>1. /\ log' = Append(log, m) /\ th' \in [Threads -> FrameType]
          /\ \A u \in Threads \ {t} : th'[u] = th[u]
          /\ \A u \in Threads : th'[u].nproc <= Len(th'[u].msgs)
          /\ th'[t].pc = IF m \in Panics THEN "recover" ELSE "invoke"
          /\ th'[t].msgs = th[t].msgs /\ th'[t].nproc = n + 1
          /\ th'[t].cancel = th[t].cancel /\ th'[t].depth = th[t].depth
      BY <1>1, <2>1, <2>2, <2>3, <2>4, ReceiveFrames, SMTT(30)
    <3>2. /\ log' \in Seq(Msgs) /\ \A x : Taken(x)' <=> Taken(x) \/ x = m
          /\ Panicked' <=> Panicked \/ m \in Panics
          /\ Draining' <=> Draining \/ m \in Graceful
      BY <1>1, <2>3, <3>1, LongerLog, Zenon
    <3>3. TypeOK'
      BY <1>1, <1>2, <3>1, <3>2, Zenon DEF TypeOK
    <3>4. QueueTail' /\ Sent'
      BY <1>2, <2>2, <2>3, <3>1, TakenData, Zenon
    <3>5. Active(t)' /\ (Disrupted => Disrupted')
      BY <1>2, <3>1, <3>2, Zenon DEF Active, Disrupted
    <3>6. ASSUME ~Disrupted' PROVE Removal' /\ procStatus' # "idle" /\ Good(t)'
      <4>0. ~Disrupted
        BY <3>5, <3>6, Zenon
      <4>1. Removal' /\ procStatus' # "idle"
        BY <1>2, <1>4, <4>0, Zenon DEF Removal
      <4>2. Role(t)'
        BY <1>2, <1>4, <3>1, <3>2, <4>0, Zenon DEF Role, Good
      <4>3. Phase(t)'
        BY <1>2, <1>4, <3>1, <4>0, Zenon DEF Phase, At
      <4>4. LifeOf(t)'
        BY <1>2, <1>4, <3>1, <4>0, Zenon DEF LifeOf, At
      <4>5. Conserves(t)'
        <5>1. Held(t)' = SubSeq(th[t].msgs, n + 1 + 1, Len(th[t].msgs))
          BY <3>1, Zenon DEF Held, Rest
        <5>2. log \o Rest(t) = log' \o Held(t)'
          <6> DEFINE q == th[t].msgs
          <6>1. q \in Seq(Msgs) /\ n \in Nat /\ n < Len(q) /\ log' = Append(log, q[n + 1])
                /\ Held(t)' = SubSeq(q, n + 1 + 1, Len(q)) /\ Rest(t) = SubSeq(q, n + 1, Len(q))
            BY <1>1, <1>5, <3>1, <5>1, Zenon DEF Rest
          <6> HIDE DEF q, n
          <6>2. log \in Seq(Msgs)
            BY <1>1, Zenon
          <6>3. log \o SubSeq(q, n + 1, Len(q)) = Append(log, q[n + 1]) \o SubSeq(q, n + 1 + 1, Len(q))
            BY <6>1, <6>2, RestStep, Zenon
          <6> QED BY <6>1, <6>3, Zenon
        <5> QED BY <1>2, <1>4, <3>2, <4>0, <5>2, Zenon DEF Conserves
      <4>6. Covers(t)'
        <5>1. \A x : Owes(t, x) => x = m \/ Owes(t, x)'
          BY <1>1, <1>2, <1>5, <3>1, OwedAfter, Zenon
        <5> QED BY <1>2, <1>4, <3>2, <4>0, <5>1, Zenon DEF Covers
      <4> QED BY <4>1, <4>2, <4>3, <4>4, <4>5, <4>6, Zenon DEF Good
    <3> QED BY <1>3, <3>1, <3>2, <3>3, <3>4, <3>5, <3>6, Move, Zenon
  <2>5. CASE /\ m \in Pills /\ log' = Append(log, m)
             /\ th' = [th EXCEPT ![t] =
                  [f EXCEPT !.cancel = m, !.pc = IF m \in Graceful THEN "drain" ELSE "stopInbox",
                            !.next = f.nproc + 1]]
    <3> DEFINE pc == IF m \in Graceful THEN "drain" ELSE "stopInbox"
               g == [f EXCEPT !.cancel = m, !.pc = pc, !.next = f.nproc + 1]
    <3>1. th' = [th EXCEPT ![t] = g] /\ pc \in PCs /\ f.nproc + 1 \in Nat
      BY <1>1, <2>1, <2>5 DEF PCs
    <3> HIDE DEF f, pc
    <3>2. /\ g \in FrameType /\ g.cancel = m /\ g.pc = pc /\ g.next = n + 1 + 1
          /\ g.msgs = th[t].msgs /\ g.nproc = n + 1 /\ g.depth = th[t].depth
      <4>1. f \in FrameType /\ m \in Pills
        BY <2>1, <2>5, Zenon
      <4> HIDE DEF m
      <4>2. g \in FrameType
        BY <3>1, <4>1, PillTyped, Zenon
      <4>3. /\ g.cancel = m /\ g.pc = pc /\ g.next = f.nproc + 1
            /\ g.msgs = f.msgs /\ g.nproc = f.nproc /\ g.depth = f.depth
        BY <4>1, Zenon DEF FrameType
      <4> QED BY <2>1, <4>2, <4>3, Zenon
    <3> HIDE DEF g
    <3>3. g.nproc <= Len(g.msgs)
      BY <2>1, <2>2, <3>2, Zenon
    <3>4. /\ th' \in [Threads -> FrameType] /\ th'[t] = g
          /\ \A u \in Threads \ {t} : th'[u] = th[u]
          /\ \A u \in Threads : th'[u].nproc <= Len(th'[u].msgs)
      BY <1>1, <3>1, <3>2, <3>3, StepTyped, Zenon
    <3>5. /\ log' \in Seq(Msgs) /\ \A x : Taken(x)' <=> Taken(x) \/ x = m
          /\ Panicked' = Panicked /\ (Draining' <=> Draining \/ m \in Graceful)
      <4>1. m \notin Panics
        BY <2>5, MsgAssumption, Zenon
      <4> QED BY <1>1, <2>3, <2>5, <4>1, LongerLog, Zenon DEF Panicked
    <3>6. TypeOK'
      BY <1>1, <1>2, <3>4, <3>5, Zenon DEF TypeOK
    <3>7. QueueTail' /\ Sent'
      BY <1>2, <2>2, <2>3, <2>5, <3>2, <3>4, TakenData, Zenon
    <3>8. /\ th'[t].pc = IF m \in Graceful THEN "drain" ELSE "stopInbox"
          /\ Active(t)' /\ (Disrupted => Disrupted')
      BY <1>2, <3>2, <3>4, <3>5, Zenon DEF Active, Disrupted, pc
    <3>9. ASSUME ~Disrupted' PROVE Removal' /\ procStatus' # "idle" /\ Good(t)'
      <4>0. ~Disrupted
        BY <3>8, <3>9, Zenon
      <4>1. Removal' /\ procStatus' # "idle"
        BY <1>2, <1>4, <4>0, Zenon DEF Removal
      <4>2. Role(t)'
        BY <1>2, <1>4, <3>2, <3>4, <3>5, <3>8, <4>0, ZenonT(30) DEF Role, Good
      <4>3. Phase(t)'
        <5>1. m # NoCancel
          BY <2>3, MsgAssumption, Zenon DEF NoCancel
        <5> QED BY <1>2, <1>4, <3>2, <3>4, <3>8, <4>0, <5>1, Zenon DEF Phase, At
      <4>4. LifeOf(t)'
        BY <1>2, <1>4, <3>8, <4>0, Zenon DEF LifeOf, At
      <4>5. Conserves(t)'
        BY <3>5, <3>8, Zenon DEF Conserves
      <4>6. Covers(t)'
        <5>1. CASE m \in Graceful
          <6>1. \A x : Owes(t, x) => x = m \/ Owes(t, x)'
            BY <1>1, <1>2, <1>5, <3>2, <3>4, <3>8, <5>1, OwedAfter, Zenon
          <6> QED BY <1>2, <1>4, <3>5, <4>0, <6>1, Zenon DEF Covers
        <5>2. CASE m \notin Graceful
          BY <3>2, <3>4, <3>8, <5>2, Zenon DEF Covers, Dropping, At
        <5> QED BY <5>1, <5>2, Zenon
      <4> QED BY <4>1, <4>2, <4>3, <4>4, <4>5, <4>6, Zenon DEF Good
    <3>10. /\ th'[t].pc = "drain" => /\ Draining' /\ th'[t].next > th'[t].nproc
                                     /\ th'[t].cancel \in Graceful
      BY <1>1, <3>2, <3>4, <3>5, <3>8, SMTT(30)
    <3> QED BY <1>3, <3>4, <3>5, <3>6, <3>7, <3>8, <3>9, <3>10, Move, Zenon
  <2> QED BY <1>1, <1>5, <2>1, <2>4, <2>5 DEF Invoke
<1>6. CASE n = Len(th[t].msgs)
  <2>1. th' = [th EXCEPT ![t] = AfterInvoke(th[t])] /\ log' = log
    BY <1>1, <1>6 DEF Invoke
  <2>2. /\ AfterInvoke(th[t]) \in FrameType /\ AfterInvoke(th[t]).msgs = <<>>
        /\ AfterInvoke(th[t]).nproc = 0
        /\ th[t].depth > 0 => /\ AfterInvoke(th[t]).pc = "invoked"
                              /\ AfterInvoke(th[t]).depth = th[t].depth
        /\ ~(th[t].depth > 0) => AfterInvoke(th[t]).pc = "loop" /\ AfterInvoke(th[t]).depth = 0
    BY <1>1, AfterTyped, Zenon
  <2>3. AfterInvoke(th[t]).nproc <= Len(AfterInvoke(th[t]).msgs)
    BY <2>2
  <2>4. /\ th' \in [Threads -> FrameType] /\ th'[t] = AfterInvoke(th[t])
        /\ \A u \in Threads \ {t} : th'[u] = th[u]
        /\ \A u \in Threads : th'[u].nproc <= Len(th'[u].msgs)
    BY <1>1, <2>1, <2>2, <2>3, StepTyped, Zenon
  <2>5. TypeOK'
    BY <1>1, <1>2, <2>1, <2>4, Zenon DEF TypeOK
  <2>6. QueueTail' /\ Sent'
    BY <1>2, <2>1, <2>2, <2>4, SameData, Zenon
  <2>7. /\ Panicked' = Panicked /\ Draining' = Draining /\ \A x : Taken(x)' = Taken(x)
        /\ Disrupted' = Disrupted
    BY <1>2, <2>1, SameScope, Zenon
  <2>8. /\ th'[t].pc = IF th[t].depth > 0 THEN "invoked" ELSE "loop"
        /\ th'[t].depth = IF th[t].depth > 0 THEN th[t].depth ELSE 0
    BY <2>2, <2>4, Zenon
  <2>9. Active(t)'
    BY <2>8, Zenon DEF Active
  <2>10. ASSUME ~Disrupted' PROVE Removal' /\ procStatus' # "idle" /\ Good(t)'
    <3>0. ~Disrupted
      BY <2>7, <2>10, Zenon
    <3>1. Removal' /\ procStatus' # "idle"
      BY <1>2, <1>4, <2>7, <3>0, Zenon DEF Removal
    <3>2. Role(t)'
      <4>1. t # Spawner /\ (th[t].depth > 0 => Panicked')
        BY <1>2, <1>4, <2>7, <3>0, Zenon DEF Role, Good
      <4> QED BY <2>8, <4>1 DEF Role
    <3>3. Phase(t)'
      BY <1>2, <1>4, <2>8, <3>0, Zenon DEF Phase, At
    <3>4. LifeOf(t)'
      BY <1>2, <1>4, <2>8, <3>0, Zenon DEF LifeOf, At
    <3>5. Conserves(t)'
      <4>1. Rest(t) = <<>>
        BY <1>1, <1>6, WholeSeq, SMTT(30) DEF Rest
      <4>2. Held(t)' = <<>>
        BY <2>8, Zenon DEF Held
      <4> QED BY <1>2, <1>4, <2>1, <2>7, <3>0, <4>1, <4>2, Zenon DEF Conserves
    <3>6. Covers(t)'
      <4>1. \A x : ~Owes(t, x)
        BY <1>1, <1>2, <1>6 DEF Owes, At
      <4> QED BY <1>2, <1>4, <2>7, <3>0, <4>1, Zenon DEF Covers
    <3> QED BY <3>1, <3>2, <3>3, <3>4, <3>5, <3>6, Zenon DEF Good
  <2> QED BY <1>1, <1>3, <2>4, <2>5, <2>6, <2>7, <2>8, <2>9, <2>10, Move, Zenon
<1> QED BY <1>1, <1>5, <1>6
LEMMA InvokeDrainStep ==
  ASSUME IInv, NEW t \in Threads, InvokeDrain(t)
  PROVE  IInv'
<1> DEFINE k == th[t].next
           n == th[t].nproc
           f == [th[t] EXCEPT !.next = k + 1]
           m == th[t].msgs[k]
<1>1. /\ TypeOK /\ th[t] \in FrameType /\ th[t].msgs \in Seq(Msgs) /\ n \in Nat /\ k \in Nat
      /\ n <= Len(th[t].msgs)
  BY Zenon DEF IInv, TypeOK, FrameType
<1>2. /\ th[t].pc = "drain"
      /\ UNCHANGED <<registered, queue, procStatus, mbuffer, restarts, call, dead, order, done, life>>
  BY Zenon DEF InvokeDrain, At, inboxVars, sendVars
<1>3. Active(t) /\ Draining /\ n < k /\ th[t].cancel \in Graceful
  BY <1>2, Zenon DEF Active, IInv, Places, At
<1>4. ASSUME ~Disrupted
      PROVE  /\ Good(t) /\ Removal /\ procStatus # "idle" /\ registered /\ t # Spawner /\ done = {}
             /\ procStatus # "stopped" /\ life = "started"
             /\ \A i \in 1..(Len(order) - Len(queue)) : Taken(order[i]) \/ Owes(t, order[i])
  <2>1. Good(t) /\ Removal /\ procStatus # "idle"
    BY <1>3, <1>4, InScope, Zenon
  <2>2. registered /\ t # Spawner
    BY <1>2, <2>1, Zenon DEF Good, Phase, Role, Unwinding, At
  <2>3. done = {} /\ procStatus # "stopped" /\ life = "started"
    BY <1>2, <2>1, <2>2, Zenon DEF Good, Phase, LifeOf, Removal, At
  <2>4. \A i \in 1..(Len(order) - Len(queue)) : Taken(order[i]) \/ Owes(t, order[i])
    BY <1>2, <2>1, <2>2, Zenon DEF Good, Covers, Dropping, At
  <2> QED BY <2>1, <2>2, <2>3, <2>4, Zenon
<1>5. CASE k <= Len(th[t].msgs) /\ InvokeMsg(t, m, f)
  <2>1. /\ f \in FrameType /\ f.next = k + 1 /\ f.pc = "drain" /\ f.msgs = th[t].msgs
        /\ f.nproc = n /\ f.cancel = th[t].cancel /\ f.depth = th[t].depth
    <3>1. k + 1 \in Nat
      BY <1>1
    <3> QED BY <1>1, <1>2, <3>1, NextTyped, Zenon
  <2>2. f.nproc <= Len(f.msgs) /\ k \in 1..Len(th[t].msgs)
    BY <1>1, <1>3, <1>5, <2>1
  <2>3. m \in Msgs
    BY <1>1, <2>2
  <2> HIDE DEF f
  <2>4. /\ log' = Append(log, m) /\ th' \in [Threads -> FrameType]
        /\ \A u \in Threads \ {t} : th'[u] = th[u]
        /\ \A u \in Threads : th'[u].nproc <= Len(th'[u].msgs)
        /\ th'[t].pc = IF m \in Panics THEN "recover" ELSE "drain"
        /\ th'[t].msgs = th[t].msgs /\ th'[t].nproc = n /\ th'[t].next = k + 1
        /\ th'[t].cancel = th[t].cancel /\ th'[t].depth = th[t].depth
    BY <1>1, <1>5, <2>1, <2>2, <2>3, ReceiveFrames, ZenonT(30)
  <2>5. /\ log' \in Seq(Msgs) /\ \A x : Taken(x)' <=> Taken(x) \/ x = m
        /\ Panicked' <=> Panicked \/ m \in Panics
        /\ Draining'
    BY <1>1, <1>3, <2>3, <2>4, LongerLog, Zenon
  <2>6. TypeOK'
    BY <1>1, <1>2, <2>4, <2>5, Zenon DEF TypeOK
  <2>7. QueueTail' /\ Sent'
    BY <1>2, <2>2, <2>3, <2>4, TakenData, Zenon
  <2>8. Active(t)' /\ (Disrupted => Disrupted')
    BY <1>2, <2>4, <2>5, Zenon DEF Active, Disrupted
  <2>9. ASSUME ~Disrupted' PROVE Removal' /\ procStatus' # "idle" /\ Good(t)'
    <3>0. ~Disrupted
      BY <2>8, <2>9, Zenon
    <3>1. Removal' /\ procStatus' # "idle"
      BY <1>2, <1>4, <3>0, Zenon DEF Removal
    <3>2. Role(t)'
      BY <1>2, <1>4, <2>4, <2>5, <3>0, Zenon DEF Role, Good
    <3>3. Phase(t)'
      BY <1>2, <1>4, <2>4, <3>0, Zenon DEF Phase, At
    <3>4. LifeOf(t)' /\ Conserves(t)'
      BY <1>2, <1>4, <2>4, <2>5, <3>0, Zenon DEF LifeOf, Conserves, At
    <3>5. Covers(t)'
      <4>1. ASSUME NEW x, Owes(t, x) PROVE x = m \/ Owes(t, x)'
        <5> DEFINE q == th[t].msgs
        <5>1. PICK j \in k..Len(q) : q[j] = x
          BY <1>2, <4>1, Zenon DEF Owes, At
        <5>2. q \in Seq(Msgs) /\ th'[t].msgs = q /\ k \in Nat /\ n \in Nat /\ n < k
          BY <1>1, <1>3, <2>4, Zenon
        <5>3. CASE j = k
          BY <5>1, <5>3, Zenon
        <5>4. CASE j # k
          <6>1. th'[t].pc \in {"drain", "recover"} /\ th'[t].nproc = n /\ th'[t].next = k + 1
            BY <2>4, Zenon
          <6> HIDE DEF q, k, n
          <6>2. j \in (k + 1)..Len(q) /\ j \in (n + 1)..Len(q)
            BY <5>1, <5>2, <5>4
          <6> QED BY <5>1, <5>2, <6>1, <6>2, Zenon DEF Owes, At
        <5> QED BY <5>3, <5>4, Zenon
      <4> QED BY <1>2, <1>4, <2>5, <3>0, <4>1, Zenon DEF Covers
    <3> QED BY <3>1, <3>2, <3>3, <3>4, <3>5, Zenon DEF Good
  <2>10. /\ th'[t].pc = "drain" => /\ th'[t].next > th'[t].nproc
                                   /\ th'[t].cancel \in Graceful
         /\ th'[t].pc \in {"drain", "recover"}
    BY <1>1, <1>3, <2>4
  <2> QED BY <1>3, <2>4, <2>5, <2>6, <2>7, <2>8, <2>9, <2>10, Move, Zenon
<1>6. CASE k > Len(th[t].msgs) /\ Goto(t, "stopInbox") /\ log' = log
  <2>1. /\ th' \in [Threads -> FrameType]
        /\ \A u \in Threads \ {t} : th'[u] = th[u]
        /\ \A u \in Threads : th'[u].nproc <= Len(th'[u].msgs)
        /\ th'[t].pc = "stopInbox" /\ th'[t].msgs = th[t].msgs /\ th'[t].cancel = th[t].cancel
        /\ th'[t].depth = th[t].depth
    BY <1>1, <1>6, GotoFrames, Zenon DEF PCs
  <2>2. TypeOK'
    BY <1>1, <1>2, <1>6, <2>1, Zenon DEF TypeOK
  <2>3. QueueTail' /\ Sent'
    BY <1>2, <1>6, <2>1, SameData, Zenon
  <2>4. /\ Panicked' = Panicked /\ Draining' = Draining /\ \A x : Taken(x)' = Taken(x)
        /\ Disrupted' = Disrupted
    BY <1>2, <1>6, SameScope, Zenon
  <2>5. Active(t)'
    BY <2>1, Zenon DEF Active
  <2>6. ASSUME ~Disrupted' PROVE Removal' /\ procStatus' # "idle" /\ Good(t)'
    <3>0. ~Disrupted
      BY <2>4, <2>6, Zenon
    <3>1. Removal' /\ procStatus' # "idle"
      BY <1>2, <1>4, <2>4, <3>0, Zenon DEF Removal
    <3>2. Role(t)'
      BY <1>2, <1>4, <2>1, <2>4, <3>0, Zenon DEF Role, Good
    <3>3. Phase(t)'
      <4>1. th'[t].cancel # NoCancel
        BY <1>3, <2>1, MsgAssumption, Zenon DEF NoCancel
      <4> QED BY <1>2, <1>4, <2>1, <3>0, <4>1, Zenon DEF Phase, At
    <3>4. LifeOf(t)' /\ Conserves(t)'
      BY <1>3, <2>1, <2>4, Zenon DEF LifeOf, Conserves, At
    <3>5. Covers(t)'
      <4>1. \A x : ~Owes(t, x)
        BY <1>1, <1>2, <1>6 DEF Owes, At
      <4> QED BY <1>2, <1>4, <2>4, <3>0, <4>1, Zenon DEF Covers
    <3> QED BY <3>1, <3>2, <3>3, <3>4, <3>5, Zenon DEF Good
  <2> QED BY <1>3, <2>1, <2>2, <2>3, <2>4, <2>5, <2>6, Move, Zenon
<1> QED BY <1>5, <1>6 DEF InvokeDrain

-----------------------------------------------------------------------------
\* A step of a sender.
LEMMA Still ==
  ASSUME IInv, UNCHANGED <<th, procStatus, log>>, TypeOK', QueueTail', Sent', Disrupted => Disrupted',
         ~Disrupted' => /\ Removal'
                        /\ \A t \in Threads : Active(t) => Good(t)'
                        /\ (\A t \in Threads : ~Active(t)) => Quiet'
  PROVE  IInv'
<1>1. Draining' = Draining /\ \A t \in Threads : Active(t)' = Active(t)
  BY SameLog, Zenon DEF Active
<1>2. Places'
  BY <1>1, Zenon DEF IInv, Places, At
<1>3. ASSUME ~Disrupted' PROVE Calm'
  <2>1. Alone'
    BY <1>1, <1>3, Zenon DEF IInv, Calm, Alone
  <2> QED BY <1>1, <1>3, <2>1, Zenon DEF Calm
<1> QED BY <1>2, <1>3, Zenon DEF IInv

\* A call that goes on was not delivered before.
LEMMA CallData ==
  ASSUME IInv, NEW m \in Msgs, call[m] # "returned", NEW c, call' = [call EXCEPT ![m] = c],
         UNCHANGED <<th, queue, order, mbuffer, log>>
  PROVE  QueueTail' /\ Sent' /\ ~Taken(m)
<1>1. QueueTail'
  BY Zenon DEF IInv, QueueTail
<1>2. \A x \in Msgs : call[x] = "returned" => call'[x] = "returned"
  BY Zenon DEF IInv, TypeOK
<1>3. /\ \A i \in 1..Len(queue) : queue[i] \in Msgs /\ call[queue[i]] = "returned"
      /\ \A i \in 1..Len(mbuffer) : mbuffer[i] \in Msgs /\ call[mbuffer[i]] = "returned"
      /\ \A i \in 1..Len(log) : log[i] \in Msgs /\ call[log[i]] = "returned"
  BY DEF IInv, TypeOK, Sent
<1>4. \A t \in Threads : \A i \in 1..Len(th[t].msgs) :
        th[t].msgs[i] \in Msgs /\ call[th[t].msgs[i]] = "returned"
  <2>1. \A t \in Threads : th[t].msgs \in Seq(Msgs)
    BY Zenon DEF IInv, TypeOK, FrameType
  <2> QED BY <2>1 DEF IInv, Sent
<1>5. Sent'
  BY <1>2, <1>3, <1>4, Zenon DEF Sent
<1>6. ~Taken(m)
  BY <1>3, Zenon DEF Taken
<1> QED BY <1>1, <1>5, <1>6, Zenon

\* Only the spawner can be in Registry.add.
LEMMA AddIsSpawner ==
  ASSUME IInv, NEW t \in Threads, At(t, "add")
  PROVE  ~Known
BY Zenon DEF IInv, Places, At, Threads, Known

LEMMA SendLocalStep ==
  ASSUME IInv, NEW m \in Msgs, SendLocal(m)
  PROVE  IInv'
<1>1. TypeOK BY Zenon DEF IInv
<1>2. /\ Known /\ call[m] # "returned" /\ dead' \subseteq dead \cup {m}
      /\ UNCHANGED <<registered, queue, procStatus, mbuffer, restarts, th, done, life, log, order>>
  BY Zenon DEF SendLocal, inboxVars
<1>3. PICK c \in {"found", "returned"} : call' = [call EXCEPT ![m] = c]
  BY Zenon DEF SendLocal
<1>4. TypeOK'
  BY <1>1, <1>2, <1>3, Zenon DEF TypeOK
<1>5. QueueTail' /\ Sent'
  BY <1>2, <1>3, CallData, Zenon
<1>6. /\ Panicked' = Panicked /\ Draining' = Draining /\ \A x : Taken(x)' = Taken(x)
      /\ Disrupted' = Disrupted
  BY <1>2, SameScope, Zenon
<1>7. ASSUME ~Disrupted' PROVE Removal' /\ ((\A t \in Threads : ~Active(t)) => Quiet')
  BY <1>2, <1>6, <1>7, Zenon DEF IInv, Calm, Removal, Quiet
<1>8. ASSUME ~Disrupted', NEW t \in Threads, Active(t) PROVE Good(t)'
  <2>1. Good(t)
    BY <1>6, <1>8, InScope, Zenon
  <2>2. ~At(t, "add")
    BY <1>2, AddIsSpawner, Zenon
  <2>3. Role(t)' /\ Phase(t)' /\ LifeOf(t)'
    BY <1>2, <1>6, <2>1, <2>2, Zenon DEF Good, Role, Phase, LifeOf, Unwinding, At
  <2>4. Conserves(t)' /\ Covers(t)'
    <3>1. Held(t)' = Held(t) /\ \A x : Owes(t, x)' = Owes(t, x)
      BY <1>2, Zenon DEF Held, Rest, Owes, At
    <3> QED BY <1>2, <1>6, <2>1, <3>1, Zenon DEF Good, Conserves, Covers, Dropping, At
  <2> QED BY <2>3, <2>4, Zenon DEF Good
<1> QED BY <1>2, <1>4, <1>5, <1>6, <1>7, <1>8, Still, Zenon

LEMMA SendPoisonPillStep ==
  ASSUME IInv, NEW m \in Msgs, SendPoisonPill(m)
  PROVE  IInv'
<1>1. TypeOK BY Zenon DEF IInv
<1>2. /\ Known /\ m \in Pills /\ call[m] # "returned" /\ dead' \subseteq dead \cup {m}
      /\ \/ done' = done
         \/ ~registered /\ done' = done \cup {m}
      /\ UNCHANGED <<registered, queue, procStatus, mbuffer, restarts, th, life, log, order>>
  BY Zenon DEF SendPoisonPill, inboxVars
<1>3. PICK c \in {"checked", "returned"} : call' = [call EXCEPT ![m] = c]
  BY Zenon DEF SendPoisonPill
<1>4. TypeOK'
  BY <1>1, <1>2, <1>3, Zenon DEF TypeOK
<1>5. QueueTail' /\ Sent' /\ ~Taken(m)
  BY <1>2, <1>3, CallData, Zenon
<1>6. /\ Panicked' = Panicked /\ Draining' = Draining /\ \A x : Taken(x)' = Taken(x)
      /\ Disrupted => Disrupted'
  BY <1>2, SameLog DEF Disrupted
<1>7. ASSUME ~Disrupted' PROVE Removal' /\ ((\A t \in Threads : ~Active(t)) => Quiet')
  <2>1. Calm
    BY <1>6, <1>7, Zenon DEF IInv
  <2> QED BY <1>2, <1>5, <1>6, <2>1, Zenon DEF Calm, Removal, Quiet
<1>8. ASSUME ~Disrupted', NEW t \in Threads, Active(t) PROVE Good(t)'
  <2>1. Good(t)
    BY <1>6, <1>8, InScope, Zenon
  <2>2. ~At(t, "add") /\ (done' # done => ~Panicked)
    BY <1>2, <1>6, <1>8, AddIsSpawner, Zenon DEF Disrupted
  <2>3. Role(t)' /\ Phase(t)' /\ LifeOf(t)'
    BY <1>2, <1>6, <2>1, <2>2, Zenon DEF Good, Role, Phase, LifeOf, Unwinding, At
  <2>4. Conserves(t)' /\ Covers(t)'
    <3>1. Held(t)' = Held(t) /\ \A x : Owes(t, x)' = Owes(t, x)
      BY <1>2, Zenon DEF Held, Rest, Owes, At
    <3> QED BY <1>2, <1>6, <2>1, <3>1, Zenon DEF Good, Conserves, Covers, Dropping, At
  <2> QED BY <2>3, <2>4, Zenon DEF Good
<1> QED BY <1>2, <1>4, <1>5, <1>6, <1>7, <1>8, Still, Zenon
\* The inbox accepts or drops messages: what has left it stays where it was.
LEMMA Requeue ==
  ASSUME TypeOK, QueueTail, queue' \in Seq(Msgs),
         order' = SubSeq(order, 1, Len(order) - Len(queue)) \o queue'
  PROVE  /\ order' \in Seq(Msgs) /\ QueueTail'
         /\ Len(order') - Len(queue') = Len(order) - Len(queue)
         /\ \A i \in 1..(Len(order) - Len(queue)) : order'[i] = order[i]
         /\ \A x \in Seq(Msgs) : order = x \o queue => order' = x \o queue'
<1> DEFINE o == order
           q == queue
           r == queue'
           n == Len(o) - Len(q)
           b == SubSeq(o, 1, n)
<1>1. /\ o \in Seq(Msgs) /\ q \in Seq(Msgs) /\ r \in Seq(Msgs) /\ order' = b \o r
      /\ Len(q) <= Len(o)
  BY Zenon DEF TypeOK, QueueTail
<1>2. n \in 0..Len(o) /\ n \in Nat /\ Len(r) \in Nat
  BY <1>1
<1> HIDE DEF n
<1>3. b \in Seq(Msgs) /\ Len(b) = n /\ \A i \in 1..n : b[i] = o[i]
  BY <1>1, <1>2
<1> HIDE DEF b
<1>4. /\ order' \in Seq(Msgs) /\ Len(order') = n + Len(r)
      /\ \A i \in 1..n : order'[i] = b[i]
      /\ \A i \in 1..Len(r) : order'[n + i] = r[i]
  <2>1. b \in Seq(Msgs) /\ r \in Seq(Msgs) /\ Len(b) = n
    BY <1>1, <1>3, Zenon
  <2>2. order' = b \o r
    BY <1>1, Zenon
  <2> HIDE DEF r
  <2>3. b \o r \in Seq(Msgs) /\ Len(b \o r) = Len(b) + Len(r)
    BY <2>1, Concat, Zenon
  <2>4. /\ \A i \in 1..Len(b) : (b \o r)[i] = b[i]
        /\ \A i \in 1..Len(r) : (b \o r)[Len(b) + i] = r[i]
    BY <2>1, SMTT(30)
  <2> QED BY <2>1, <2>2, <2>3, <2>4, Zenon
<1>5. Len(order') - Len(r) = n
  BY <1>2, <1>4
<1>6. QueueTail'
  <2>1. Len(r) <= Len(order')
    BY <1>2, <1>4
  <2> QED BY <1>4, <1>5, <2>1, Zenon DEF QueueTail
<1>7. ASSUME NEW x \in Seq(Msgs), o = x \o q PROVE b = x
  <2>1. Len(x) = n /\ \A i \in 1..n : o[i] = x[i]
    <3>1. Len(x \o q) = Len(x) + Len(q) /\ Len(x) \in Nat /\ Len(q) \in Nat
      BY <1>1
    <3>2. Len(x) = n
      BY <1>7, <3>1 DEF n
    <3>3. \A i \in 1..Len(x) : (x \o q)[i] = x[i]
      BY <1>1
    <3> QED BY <1>7, <3>2, <3>3, Zenon
  <2> QED BY <1>3, <2>1, SeqExt, Zenon
<1>8. \A x \in Seq(Msgs) : o = x \o q => order' = x \o r
  BY <1>1, <1>7, Zenon
<1>9. \A i \in 1..n : order'[i] = o[i]
  BY <1>3, <1>4, Zenon
<1> QED BY <1>4, <1>5, <1>6, <1>8, <1>9, Zenon DEF n

\* The goroutines do not notice.
LEMMA RequeueGood ==
  ASSUME IInv, queue' \in Seq(Msgs),
         order' = SubSeq(order, 1, Len(order) - Len(queue)) \o queue',
         UNCHANGED <<registered, procStatus, mbuffer, restarts, th, done, life, log>>,
         ~Disrupted, Known
  PROVE  /\ Removal' /\ \A t \in Threads : Active(t) => Good(t)'
         /\ (\A t \in Threads : ~Active(t)) => Quiet'
<1>1. /\ Panicked' = Panicked /\ Draining' = Draining /\ \A x : Taken(x)' = Taken(x)
  BY SameLog, Zenon
<1>2. /\ Len(order') - Len(queue') = Len(order) - Len(queue)
      /\ \A i \in 1..(Len(order) - Len(queue)) : order'[i] = order[i]
      /\ \A x \in Seq(Msgs) : order = x \o queue => order' = x \o queue'
  BY Requeue, Zenon DEF IInv
<1>3. /\ log \in Seq(Msgs) /\ mbuffer \in Seq(Msgs) /\ queue \in Seq(Msgs)
      /\ \A t \in Threads : /\ th[t].msgs \in Seq(Msgs) /\ th[t].nproc \in Nat
                            /\ th[t].nproc <= Len(th[t].msgs)
  BY Zenon DEF IInv, TypeOK, FrameType
<1>4. Removal'
  BY <1>1, Zenon DEF IInv, Calm, Removal
<1>5. (\A t \in Threads : ~Active(t)) => Quiet'
  BY <1>1, <1>2, <1>3, Zenon DEF IInv, Calm, Quiet
<1>6. ASSUME NEW t \in Threads, Active(t) PROVE Good(t)'
  <2>1. Good(t)
    BY <1>6, InScope, Zenon
  <2>2. ~At(t, "add")
    BY AddIsSpawner, Zenon
  <2>3. Role(t)' /\ Phase(t)' /\ LifeOf(t)'
    BY <1>1, <2>1, <2>2, Zenon DEF Good, Role, Phase, LifeOf, Unwinding, At
  <2>4. Held(t)' = Held(t) /\ \A x : Owes(t, x)' = Owes(t, x)
    BY Zenon DEF Held, Rest, Owes, At
  <2>5. log \o Held(t) \in Seq(Msgs)
    <3>1. Rest(t) \in Seq(Msgs)
      BY <1>3, RestElements, Zenon DEF Rest
    <3>2. Held(t) \in Seq(Msgs)
      BY <1>3, <3>1 DEF Held
    <3> QED BY <1>3, <3>2
  <2>6. Conserves(t)'
    BY <1>1, <1>2, <2>1, <2>4, <2>5, Zenon DEF Good, Conserves
  <2>7. Covers(t)'
    BY <1>1, <1>2, <2>1, <2>4, Zenon DEF Good, Covers, Dropping, At
  <2> QED BY <2>3, <2>6, <2>7, Zenon DEF Good
<1> QED BY <1>4, <1>5, <1>6, Zenon

LEMMA ClearMailboxStep ==
  ASSUME IInv, ClearMailbox
  PROVE  IInv'
<1>1. TypeOK BY Zenon DEF IInv
<1>2. /\ registered /\ queue' = <<>>
      /\ order' = SubSeq(order, 1, Len(order) - Len(queue))
      /\ UNCHANGED <<registered, procStatus, mbuffer, restarts, th, call, done, dead, life, log>>
  BY Zenon DEF ClearMailbox
<1>3. queue' \in Seq(Msgs) /\ order' = SubSeq(order, 1, Len(order) - Len(queue)) \o queue'
  <2>1. Len(order) - Len(queue) \in 0..Len(order) /\ order \in Seq(Msgs)
    BY DEF IInv, TypeOK, QueueTail
  <2>2. SubSeq(order, 1, Len(order) - Len(queue)) \in Seq(Msgs)
    BY <2>1, SplitSeq, Zenon
  <2> QED BY <1>2, <2>2, WholeSeq
<1>4. order' \in Seq(Msgs) /\ QueueTail'
  BY <1>1, <1>3, Requeue, Zenon DEF IInv
<1>5. TypeOK'
  BY <1>1, <1>2, <1>3, <1>4, Zenon DEF TypeOK
<1>6. Sent'
  BY <1>2 DEF IInv, Sent
<1>7. Disrupted' = Disrupted
  BY <1>2, SameScope, Zenon
<1>8. ~Disrupted => Known
  <2>1. ASSUME At(Spawner, "add"), ~Disrupted PROVE FALSE
    <3>1. Spawner \in Threads /\ Active(Spawner)
      BY <2>1, Zenon DEF Threads, Active, At
    <3>2. Good(Spawner)
      BY <2>1, <3>1, InScope, Zenon
    <3> QED BY <1>2, <2>1, <3>2, Zenon DEF Good, Phase, At
  <2> QED BY <2>1, Zenon DEF Known
<1> QED BY <1>2, <1>3, <1>4, <1>5, <1>6, <1>7, <1>8, RequeueGood, Still, Zenon
\* The frames with a new goroutine in inbox.process, wherever it is.
LEMMA WithWorkerTyped ==
  ASSUME NEW g \in [Threads -> FrameType], \A u \in Threads : g[u].nproc <= Len(g[u].msgs),
         NEW h, h = WithWorker(g)
  PROVE  /\ h \in [Threads -> FrameType]
         /\ \A u \in Threads : h[u] = g[u] \/ h[u] = Frame("loop")
         /\ \A u \in Threads : h[u].nproc <= Len(h[u].msgs)
<1>1. /\ Frame("loop") \in FrameType /\ Frame("loop").msgs = <<>> /\ Frame("loop").nproc = 0
  BY FrameTyped, Zenon DEF PCs
<1> DEFINE w == CHOOSE w \in Workers : g[w].pc = "none"
<1>2. h = [g EXCEPT ![w] = Frame("loop")]
  BY Zenon DEF WithWorker
<1> HIDE DEF w
<1>3. /\ h \in [Threads -> FrameType]
      /\ \A u \in Threads : h[u] = g[u] \/ h[u] = Frame("loop")
  BY <1>1, <1>2, Zenon
<1>4. Frame("loop").nproc <= Len(Frame("loop").msgs)
  BY <1>1
<1> QED BY <1>3, <1>4, Zenon

\* When no goroutine executes the process, the new one is its only one.
LEMMA WithWorkerAlone ==
  ASSUME NEW g \in [Threads -> FrameType], NEW h, h = WithWorker(g),
         \A u \in Workers : g[u].pc = "none"
  PROVE  \E w \in Workers : /\ h[w] = Frame("loop")
                            /\ \A u \in Threads \ {w} : h[u] = g[u]
<1> DEFINE w == CHOOSE w \in Workers : g[w].pc = "none"
<1>1. w \in Workers
  BY BoundAssumption, Zenon
<1>2. h = [g EXCEPT ![w] = Frame("loop")]
  BY Zenon DEF WithWorker
<1> HIDE DEF w
<1>3. w \in Threads
  BY <1>1, Zenon DEF Threads
<1> QED BY <1>1, <1>2, <1>3, Zenon

\* The new goroutine finds the inbox open and the receiver started.
LEMMA NewWorker ==
  ASSUME NEW w \in Workers, th'[w] = Frame("loop"), \A u \in Threads \ {w} : ~Active(u)',
         registered', done' = {}, procStatus' = "running", life' = "started",
         log' \in Seq(Msgs), queue' \in Seq(Msgs),
         ~Draining' => order' = log' \o queue',
         (\A i \in 1..(Len(order) - Len(queue)) : Taken(order[i]))'
  PROVE  Calm'
<1>1. th'[w].pc = "loop" /\ th'[w].depth = 0
  BY FrameTyped DEF PCs
<1>2. w \in Threads /\ w # Spawner
  BY BoundAssumption, Zenon DEF Threads, Spawner
<1>3. Alone' /\ Removal'
  BY <1>1, <1>2, Zenon DEF Alone, Removal
<1>4. Role(w)' /\ Phase(w)' /\ LifeOf(w)'
  BY <1>1, <1>2 DEF Role, Phase, LifeOf, At
<1>7. Covers(w)'
  BY Zenon DEF Covers
<1>5. Conserves(w)'
  <2>1. Held(w)' = <<>>
    BY <1>1, Zenon DEF Held
  <2>2. log' \o <<>> = log'
    BY WholeSeq, Zenon
  <2> QED BY <2>1, <2>2, Zenon DEF Conserves
<1>6. Active(w)'
  BY <1>1, Zenon DEF Active
<1> QED BY <1>2, <1>3, <1>4, <1>5, <1>6, <1>7, Zenon DEF Calm, Good
\* A goroutine that finds the inbox idle, and so itself alone.
LEMMA DeliverStep ==
  ASSUME IInv, NEW m \in Msgs, Deliver(m)
  PROVE  IInv'
<1>1. /\ TypeOK /\ th \in [Threads -> FrameType] /\ \A u \in Threads : th[u].nproc <= Len(th[u].msgs)
      /\ order \in Seq(Msgs) /\ queue \in Seq(Msgs) /\ log \in Seq(Msgs)
  BY Zenon DEF IInv, TypeOK
<1>2. /\ call[m] = "found" /\ call' = [call EXCEPT ![m] = "returned"]
      /\ UNCHANGED <<registered, mbuffer, restarts, done, dead, life, log>>
  BY Zenon DEF Deliver
<1>3. /\ queue' \in Seq(Msgs) /\ order' = SubSeq(order, 1, Len(order) - Len(queue)) \o queue'
      /\ \A i \in 1..Len(queue') : queue'[i] = m \/ \E j \in 1..Len(queue) : queue'[i] = queue[j]
  <2> DEFINE b == SubSeq(order, 1, Len(order) - Len(queue))
  <2>1. b \in Seq(Msgs)
    <3>1. Len(order) - Len(queue) \in 0..Len(order)
      BY <1>1 DEF IInv, QueueTail
    <3> QED BY <1>1, <3>1, SplitSeq, Zenon
  <2>2. \/ queue' = <<m>> \o queue /\ order' = (b \o <<m>>) \o queue
        \/ queue' = Append(queue, m) /\ order' = b \o queue'
    BY Zenon DEF Deliver
  <2> HIDE DEF b
  <2>3. CASE queue' = <<m>> \o queue /\ order' = (b \o <<m>>) \o queue
    <3>1. <<m>> \in Seq(Msgs) /\ Len(<<m>>) = 1 /\ <<m>>[1] = m
      OBVIOUS
    <3>2. b \o (<<m>> \o queue) = (b \o <<m>>) \o queue
      BY <1>1, <2>1, <3>1, Assoc
    <3>3. queue' \in Seq(Msgs) /\ Len(queue') = 1 + Len(queue)
      BY <1>1, <2>3, <3>1, Concat, Zenon
    <3>4. ASSUME NEW i \in 1..Len(queue')
          PROVE  queue'[i] = m \/ \E j \in 1..Len(queue) : queue'[i] = queue[j]
      <4>1. CASE i = 1
        BY <1>1, <2>3, <3>1, <4>1
      <4>2. CASE i # 1
        <5>1. i - 1 \in 1..Len(queue)
          BY <1>1, <3>3, <4>2
        <5>2. queue'[i] = queue[i - 1]
          BY <1>1, <2>3, <3>1, <3>3, <4>2
        <5> QED BY <5>1, <5>2, Zenon
      <4> QED BY <4>1, <4>2, Zenon
    <3> QED BY <2>3, <3>2, <3>3, <3>4, Zenon DEF b
  <2>4. CASE queue' = Append(queue, m) /\ order' = b \o queue'
    BY <1>1, <2>4 DEF b
  <2> QED BY <2>2, <2>3, <2>4, Zenon
<1>4. order' \in Seq(Msgs) /\ QueueTail'
  BY <1>1, <1>3, Requeue, Zenon DEF IInv
<1>5. /\ Panicked' = Panicked /\ Draining' = Draining /\ \A x : Taken(x)' = Taken(x)
      /\ Disrupted' = Disrupted
  BY <1>2, SameScope, Zenon
<1>6. ASSUME ~Disrupted PROVE Known
  <2>1. ASSUME At(Spawner, "add") PROVE FALSE
    <3>1. Spawner \in Threads /\ Active(Spawner)
      BY <2>1, Zenon DEF Threads, Active, At
    <3>2. Good(Spawner)
      BY <1>6, <3>1, InScope, Zenon
    <3> QED BY <1>2, <2>1, <3>2, Zenon DEF Good, Phase, At
  <2> QED BY <2>1, Zenon DEF Known
<1>7. ASSUME \A u \in Threads : th'[u].msgs = th[u].msgs \/ th'[u].msgs = <<>>
      PROVE  Sent'
  <2>1. \A x \in Msgs : call[x] = "returned" \/ x = m => call'[x] = "returned"
    BY <1>1, <1>2, Zenon DEF TypeOK
  <2>2. \A i \in 1..Len(queue') : call'[queue'[i]] = "returned"
    <3>1. \A i \in 1..Len(queue) : queue[i] \in Msgs /\ call[queue[i]] = "returned"
      BY <1>1 DEF IInv, Sent
    <3> QED BY <1>3, <2>1, <3>1, ZenonT(30)
  <2>3. /\ \A i \in 1..Len(mbuffer) : mbuffer[i] \in Msgs /\ call[mbuffer[i]] = "returned"
        /\ \A i \in 1..Len(log) : log[i] \in Msgs /\ call[log[i]] = "returned"
    BY DEF IInv, TypeOK, Sent
  <2>4. \A u \in Threads : \A i \in 1..Len(th'[u].msgs) : call'[th'[u].msgs[i]] = "returned"
    <3>1. \A u \in Threads : \A i \in 1..Len(th[u].msgs) :
            th[u].msgs[i] \in Msgs /\ call[th[u].msgs[i]] = "returned"
      <4>1. \A u \in Threads : th[u].msgs \in Seq(Msgs)
        BY <1>1, Zenon DEF FrameType
      <4> QED BY <4>1 DEF IInv, Sent
    <3> QED BY <1>7, <2>1, <3>1
  <2> QED BY <1>2, <2>1, <2>2, <2>3, <2>4, Zenon DEF Sent
<1>8. CASE procStatus # "idle" /\ UNCHANGED <<procStatus, th>>
  <2>1. Sent'
    BY <1>7, <1>8, Zenon
  <2>2. TypeOK'
    BY <1>1, <1>2, <1>3, <1>4, <1>8, Zenon DEF TypeOK
  <2> QED BY <1>2, <1>3, <1>4, <1>5, <1>6, <1>8, <2>1, <2>2, RequeueGood, Still, Zenon
<1>9. CASE procStatus = "idle" /\ procStatus' = "running" /\ th' = WithWorker(th)
  <2>1. /\ th' \in [Threads -> FrameType]
        /\ \A u \in Threads : th'[u] = th[u] \/ th'[u] = Frame("loop")
        /\ \A u \in Threads : th'[u].nproc <= Len(th'[u].msgs)
    BY <1>1, <1>9, WithWorkerTyped, Zenon
  <2>2. Frame("loop").msgs = <<>> /\ Frame("loop").pc = "loop"
    BY FrameTyped, Zenon DEF PCs
  <2>3. Sent'
    BY <1>7, <2>1, <2>2, Zenon
  <2>4. TypeOK'
    BY <1>1, <1>2, <1>3, <1>4, <1>9, <2>1, Zenon DEF TypeOK
  <2>5. Places'
    <3>1. \A u \in Threads : th'[u] = th[u] \/ th'[u].pc = "loop"
      BY <2>1, <2>2, Zenon
    <3>2. Workers \subseteq Threads /\ Spawner \in Threads
      BY Zenon DEF Threads
    <3> QED BY <1>2, <1>5, <3>1, <3>2, Zenon DEF IInv, Places, At
  <2>6. ASSUME ~Disrupted' PROVE Calm'
    <3>1. Calm /\ \A u \in Threads : ~Active(u)
      BY <1>5, <1>9, <2>6, Zenon DEF IInv, Calm, Alone
    <3>2. registered /\ done = {} /\ Quiet
      BY <1>9, <3>1, Zenon DEF Calm, Removal
    <3>3. /\ Len(order') - Len(queue') = Len(order) - Len(queue)
          /\ \A i \in 1..(Len(order) - Len(queue)) : order'[i] = order[i]
          /\ \A x \in Seq(Msgs) : order = x \o queue => order' = x \o queue'
      BY <1>3, Requeue, Zenon DEF IInv
    <3>4. \A u \in Workers : th[u].pc = "none"
      BY <3>1, Zenon DEF IInv, Places, Active, Threads
    <3>14. th \in [Threads -> FrameType] /\ th' = WithWorker(th)
      BY <1>1, <1>9, Zenon
    <3>5. PICK w \in Workers : th'[w] = Frame("loop") /\ \A u \in Threads \ {w} : th'[u] = th[u]
      BY <3>4, <3>14, WithWorkerAlone
    <3>6. \A u \in Threads \ {w} : ~Active(u)'
      BY <3>1, <3>5, Zenon DEF Active
    <3>7. life' = "started" /\ (~Draining' => order' = log' \o queue')
      BY <1>1, <1>2, <1>5, <3>2, <3>3, Zenon DEF Quiet
    <3>8. (\A i \in 1..(Len(order) - Len(queue)) : Taken(order[i]))'
      BY <1>5, <3>2, <3>3, Zenon DEF Quiet
    <3> QED BY <1>1, <1>2, <1>3, <1>9, <3>2, <3>5, <3>6, <3>7, <3>8, NewWorker, Zenon
  <2> QED BY <1>4, <2>3, <2>4, <2>5, <2>6, Zenon DEF IInv
<1> QED BY <1>8, <1>9, Zenon DEF Deliver
LEMMA StartInboxStep ==
  ASSUME IInv, NEW t \in Threads, StartInbox(t)
  PROVE  IInv'
<1> DEFINE base == IF t = Spawner THEN "returned" ELSE "loop"
           f == IF th[t].depth > 0 THEN [th[t] EXCEPT !.pc = "invoked"] ELSE Frame(base)
           g == [th EXCEPT ![t] = f]
<1>1. /\ TypeOK /\ th \in [Threads -> FrameType] /\ \A u \in Threads : th[u].nproc <= Len(th[u].msgs)
      /\ th[t] \in FrameType /\ log \in Seq(Msgs) /\ queue \in Seq(Msgs) /\ th[t].depth \in Nat
  BY Zenon DEF IInv, TypeOK, FrameType
<1>2. /\ th[t].pc = "inbox"
      /\ UNCHANGED <<registered, queue, mbuffer, restarts, call, dead, order, done, life, log>>
      /\ \/ procStatus = "stopped" /\ procStatus' = "running" /\ th' = WithWorker(g)
         \/ procStatus # "stopped" /\ procStatus' = procStatus /\ th' = g
  BY Zenon DEF StartInbox, At, sendVars
<1>3. /\ f \in FrameType /\ f.nproc <= Len(f.msgs)
      /\ f.msgs = th[t].msgs \/ f.msgs = <<>>
      /\ f.pc = IF th[t].depth > 0 THEN "invoked" ELSE base
      /\ f.depth = IF th[t].depth > 0 THEN th[t].depth ELSE 0
  <2>1. CASE th[t].depth > 0
    <3> DEFINE h == [th[t] EXCEPT !.pc = "invoked"]
    <3>1. /\ h \in FrameType /\ h.pc = "invoked" /\ h.msgs = th[t].msgs /\ h.nproc = th[t].nproc
          /\ h.depth = th[t].depth
      BY <1>1, PcTyped, ZenonT(30) DEF PCs
    <3>2. f = h
      BY <2>1, Zenon
    <3> HIDE DEF h, f
    <3> QED BY <1>1, <2>1, <3>1, <3>2, Zenon
  <2>2. CASE ~(th[t].depth > 0)
    <3>1. base \in PCs
      BY Zenon DEF PCs
    <3> HIDE DEF base
    <3>2. /\ Frame(base) \in FrameType /\ Frame(base).pc = base /\ Frame(base).msgs = <<>>
          /\ Frame(base).nproc = 0 /\ Frame(base).depth = 0
      BY <3>1, FrameTyped, Zenon
    <3>3. f = Frame(base)
      BY <2>2, Zenon
    <3> HIDE DEF f
    <3> QED BY <2>2, <3>2, <3>3
  <2> QED BY <2>1, <2>2, Zenon
<1> HIDE DEF f
<1>4. /\ g \in [Threads -> FrameType] /\ g[t] = f /\ \A u \in Threads \ {t} : g[u] = th[u]
      /\ \A u \in Threads : g[u].nproc <= Len(g[u].msgs)
  BY <1>1, <1>3, Zenon
<1> HIDE DEF g
<1>5. /\ Panicked' = Panicked /\ Draining' = Draining /\ \A m : Taken(m)' = Taken(m)
      /\ Disrupted' = Disrupted
  BY <1>2, SameScope, Zenon
<1>6. Active(t)
  BY <1>2, Zenon DEF Active
<1>7. ASSUME ~Disrupted
      PROVE  /\ Good(t) /\ Removal /\ procStatus # "idle" /\ registered
             /\ done = {} /\ life = "started" /\ (t # Spawner => procStatus # "stopped")
             /\ ~Draining => order = log \o queue
             /\ \A i \in 1..(Len(order) - Len(queue)) : Taken(order[i])
             /\ \A u \in Threads \ {t} : ~Active(u)
  <2>1. Good(t) /\ Removal /\ procStatus # "idle" /\ \A u \in Threads \ {t} : ~Active(u)
    BY <1>6, <1>7, InScope, Zenon
  <2>2. registered
    BY <1>2, <2>1, Zenon DEF Good, Phase, Unwinding, At
  <2>3. done = {} /\ life = "started" /\ (t # Spawner => procStatus # "stopped")
    BY <1>2, <2>1, <2>2, Zenon DEF Good, Phase, LifeOf, Removal, At
  <2>4. ~Draining => order = log \o queue
    <3>1. Held(t) = <<>>
      BY <1>2, Zenon DEF Held
    <3> QED BY <1>1, <1>2, <2>1, <2>2, <3>1, WholeSeq, Zenon DEF Good, Conserves
  <2>5. \A i \in 1..(Len(order) - Len(queue)) : Taken(order[i])
    BY <1>2, <2>1, <2>2, Zenon DEF Good, Covers, Owes, Dropping, At
  <2> QED BY <2>1, <2>2, <2>3, <2>4, <2>5, Zenon
<1>8. CASE procStatus # "stopped" /\ procStatus' = procStatus /\ th' = g
  <2>1. TypeOK'
    BY <1>1, <1>2, <1>4, <1>8, Zenon DEF TypeOK
  <2>2. QueueTail' /\ Sent'
    BY <1>2, <1>3, <1>4, <1>8, SameData, Zenon
  <2>3. /\ th'[t].pc = IF th[t].depth > 0 THEN "invoked" ELSE base
        /\ th'[t].depth = IF th[t].depth > 0 THEN th[t].depth ELSE 0
        /\ \A u \in Threads \ {t} : th'[u] = th[u]
    BY <1>3, <1>4, <1>8, Zenon
  <2>4. ASSUME ~Disrupted' PROVE Removal' /\ procStatus' # "idle" /\ Active(t)' /\ Good(t)'
    <3>0. ~Disrupted
      BY <1>5, <2>4, Zenon
    <3>1. t # Spawner
      BY <1>7, <1>8, <3>0, Zenon DEF Good, Role
    <3>2. Removal' /\ procStatus' # "idle" /\ Active(t)'
      BY <1>2, <1>5, <1>7, <1>8, <2>3, <3>0, <3>1, Zenon DEF Removal, Active
    <3>3. Role(t)'
      BY <1>1, <1>2, <1>5, <1>7, <2>3, <3>0, <3>1, Zenon DEF Role, Good
    <3>4. Phase(t)' /\ LifeOf(t)'
      BY <1>2, <1>7, <1>8, <2>3, <3>0, <3>1, Zenon DEF Phase, LifeOf, At
    <3>5. Conserves(t)'
      <4>1. Held(t)' = <<>>
        BY <2>3, <3>1, Zenon DEF Held
      <4> QED BY <1>1, <1>2, <1>5, <1>7, <3>0, <4>1, WholeSeq, Zenon DEF Conserves
    <3>6. Covers(t)'
      BY <1>2, <1>5, <1>7, <3>0, Zenon DEF Covers
    <3> QED BY <3>2, <3>3, <3>4, <3>5, <3>6, Zenon DEF Good
  <2> QED BY <1>5, <1>6, <2>1, <2>2, <2>3, <2>4, Move, Zenon
<1>9. CASE procStatus = "stopped" /\ procStatus' = "running" /\ th' = WithWorker(g)
  <2>1. /\ th' \in [Threads -> FrameType]
        /\ \A u \in Threads : th'[u] = g[u] \/ th'[u] = Frame("loop")
        /\ \A u \in Threads : th'[u].nproc <= Len(th'[u].msgs)
    BY <1>4, <1>9, WithWorkerTyped, Zenon
  <2>2. Frame("loop").msgs = <<>> /\ Frame("loop").pc = "loop"
    BY FrameTyped, Zenon DEF PCs
  <2>3. TypeOK'
    BY <1>1, <1>2, <1>9, <2>1, Zenon DEF TypeOK
  <2>4. QueueTail' /\ Sent'
    <3>1. QueueTail'
      BY <1>2, Zenon DEF IInv, QueueTail
    <3>2. \A u \in Threads : th'[u].msgs = th[u].msgs \/ th'[u].msgs = <<>>
      BY <1>3, <1>4, <2>1, <2>2, Zenon
    <3>3. \A u \in Threads : \A i \in 1..Len(th'[u].msgs) : call[th'[u].msgs[i]] = "returned"
      BY <3>2 DEF IInv, Sent
    <3> QED BY <1>2, <3>1, <3>3, Zenon DEF IInv, Sent
  <2>5. Places'
    <3>1. \A u \in Threads : \/ u # t /\ th'[u] = th[u]
                             \/ th'[u].pc = "loop"
                             \/ u = t /\ th'[u].pc = "invoked" /\ th'[u].depth > 0
                             \/ u = t /\ t = Spawner /\ th'[u].pc = "returned"
      BY <1>3, <1>4, <2>1, <2>2, Zenon
    <3>2. Workers \subseteq Threads /\ Spawner \notin Workers /\ Spawner \in Threads
      BY BoundAssumption, Zenon DEF Threads, Spawner
    <3> QED BY <1>2, <1>5, <3>1, <3>2, Zenon DEF IInv, Places, At
  <2>6. ASSUME ~Disrupted' PROVE Calm'
    <3>0. ~Disrupted
      BY <1>5, <2>6, Zenon
    <3>1. t = Spawner /\ th[t].depth = 0
      BY <1>7, <1>9, <3>0, Zenon DEF Good, Role
    <3>2. g[Spawner].pc = "returned" /\ \A u \in Workers : g[u].pc = "none"
      <4>1. g[Spawner].pc = "returned"
        BY <1>3, <1>4, <3>1
      <4>2. Workers \subseteq Threads /\ Spawner \notin Workers
        BY BoundAssumption, Zenon DEF Threads, Spawner
      <4> QED BY <1>4, <1>7, <3>0, <3>1, <4>1, <4>2, Zenon DEF IInv, Places, Active
    <3>3. PICK w \in Workers : th'[w] = Frame("loop") /\ \A u \in Threads \ {w} : th'[u] = g[u]
      BY <1>4, <1>9, <3>2, WithWorkerAlone
    <3>4. \A u \in Threads \ {w} : ~Active(u)'
      BY <3>2, <3>3, Zenon DEF Active, Threads
    <3>5. life' = "started" /\ (~Draining' => order' = log' \o queue')
      BY <1>2, <1>5, <1>7, <3>0, Zenon
    <3>6. (\A i \in 1..(Len(order) - Len(queue)) : Taken(order[i]))'
      BY <1>2, <1>5, <1>7, <3>0, Zenon
    <3> QED BY <1>1, <1>2, <1>7, <1>9, <3>0, <3>3, <3>4, <3>5, <3>6, NewWorker, Zenon
  <2> QED BY <2>3, <2>4, <2>5, <2>6, Zenon DEF IInv
<1> QED BY <1>2, <1>8, <1>9, Zenon

LEMMA InitIInv == Init => IInv
<1> SUFFICES ASSUME Init PROVE IInv
  BY Zenon
<1>1. \A t \in Threads : /\ th[t] \in FrameType /\ th[t].msgs = <<>> /\ th[t].nproc = 0
                         /\ th[t].depth = 0 /\ th[t].cancel = NoCancel
                         /\ th[t].pc = IF t = Spawner THEN "add" ELSE "none"
  <2>1. /\ Frame("add") \in FrameType /\ Frame("add").msgs = <<>> /\ Frame("add").nproc = 0
        /\ Frame("add").depth = 0 /\ Frame("add").cancel = NoCancel /\ Frame("add").pc = "add"
    BY FrameTyped DEF PCs
  <2>2. /\ Frame("none") \in FrameType /\ Frame("none").msgs = <<>> /\ Frame("none").nproc = 0
        /\ Frame("none").depth = 0 /\ Frame("none").cancel = NoCancel
        /\ Frame("none").pc = "none"
    BY FrameTyped DEF PCs
  <2>3. \A t \in Threads : th[t] = IF t = Spawner THEN Frame("add") ELSE Frame("none")
    BY Zenon DEF Init
  <2> QED BY <2>1, <2>2, <2>3, Zenon
<1>2. TypeOK
  <2>1. th \in [Threads -> FrameType] /\ \A t \in Threads : th[t].nproc <= Len(th[t].msgs)
    <3>1. \A t \in Threads : th[t].nproc <= Len(th[t].msgs)
      BY <1>1
    <3>2. th = [t \in Threads |-> th[t]]
      BY Zenon DEF Init
    <3> QED BY <1>1, <3>1, <3>2, Zenon
  <2>2. /\ registered \in BOOLEAN /\ queue \in Seq(Msgs) /\ mbuffer \in Seq(Msgs)
        /\ log \in Seq(Msgs) /\ order \in Seq(Msgs)
    <3>1. <<>> \in Seq(Msgs)
      OBVIOUS
    <3> QED BY <3>1, Zenon DEF Init
  <2>3. restarts \in 0..MaxRestarts
    <3>1. restarts = 0
      BY Zenon DEF Init
    <3> QED BY <3>1, BoundAssumption
  <2>4. call \in [Msgs -> {"ready", "checked", "found", "returned"}]
    <3>1. call = [m \in Msgs |-> "ready"]
      BY Zenon DEF Init
    <3> QED BY <3>1, Zenon
  <2> QED BY <2>1, <2>2, <2>3, <2>4, Zenon DEF Init, TypeOK
<1>3. QueueTail /\ Sent
  BY <1>1 DEF Init, QueueTail, Sent
<1>4. Spawner \notin Workers /\ Workers \subseteq Threads /\ Spawner \in Threads
  BY BoundAssumption, Zenon DEF Threads, Spawner
<1>5. Places
  BY <1>1, <1>4, Zenon DEF Places, At, Init
<1>6. \A t \in Threads : Active(t) => t = Spawner
  BY <1>1, Zenon DEF Active
<1>7. Good(Spawner)
  BY <1>1, <1>4, Zenon DEF Init, Good, Role, Phase, LifeOf, Conserves, Covers, At
<1>8. Active(Spawner)
  BY <1>1, <1>4, Zenon DEF Active
<1>9. Calm
  BY <1>4, <1>6, <1>7, <1>8, Zenon DEF Init, Calm, Alone, Removal
<1> QED BY <1>2, <1>3, <1>5, <1>9, Zenon DEF IInv
LEMMA StutterIInv ==
  ASSUME IInv, UNCHANGED vars
  PROVE  IInv'
<1>1. UNCHANGED <<registered, queue, procStatus, mbuffer, restarts, th, call, done, dead, life, log, order>>
  BY Zenon DEF vars
<1>2. /\ Panicked' = Panicked /\ Draining' = Draining /\ \A x : Taken(x)' = Taken(x)
      /\ Disrupted' = Disrupted
  BY <1>1, SameScope, Zenon
<1>3. TypeOK' /\ QueueTail' /\ Sent'
  BY <1>1, Zenon DEF IInv, TypeOK, QueueTail, Sent
<1>4. ASSUME ~Disrupted' PROVE Removal' /\ ((\A t \in Threads : ~Active(t)) => Quiet')
  BY <1>1, <1>2, <1>4, Zenon DEF IInv, Calm, Removal, Quiet
<1>5. ASSUME ~Disrupted', NEW t \in Threads, Active(t) PROVE Good(t)'
  <2>1. Good(t)
    BY <1>2, <1>5, InScope, Zenon
  <2>2. Role(t)' /\ Phase(t)' /\ LifeOf(t)'
    BY <1>1, <1>2, <2>1, Zenon DEF Good, Role, Phase, LifeOf, Unwinding, At
  <2>3. Conserves(t)' /\ Covers(t)'
    <3>1. Held(t)' = Held(t) /\ \A x : Owes(t, x)' = Owes(t, x)
      BY <1>1, Zenon DEF Held, Rest, Owes, At
    <3> QED BY <1>1, <1>2, <2>1, <3>1, Zenon DEF Good, Conserves, Covers, Dropping, At
  <2> QED BY <2>2, <2>3, Zenon DEF Good
<1> QED BY <1>1, <1>2, <1>3, <1>4, <1>5, Still, Zenon

LEMMA NextIInv ==
  ASSUME IInv, [Next]_vars
  PROVE  IInv'
<1>1. ASSUME NEW t \in Threads, Goroutine(t) PROVE IInv'
  <2>1. CASE Add
    BY <2>1, AddStep, Zenon
  <2>2. CASE t \in Workers /\ Run(t)
    BY <2>2, RunStep, Zenon
  <2>3. CASE StartSteps(t)
    <3>1. CASE StartInitialized(t) \/ StartStarted(t)
      BY <3>1, StartReceiveStep, Zenon DEF StartInitialized, StartStarted
    <3> QED BY <2>3, <3>1, StartBufferStep, StartInboxStep, StartInvokedStep, Zenon DEF StartSteps
  <2>4. CASE InvokeSteps(t)
    BY <2>4, InvokeStep, InvokeDrainStep, RecoverInvokeStep, RecoverStartStep, Zenon DEF InvokeSteps
  <2>5. CASE CleanupSteps(t)
    BY <2>5, CleanupStopInboxStep, CleanupRemoveStep, CleanupStoppedStep, CleanupCancelStep
      , Zenon DEF CleanupSteps
  <2> QED BY <1>1, <2>1, <2>2, <2>3, <2>4, <2>5, Zenon DEF Goroutine
<1>2. ASSUME NEW m \in Msgs, Sender(m) \/ SendPoisonPill(m) \/ SendLocal(m) PROVE IInv'
  BY <1>2, SendLocalStep, SendPoisonPillStep, DeliverStep, Zenon DEF Sender
<1>3. CASE ClearMailbox
  BY <1>3, ClearMailboxStep, Zenon
<1>4. CASE UNCHANGED vars
  BY <1>4, StutterIInv, Zenon
<1> QED BY <1>1, <1>2, <1>3, <1>4, Zenon DEF Next

\* The inductive invariant of the life of a process: until a Stop meets a
\* restart, one goroutine at a time executes it and it knows where it is.
THEOREM Invariance == Spec => []IInv
<1>1. Init => IInv
  BY InitIInv, Zenon
<1>2. IInv /\ [Next]_vars => IInv'
  BY NextIInv, Zenon
<1> QED BY <1>1, <1>2, PTL DEF Spec

\* Every variable of the process holds a value of its Go type.
THEOREM TypeCorrect == Spec => []TypeOK
<1>1. IInv => TypeOK
  BY Zenon DEF IInv
<1> QED BY <1>1, Invariance, PTL

\* Without a lock in process.go, no two goroutines execute Start, Invoke,
\* tryRestart or cleanup at once, for any number of messages, restarts, batches
\* and goroutines (until a Stop meets a restart).
THEOREM ExecutedByOne == Spec => []OneAtATime
<1>1. IInv => OneAtATime
  <2> SUFFICES ASSUME IInv, ~(Panicked /\ done # {}), NEW t \in Threads, NEW u \in Threads,
                      InProcess(t), InProcess(u)
               PROVE  t = u
    BY Zenon DEF OneAtATime
  <2>1. Alone
    BY Zenon DEF IInv, Calm, Disrupted
  <2>2. Active(t) /\ Active(u)
    BY Zenon DEF Active, InProcess
  <2> QED BY <2>1, <2>2, Zenon DEF Alone
<1> QED BY <1>1, Invariance, PTL
\* Guaranteed delivery on failure: until a pill is handled or cleanup begins,
\* the messages taken by Invoke, those that wait in its batch or in mbuffer, and
\* those in the inbox are all the accepted messages, in their order.
THEOREM Conserving == Spec => []Conservation
<1>1. IInv => Conservation
  <2> SUFFICES ASSUME IInv, registered, ~Closing, ~Draining
               PROVE  order = log \o Pending \o queue
    BY Zenon DEF Conservation
  <2>1. Calm
    BY Zenon DEF IInv, Disrupted
  <2>2. \A t \in Threads : ~Active(t) => Held(t) = <<>>
    BY Zenon DEF Active, Held
  <2>3. CASE \A t \in Threads : ~Active(t)
    <3>1. {t \in Threads : Held(t) # <<>>} = {}
      BY <2>2, <2>3, Zenon
    <3>2. Pending = <<>>
      BY <3>1, Zenon DEF Pending
    <3>3. order = log \o queue
      BY <2>1, <2>3, Zenon DEF Calm, Quiet
    <3>4. log \o <<>> = log
      BY WholeSeq, Zenon DEF IInv, TypeOK
    <3> QED BY <3>2, <3>3, <3>4, Zenon
  <2>4. ASSUME NEW t \in Threads, Active(t) PROVE order = log \o Pending \o queue
    <3>1. Good(t) /\ \A u \in Threads \ {t} : ~Active(u)
      BY <2>4, InScope, Zenon DEF Disrupted
    <3>2. order = log \o Held(t) \o queue
      BY <3>1, Zenon DEF Good, Conserves, Closing
    <3>3. Pending = Held(t)
      <4>1. CASE Held(t) = <<>>
        <5>1. {u \in Threads : Held(u) # <<>>} = {}
          BY <2>2, <3>1, <4>1, Zenon
        <5> QED BY <4>1, <5>1, Zenon DEF Pending
      <4>2. CASE Held(t) # <<>>
        <5>1. {u \in Threads : Held(u) # <<>>} = {t}
          BY <2>2, <3>1, <4>2, Zenon
        <5>2. (CHOOSE u \in {t} : TRUE) = t
          BY Zenon
        <5> QED BY <5>1, <5>2, Zenon DEF Pending
      <4> QED BY <4>1, <4>2, Zenon
    <3> QED BY <3>2, <3>3, Zenon
  <2> QED BY <2>3, <2>4, Zenon
<1> QED BY <1>1, Invariance, PTL

\* When the cleanup of a graceful pill shuts the inbox, everything that was
\* accepted before the pill or is in its batch has been handed to Receive.
THEOREM PillDrains == Spec => []PoisonDrains
<1>1. IInv => PoisonDrains
  <2> SUFFICES ASSUME IInv, NEW t \in Threads, done = {}, th[t].pc = "stopInbox",
                      th[t].cancel \in Graceful,
                      NEW i \in 1..(Len(order) - Len(queue))
               PROVE  Taken(order[i])
    BY Zenon DEF PoisonDrains
  <2>1. Good(t)
    BY InScope, Zenon DEF Active, Disrupted
  <2>2. th[t].cancel # NoCancel
    BY MsgAssumption, Zenon DEF NoCancel
  <2>3. registered
    BY <2>1, <2>2, Zenon DEF Good, Phase, Unwinding, At
  <2> QED BY <2>1, <2>3, Zenon DEF Good, Covers, Dropping, Owes, At
<1> QED BY <1>1, Invariance, PTL

\* A message is taken by a goroutine in Invoke only.
LEMMA TakenInInvoke ==
  ASSUME [Next]_vars, log' # log
  PROVE  \E t \in Threads : th[t].pc \in {"invoke", "drain"}
<1>1. ASSUME NEW t \in Threads, Goroutine(t) PROVE th[t].pc \in {"invoke", "drain"}
  <2>1. ~Add /\ ~Run(t) /\ ~StartSteps(t) /\ ~CleanupSteps(t)
    BY Zenon DEF Add, Run, StartSteps, StartInitialized, StartStarted, StartReceive, StartBuffer,
           StartInbox, StartInvoked, CleanupSteps, CleanupStopInbox, CleanupRemove,
           CleanupStopped, CleanupCancel
  <2>2. ~RecoverInvoke(t) /\ ~RecoverStart(t)
    BY Zenon DEF RecoverInvoke, RecoverStart
  <2> QED BY <1>1, <2>1, <2>2, Zenon DEF Goroutine, InvokeSteps, Invoke, InvokeDrain, At
<1>2. \A m \in Msgs : ~Sender(m) /\ ~SendPoisonPill(m) /\ ~SendLocal(m)
  BY Zenon DEF Sender, SendPoisonPill, SendLocal, Deliver
<1>3. ~ClearMailbox /\ ~UNCHANGED vars
  BY Zenon DEF ClearMailbox, vars
<1> QED BY <1>1, <1>2, <1>3, Zenon DEF Next

\* Until it is stopped, the receiver that is handed a message is one that Start
\* has sent Started and nobody has sent Stopped since.
THEOREM HandedWhileStarted == Spec => OnlyWhileStarted
<1>1. ASSUME IInv, [Next]_vars
      PROVE  [done = {} /\ log' # log => life = "started"]_vars
  <2> SUFFICES ASSUME done = {}, log' # log PROVE life = "started"
    BY Zenon
  <2>1. PICK t \in Threads : th[t].pc \in {"invoke", "drain"}
    BY <1>1, TakenInInvoke, Zenon
  <2>2. Good(t)
    BY <1>1, <2>1, InScope, Zenon DEF Active, Disrupted
  <2> QED BY <2>1, <2>2, Zenon DEF Good, LifeOf
<1> QED BY <1>1, Invariance, PTL DEF Spec, OnlyWhileStarted

\* Unless a panic interfered: when the context of a handled pill is done, the
\* registry has forgotten the process and its receiver has been sent Stopped,
\* and nothing is handled any more.
THEOREM StoppedWhenDone == Spec => DoneMeansStopped
<1>1. ASSUME IInv, [Next]_vars
      PROVE  [/\ (\E m \in done' : Taken(m)') /\ ~Panicked' => ~registered' /\ life' = "stopped"
              /\ done # {} /\ ~Panicked => log' = log]_vars
  <2>1. ASSUME ~Panicked', \E m \in done' : Taken(m)' PROVE ~registered' /\ life' = "stopped"
    <3>1. IInv'
      BY <1>1, NextIInv, Zenon
    <3>2. Removal'
      BY <2>1, <3>1, Zenon DEF IInv, Calm, Disrupted
    <3> QED BY <2>1, <3>2, Zenon DEF Removal
  <2>2. ASSUME done # {}, ~Panicked, log' # log PROVE FALSE
    <3>1. PICK t \in Threads : th[t].pc \in {"invoke", "drain"}
      BY <1>1, <2>2, TakenInInvoke, Zenon
    <3>2. Good(t) /\ Removal
      BY <1>1, <2>2, <3>1, InScope, Zenon DEF Active, Disrupted
    <3> QED BY <2>2, <3>1, <3>2, Zenon DEF Good, Phase, Removal, At
  <2> QED BY <2>1, <2>2, Zenon
<1> QED BY <1>1, Invariance, PTL DEF Spec, DoneMeansStopped
=============================================================================
