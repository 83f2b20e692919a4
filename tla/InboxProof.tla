---------------------------- MODULE InboxProof ----------------------------
(***************************************************************************)
(* Proofs about Inbox.tla, for every set of messages and of goroutines,     *)
(* every batch size and any number of calls of Start: the type invariant,   *)
(* the bound on the goroutines in run(), the absence of lost wake-ups, the  *)
(* safe publication of in.proc, what a Stop ends, and the refinement of     *)
(* Mailbox.                                                                 *)
(***************************************************************************)
EXTENDS Inbox, SequenceTheorems, FiniteSetTheorems, TLAPS

\* How far the first Start has come, what may exist before it makes the inbox
\* idle, and who calls Start afterwards.
StartProgress ==
  /\ start[Spawner] = "cas" => procStatus = "stopped" /\ opened = 0
  /\ start[Spawner] \in {"proc", "swap"} => procStatus = "starting"
  /\ start[Spawner] \in {"cas", "proc", "swap"} => \A w \in Workers : go[w] = "none"
  /\ start[Spawner] # "cas" => opened > 0
  /\ start[Spawner] \notin {"cas", "proc"} => proc
  /\ \A w \in Workers : start[w] # "done" => go[w] = "invoke"
  /\ opened < 2 => \A w \in Workers : start[w] # "proc"

\* Only a goroutine in Invoke has messages in hand.
BatchInHand == \A w \in Workers : batch[w] # <<>> => go[w] = "invoke"

Basic == TypeOK /\ StartProgress /\ NoLostWakeup /\ BatchInHand

Owners == {w \in Workers : Owner(w)}

Openers == {c \in Callers : Opening(c)}

IdleToken == IF procStatus = "idle" THEN 1 ELSE 0

\* Each successful compare-and-swap of Start creates one right to run the
\* inbox.  It is with that call of Start, then in the idle status, then with
\* the goroutine that schedule() made, and back in the idle status when that
\* goroutine ends; a Stop may destroy it, nothing copies it.
Tokens ==
  /\ IsFiniteSet(Owners) /\ IsFiniteSet(Openers)
  /\ Cardinality(Owners) + Cardinality(Openers) + IdleToken <= opened

Inv == Basic /\ Tokens

Places == {"none", "load", "pop", "invoke", "cas", "len", "schedule"}

(* The inbox NewInbox returns satisfies the invariant.                        *)
LEMMA InitInv == Init => Inv
<1> SUFFICES ASSUME Init PROVE Inv
  OBVIOUS
<1>1. TypeOK
  <2>1. batch \in [Workers -> Seq(Msgs)]
    BY EmptySeq, Zenon DEF Init
  <2> QED BY <2>1, EmptySeq DEF Init, TypeOK
<1>2. BatchInHand
  BY DEF Init, BatchInHand
<1>3. StartProgress /\ NoLostWakeup
  BY SpawnerAssumption DEF Init, StartProgress, NoLostWakeup, Callers
<1>4. Owners = {} /\ Openers = {} /\ IdleToken = 0
  BY DEF Init, Owners, Owner, Openers, Opening, IdleToken
<1>5. Tokens
  BY <1>4, FS_EmptySet DEF Tokens, Init
<1> QED BY <1>1, <1>2, <1>3, <1>5 DEF Inv, Basic

(* PopN of a non-empty queue yields a non-empty batch of its messages.        *)
LEMMA PopSeq ==
  ASSUME NEW q \in Seq(Msgs), q # <<>>,
         NEW k, k = IF BatchSize < Len(q) THEN BatchSize ELSE Len(q)
  PROVE  /\ k \in 1..Len(q)
         /\ SubSeq(q, 1, k) \in Seq(Msgs) /\ SubSeq(q, 1, k) # <<>>
         /\ SubSeq(q, k + 1, Len(q)) \in Seq(Msgs)
<1>1. Len(q) \in Nat \ {0} /\ k \in 1..Len(q)
  BY BatchAssumption, EmptySeq
<1>2. \A i \in 1..Len(q) : q[i] \in Msgs
  BY ElementOfSeq
<1>3. SubSeq(q, 1, k) \in Seq(Msgs) /\ Len(SubSeq(q, 1, k)) = IF 1 <= k THEN k - 1 + 1 ELSE 0
  BY <1>1, <1>2, SubSeqProperties
<1>4. SubSeq(q, k + 1, Len(q)) \in Seq(Msgs)
  <2>1. k + 1 \in Int /\ Len(q) \in Int /\ \A i \in k+1..Len(q) : q[i] \in Msgs
    BY <1>1, <1>2
  <2> QED BY <2>1, SubSeqProperties
<1>5. SubSeq(q, 1, k) # <<>>
  BY <1>1, <1>3, EmptySeq
<1> QED BY <1>1, <1>3, <1>4, <1>5

(* What schedule() does to procStatus and to the goroutines: it adds at most  *)
(* one, to the entries that are free once the caller has left its own.        *)
LEMMA ScheduleStep ==
  ASSUME Basic, NEW g \in [Workers -> Places],
         \A w \in Workers : g[w] = go[w] \/ (go[w] = "schedule" /\ g[w] = "none"),
         Schedule(g)
  PROVE  /\ go' \in [Workers -> Places]
         /\ procStatus' \in {"stopped", "starting", "idle", "running"}
         /\ procStatus' # "idle"
         /\ procStatus # "idle" => procStatus' = procStatus /\ go' = g
         /\ procStatus = "idle" =>
              /\ procStatus' = "running"
              /\ \E f \in Workers :
                   /\ go[f] \in {"none", "schedule"} /\ go'[f] = "load"
                   /\ \A v \in Workers \ {f} : go'[v] = g[v]
         /\ \A w \in Workers : go'[w] = "invoke" <=> go[w] = "invoke"
<1>1. CASE procStatus = "idle"
  <2> DEFINE f == Fresh(g)
  <2>1. f \in Workers /\ g[f] = "none"
    BY <1>1, Zenon DEF Schedule, Fresh
  <2>2. procStatus' = "running" /\ go' = [g EXCEPT ![f] = "load"]
    BY <1>1 DEF Schedule
  <2> HIDE DEF f
  <2>3. go' \in [Workers -> Places] /\ go'[f] = "load" /\ \A v \in Workers \ {f} : go'[v] = g[v]
    BY <2>1, <2>2 DEF Places
  <2>4. go[f] \in {"none", "schedule"}
    BY <2>1
  <2>5. \A w \in Workers : go'[w] = "invoke" <=> go[w] = "invoke"
    BY <2>1, <2>3, <2>4
  <2> QED BY <1>1, <2>1, <2>2, <2>3, <2>4, <2>5
<1>2. CASE procStatus # "idle"
  <2>1. procStatus' = procStatus /\ go' = g
    BY <1>2 DEF Schedule
  <2> QED BY <1>2, <2>1 DEF Basic, TypeOK
<1> QED BY <1>1, <1>2

(* While the first Start is on its way to idle, schedule() does nothing.      *)
LEMMA ScheduleTooEarly ==
  ASSUME Basic, start[Spawner] \in {"cas", "proc", "swap"}
  PROVE  procStatus # "idle"
BY DEF Basic, StartProgress

(* A call of schedule() keeps types, the progress of Start, the hands and the *)
(* wake-ups, whichever of its callers returns from it.                        *)
LEMMA ScheduleBasic ==
  ASSUME Basic, NEW g \in [Workers -> Places],
         \A w \in Workers : g[w] = go[w] \/ (go[w] = "schedule" /\ g[w] = "none"),
         Schedule(g), UNCHANGED <<queue, proc, starts, opened, batch, delivered>>,
         call' \in [Msgs -> {"ready", "pushed", "returned"}],
         start' \in [Callers -> {"cas", "proc", "swap", "schedule", "done"}],
         \A c \in Callers : start'[c] = start[c] \/ (start[c] = "schedule" /\ start'[c] = "done")
  PROVE  Basic'
<1>0. Spawner \in Callers /\ \A w \in Workers : w \in Callers
  BY DEF Callers
<1>1. /\ go' \in [Workers -> Places]
      /\ procStatus' \in {"stopped", "starting", "idle", "running"}
      /\ procStatus' # "idle"
      /\ procStatus # "idle" => procStatus' = procStatus /\ go' = g
      /\ \A w \in Workers : go'[w] = "invoke" <=> go[w] = "invoke"
  BY ScheduleStep
<1>2. TypeOK'
  BY <1>1 DEF Basic, TypeOK, Places
<1>3. NoLostWakeup'
  BY <1>1 DEF NoLostWakeup
<1>4. BatchInHand'
  BY <1>1 DEF Basic, BatchInHand
<1>5. CASE start[Spawner] \in {"cas", "proc", "swap"}
  <2>1. procStatus' = procStatus /\ go' = g
    BY <1>1, <1>5, ScheduleTooEarly
  <2>2. StartProgress'
    BY <1>0, <1>5, <2>1 DEF Basic, StartProgress, TypeOK
  <2> QED BY <1>2, <1>3, <1>4, <2>2 DEF Basic
<1>6. CASE start[Spawner] \notin {"cas", "proc", "swap"}
  <2>1. StartProgress'
    BY <1>0, <1>1, <1>6 DEF Basic, StartProgress, TypeOK
  <2> QED BY <1>2, <1>3, <1>4, <2>1 DEF Basic
<1> QED BY <1>5, <1>6

(* Every step of a sender, of Start, of a goroutine, of Stop and of Clear     *)
(* keeps the basic part of the invariant.                                     *)
LEMMA NextBasic == Basic /\ [Next]_vars => Basic'
<1> SUFFICES ASSUME Basic, [Next]_vars PROVE Basic'
  OBVIOUS
<1>0. Spawner \in Callers /\ Spawner \notin Workers /\ \A w \in Workers : w \in Callers
  BY SpawnerAssumption DEF Callers
<1>1. ASSUME NEW m \in Msgs, Send(m) \/ SendPriority(m) PROVE Basic'
  <2>1. /\ call[m] = "ready" /\ call' = [call EXCEPT ![m] = "pushed"]
        /\ queue' = Append(queue, m) \/ queue' = <<m>> \o queue
        /\ UNCHANGED <<procStatus, proc, start, starts, opened, go, batch, delivered>>
    BY <1>1 DEF Send, SendPriority
  <2>2. queue' \in Seq(Msgs)
    <3>1. queue \in Seq(Msgs) /\ <<m>> \in Seq(Msgs)
      BY DEF Basic, TypeOK
    <3>2. Append(queue, m) \in Seq(Msgs) /\ <<m>> \o queue \in Seq(Msgs)
      BY <3>1, AppendProperties, ConcatProperties
    <3> QED BY <2>1, <3>2, Zenon
  <2>3. TypeOK'
    BY <2>1, <2>2 DEF Basic, TypeOK
  <2>4. NoLostWakeup'
    BY <2>1 DEF Basic, TypeOK, NoLostWakeup
  <2> QED BY <2>1, <2>3, <2>4 DEF Basic, StartProgress, BatchInHand
<1>2. ASSUME NEW m \in Msgs, SendSchedule(m) PROVE Basic'
  <2>1. /\ call' = [call EXCEPT ![m] = "returned"] /\ Schedule(go)
        /\ UNCHANGED <<queue, proc, start, starts, opened, batch, delivered>>
    BY <1>2 DEF SendSchedule
  <2>2. go \in [Workers -> Places] /\ call' \in [Msgs -> {"ready", "pushed", "returned"}]
        /\ start' \in [Callers -> {"cas", "proc", "swap", "schedule", "done"}]
    BY <2>1 DEF Basic, TypeOK, Places
  <2> QED BY <2>1, <2>2, ScheduleBasic
<1>3. ASSUME NEW c \in Callers, StartCAS(c) PROVE Basic'
  <2>1. /\ start[c] = "cas"
        /\ UNCHANGED <<queue, proc, call, starts, go, batch, delivered>>
    BY <1>3 DEF StartCAS
  <2>2. CASE procStatus = "stopped"
    <3>1. /\ procStatus' = "starting" /\ opened' = opened + 1
          /\ start' = [start EXCEPT ![c] = "proc"]
      BY <1>3, <2>2 DEF StartCAS
    <3>2. TypeOK'
      BY <2>1, <3>1 DEF Basic, TypeOK
    <3>3. StartProgress'
      <4>0. opened \in Nat /\ start' \in [Callers -> {"cas", "proc", "swap", "schedule", "done"}]
            /\ \A d \in Callers : start'[d] = IF d = c THEN "proc" ELSE start[d]
        BY <3>1 DEF Basic, TypeOK
      <4>1. CASE c = Spawner
        <5>1. opened = 0 /\ \A w \in Workers : go[w] = "none"
          BY <2>1, <4>1 DEF Basic, StartProgress
        <5>2. \A w \in Workers : start[w] = "done"
          BY <5>1 DEF Basic, StartProgress
        <5> QED BY <1>0, <2>1, <3>1, <4>0, <4>1, <5>1, <5>2 DEF StartProgress
      <4>2. CASE c # Spawner
        <5>1. c \in Workers /\ go[c] = "invoke"
          BY <2>1, <4>2 DEF Callers, Basic, StartProgress
        <5>2. start[Spawner] \notin {"cas", "proc", "swap"} /\ opened > 0 /\ proc
          BY <5>1 DEF Basic, StartProgress
        <5> QED BY <1>0, <2>1, <3>1, <4>0, <4>2, <5>1, <5>2 DEF Basic, StartProgress
      <4> QED BY <4>1, <4>2
    <3>4. NoLostWakeup' /\ BatchInHand'
      BY <2>1, <3>1 DEF Basic, NoLostWakeup, BatchInHand
    <3> QED BY <3>2, <3>3, <3>4 DEF Basic
  <2>3. CASE procStatus # "stopped"
    <3>1. start' = [start EXCEPT ![c] = "done"] /\ UNCHANGED <<procStatus, opened>>
      BY <1>3, <2>3 DEF StartCAS
    <3>2. TypeOK' /\ BatchInHand'
      BY <2>1, <3>1 DEF Basic, TypeOK, BatchInHand
    <3>3. c # Spawner
      BY <2>1, <2>3 DEF Basic, StartProgress
    <3>4. \A d \in Callers : start'[d] = IF d = c THEN "done" ELSE start[d]
      BY <3>1 DEF Basic, TypeOK
    <3>5. StartProgress' /\ NoLostWakeup'
      BY <1>0, <2>1, <3>1, <3>3, <3>4 DEF Basic, StartProgress, NoLostWakeup
    <3> QED BY <3>2, <3>5 DEF Basic
  <2> QED BY <2>2, <2>3
<1>4. ASSUME NEW c \in Callers, StartProc(c) PROVE Basic'
  <2>1. /\ start[c] = "proc" /\ start' = [start EXCEPT ![c] = "swap"] /\ proc' = TRUE
        /\ UNCHANGED <<queue, procStatus, call, starts, opened, go, batch, delivered>>
    BY <1>4 DEF StartProc
  <2>2. TypeOK' /\ BatchInHand'
    BY <2>1 DEF Basic, TypeOK, BatchInHand
  <2>3. \A d \in Callers : start'[d] = IF d = c THEN "swap" ELSE start[d]
    BY <2>1 DEF Basic, TypeOK
  <2>4. StartProgress' /\ NoLostWakeup'
    BY <1>0, <2>1, <2>3 DEF Basic, StartProgress, NoLostWakeup
  <2> QED BY <2>2, <2>4 DEF Basic
<1>5. ASSUME NEW c \in Callers, StartSwap(c) PROVE Basic'
  <2>1. /\ start[c] = "swap" /\ start' = [start EXCEPT ![c] = "schedule"]
        /\ procStatus' = "idle"
        /\ UNCHANGED <<queue, proc, call, starts, opened, go, batch, delivered>>
    BY <1>5 DEF StartSwap
  <2>2. TypeOK' /\ BatchInHand'
    BY <2>1 DEF Basic, TypeOK, BatchInHand
  <2>3. \A d \in Callers : start'[d] = IF d = c THEN "schedule" ELSE start[d]
    BY <2>1 DEF Basic, TypeOK
  <2>4. NoLostWakeup'
    BY <2>3 DEF NoLostWakeup
  <2>5. StartProgress'
    <3>1. CASE c = Spawner
      BY <1>0, <2>1, <2>3, <3>1 DEF Basic, StartProgress
    <3>2. CASE c # Spawner
      <4>1. c \in Workers /\ go[c] = "invoke"
        BY <2>1, <3>2 DEF Callers, Basic, StartProgress
      <4> QED BY <1>0, <2>1, <2>3, <3>2, <4>1 DEF Basic, StartProgress
    <3> QED BY <3>1, <3>2
  <2> QED BY <2>2, <2>4, <2>5 DEF Basic
<1>6. ASSUME NEW c \in Callers, StartSchedule(c) PROVE Basic'
  <2>1. /\ start[c] = "schedule" /\ start' = [start EXCEPT ![c] = "done"] /\ Schedule(go)
        /\ UNCHANGED <<queue, proc, call, starts, opened, batch, delivered>>
    BY <1>6 DEF StartSchedule
  <2>2. /\ go \in [Workers -> Places] /\ call' \in [Msgs -> {"ready", "pushed", "returned"}]
        /\ start' \in [Callers -> {"cas", "proc", "swap", "schedule", "done"}]
        /\ \A d \in Callers : start'[d] = start[d] \/ (start[d] = "schedule" /\ start'[d] = "done")
    BY <2>1 DEF Basic, TypeOK, Places
  <2> QED BY <2>1, <2>2, ScheduleBasic
<1>7. ASSUME NEW w \in Workers, RunLoad(w) PROVE Basic'
  <2>1. /\ go[w] = "load" \/ (go[w] = "invoke" /\ start[w] = "done" /\ batch[w] = <<>>)
        /\ \E x \in {"pop", "cas"} : go' = [go EXCEPT ![w] = x]
        /\ UNCHANGED <<queue, procStatus, proc, call, start, starts, opened, batch, delivered>>
    BY <1>7 DEF RunLoad, AtLoop
  <2>2. /\ \A v \in Workers : v # w => go'[v] = go[v]
        /\ go'[w] \in {"pop", "cas"} /\ TypeOK'
    BY <2>1 DEF Basic, TypeOK
  <2>3. NoLostWakeup' /\ BatchInHand'
    BY <2>1, <2>2 DEF Basic, NoLostWakeup, BatchInHand
  <2>4. start[w] = "done"
    BY <2>1 DEF Basic, StartProgress
  <2>5. StartProgress'
    BY <1>0, <2>1, <2>2, <2>4 DEF Basic, StartProgress
  <2> QED BY <2>2, <2>3, <2>5 DEF Basic
<1>8. ASSUME NEW w \in Workers, RunPop(w) PROVE Basic'
  <2> DEFINE k == IF BatchSize < Len(queue) THEN BatchSize ELSE Len(queue)
  <2>1. go[w] = "pop" /\ UNCHANGED <<procStatus, proc, call, start, starts, opened, delivered>>
    BY <1>8 DEF RunPop
  <2>0. start[w] = "done" /\ start[Spawner] \notin {"cas", "proc", "swap"}
    BY <2>1 DEF Basic, StartProgress
  <2>2. CASE queue # <<>>
    <3>1. /\ batch' = [batch EXCEPT ![w] = SubSeq(queue, 1, k)]
          /\ queue' = SubSeq(queue, k + 1, Len(queue))
          /\ go' = [go EXCEPT ![w] = "invoke"]
      BY <1>8, <2>2 DEF RunPop
    <3>2. /\ SubSeq(queue, 1, k) \in Seq(Msgs) /\ SubSeq(queue, 1, k) # <<>>
          /\ SubSeq(queue, k + 1, Len(queue)) \in Seq(Msgs)
      BY <2>2, PopSeq, Zenon DEF Basic, TypeOK
    <3> HIDE DEF k
    <3>3. /\ TypeOK' /\ go'[w] = "invoke"
          /\ \A v \in Workers : v # w => go'[v] = go[v] /\ batch'[v] = batch[v]
      BY <2>1, <3>1, <3>2 DEF Basic, TypeOK
    <3>4. NoLostWakeup' /\ BatchInHand'
      BY <2>1, <2>2, <3>3 DEF Basic, NoLostWakeup, BatchInHand
    <3>5. StartProgress'
      BY <1>0, <2>0, <2>1, <3>3 DEF Basic, StartProgress
    <3> QED BY <3>3, <3>4, <3>5 DEF Basic
  <2>3. CASE queue = <<>>
    <3>1. go' = [go EXCEPT ![w] = "cas"] /\ batch' = batch /\ queue' = queue
      BY <1>8, <2>3 DEF RunPop
    <3>2. TypeOK' /\ go'[w] = "cas" /\ \A v \in Workers : v # w => go'[v] = go[v]
      BY <2>1, <3>1 DEF Basic, TypeOK
    <3>3. NoLostWakeup' /\ BatchInHand'
      BY <2>1, <2>3, <3>1, <3>2 DEF Basic, NoLostWakeup, BatchInHand
    <3>4. StartProgress'
      BY <1>0, <2>0, <2>1, <3>2 DEF Basic, StartProgress
    <3> QED BY <3>2, <3>3, <3>4 DEF Basic
  <2> QED BY <2>2, <2>3
<1>9. ASSUME NEW w \in Workers, RunInvoke(w) PROVE Basic'
  <2>1. /\ go[w] = "invoke" /\ batch[w] # <<>>
        /\ delivered' = Append(delivered, Head(batch[w]))
        /\ batch' = [batch EXCEPT ![w] = Tail(batch[w])]
        /\ UNCHANGED <<queue, procStatus, proc, call, start, starts, opened, go>>
    BY <1>9 DEF RunInvoke
  <2>2. batch[w] \in Seq(Msgs)
    BY DEF Basic, TypeOK
  <2>3. Head(batch[w]) \in Msgs /\ Tail(batch[w]) \in Seq(Msgs)
    BY <2>1, <2>2, HeadTailProperties
  <2>4. delivered' \in Seq(Msgs)
    BY <2>1, <2>3 DEF Basic, TypeOK
  <2>5. TypeOK' /\ BatchInHand'
    BY <2>1, <2>3, <2>4 DEF Basic, TypeOK, BatchInHand
  <2> QED BY <2>1, <2>5 DEF Basic, StartProgress, NoLostWakeup
<1>10. ASSUME NEW w \in Workers, InvokeStart(w) PROVE Basic'
  <2>1. /\ go[w] = "invoke" /\ starts' = starts + 1 /\ start' = [start EXCEPT ![w] = "cas"]
        /\ start[w] = "done"
        /\ UNCHANGED <<queue, procStatus, proc, call, opened, go, batch, delivered>>
    BY <1>10 DEF InvokeStart
  <2>2. TypeOK' /\ BatchInHand'
    BY <1>0, <2>1 DEF Basic, TypeOK, BatchInHand
  <2>3. \A d \in Callers : start'[d] = IF d = w THEN "cas" ELSE start[d]
    BY <2>1 DEF Basic, TypeOK
  <2>4. StartProgress' /\ NoLostWakeup'
    BY <1>0, <2>1, <2>3 DEF Basic, StartProgress, NoLostWakeup
  <2> QED BY <2>2, <2>4 DEF Basic
<1>11. ASSUME NEW w \in Workers, ProcessCAS(w) PROVE Basic'
  <2>1. /\ go[w] = "cas" /\ \E x \in {"len", "none"} : go' = [go EXCEPT ![w] = x]
        /\ procStatus' = procStatus \/ (procStatus = "running" /\ procStatus' = "idle"
                                          /\ go' = [go EXCEPT ![w] = "len"])
        /\ UNCHANGED <<queue, proc, call, start, starts, opened, batch, delivered>>
    BY <1>11 DEF ProcessCAS
  <2>2. /\ TypeOK' /\ go'[w] \in {"len", "none"} /\ \A v \in Workers : v # w => go'[v] = go[v]
        /\ procStatus' = procStatus \/ go'[w] = "len"
    BY <2>1 DEF Basic, TypeOK
  <2>3. NoLostWakeup' /\ BatchInHand'
    BY <2>1, <2>2 DEF Basic, NoLostWakeup, BatchInHand
  <2>4. start[w] = "done" /\ start[Spawner] \notin {"cas", "proc", "swap"}
    BY <2>1 DEF Basic, StartProgress
  <2>5. StartProgress'
    BY <1>0, <2>1, <2>2, <2>4 DEF Basic, StartProgress
  <2> QED BY <2>2, <2>3, <2>5 DEF Basic
<1>12. ASSUME NEW w \in Workers, ProcessLen(w) PROVE Basic'
  <2>1. /\ go[w] = "len"
        /\ go' = [go EXCEPT ![w] = IF queue # <<>> THEN "schedule" ELSE "none"]
        /\ UNCHANGED <<queue, procStatus, proc, call, start, starts, opened, batch, delivered>>
    BY <1>12 DEF ProcessLen
  <2>2. /\ TypeOK' /\ go'[w] \in {"schedule", "none"} /\ \A v \in Workers : v # w => go'[v] = go[v]
        /\ queue # <<>> => go'[w] = "schedule"
    BY <2>1 DEF Basic, TypeOK
  <2>3. NoLostWakeup' /\ BatchInHand'
    BY <2>1, <2>2 DEF Basic, NoLostWakeup, BatchInHand
  <2>4. start[w] = "done" /\ start[Spawner] \notin {"cas", "proc", "swap"}
    BY <2>1 DEF Basic, StartProgress
  <2>5. StartProgress'
    BY <1>0, <2>1, <2>2, <2>4 DEF Basic, StartProgress
  <2> QED BY <2>2, <2>3, <2>5 DEF Basic
<1>13. ASSUME NEW w \in Workers, ProcessSchedule(w) PROVE Basic'
  <2> DEFINE g == [go EXCEPT ![w] = "none"]
  <2>1. /\ go[w] = "schedule" /\ Schedule(g)
        /\ UNCHANGED <<queue, proc, call, start, starts, opened, batch, delivered>>
    BY <1>13 DEF ProcessSchedule
  <2>2. /\ g \in [Workers -> Places]
        /\ \A v \in Workers : g[v] = go[v] \/ (go[v] = "schedule" /\ g[v] = "none")
        /\ call' \in [Msgs -> {"ready", "pushed", "returned"}]
        /\ start' \in [Callers -> {"cas", "proc", "swap", "schedule", "done"}]
    BY <2>1 DEF Basic, TypeOK, Places
  <2> HIDE DEF g
  <2> QED BY <2>1, <2>2, ScheduleBasic
<1>14. CASE Stop
  <2>1. /\ start[Spawner] \in {"schedule", "done"} /\ procStatus' = "stopped"
        /\ UNCHANGED <<queue, proc, call, start, starts, opened, go, batch, delivered>>
    BY <1>14 DEF Stop
  <2> QED BY <2>1 DEF Basic, TypeOK, StartProgress, NoLostWakeup, BatchInHand
<1>15. CASE Clear
  <2>1. /\ queue' = <<>>
        /\ UNCHANGED <<procStatus, proc, call, start, starts, opened, go, batch, delivered>>
    BY <1>15 DEF Clear
  <2> QED BY <2>1, EmptySeq DEF Basic, TypeOK, StartProgress, NoLostWakeup, BatchInHand
<1>16. CASE UNCHANGED vars
  BY <1>16 DEF vars, Basic, TypeOK, StartProgress, NoLostWakeup, BatchInHand
<1> QED BY <1>1, <1>2, <1>3, <1>4, <1>5, <1>6, <1>7, <1>8, <1>9, <1>10, <1>11, <1>12,
           <1>13, <1>14, <1>15, <1>16 DEF Next, Start, Process

(* Adding an element to a finite set, or removing one, moves its cardinality  *)
(* by at most one.                                                            *)
LEMMA CardStep ==
  ASSUME NEW S, IsFiniteSet(S), NEW x
  PROVE  /\ Cardinality(S) \in Nat
         /\ IsFiniteSet(S \union {x}) /\ Cardinality(S \union {x}) \in Nat
         /\ Cardinality(S \union {x}) <= Cardinality(S) + 1
         /\ IsFiniteSet(S \ {x}) /\ Cardinality(S \ {x}) \in Nat
         /\ x \in S => Cardinality(S \ {x}) = Cardinality(S) - 1
<1>1. Cardinality(S) \in Nat
  BY FS_CardinalityType
<1>2. /\ IsFiniteSet(S \union {x})
      /\ Cardinality(S \union {x}) = IF x \in S THEN Cardinality(S) ELSE Cardinality(S) + 1
  BY FS_AddElement
<1>3. /\ IsFiniteSet(S \ {x})
      /\ Cardinality(S \ {x}) = IF x \in S THEN Cardinality(S) - 1 ELSE Cardinality(S)
  BY FS_RemoveElement
<1>4. Cardinality(S \ {x}) \in Nat
  BY <1>3, FS_CardinalityType
<1> QED BY <1>1, <1>2, <1>3, <1>4

(* schedule() turns the idle status into a goroutine and creates no right.    *)
LEMMA ScheduleTokens ==
  ASSUME Basic, Tokens, NEW g \in [Workers -> Places],
         \A w \in Workers : g[w] = go[w] \/ (go[w] = "schedule" /\ g[w] = "none"),
         Schedule(g), opened' = opened, Openers' = Openers
  PROVE  Tokens'
<1>1. opened \in Nat /\ Cardinality(Owners) \in Nat /\ Cardinality(Openers) \in Nat
  BY FS_CardinalityType DEF Basic, TypeOK, Tokens
<1>2. CASE procStatus = "idle"
  <2>1. PICK f \in Workers : /\ go[f] \in {"none", "schedule"} /\ go'[f] = "load"
                             /\ \A v \in Workers \ {f} : go'[v] = g[v]
    BY <1>2, ScheduleStep
  <2>2. Owners' = Owners \union {f}
    BY <2>1 DEF Owners, Owner
  <2>3. IdleToken = 1 /\ IdleToken' = 0
    BY <1>2, ScheduleStep DEF IdleToken
  <2>4. /\ IsFiniteSet(Owners \union {f}) /\ Cardinality(Owners \union {f}) \in Nat
        /\ Cardinality(Owners \union {f}) <= Cardinality(Owners) + 1
    BY CardStep DEF Tokens
  <2> QED BY <1>1, <2>2, <2>3, <2>4 DEF Tokens
<1>3. CASE procStatus # "idle"
  <2>1. procStatus' = procStatus /\ go' = g
    BY <1>3, ScheduleStep
  <2>2. Owners' = Owners
    BY <2>1 DEF Owners, Owner
  <2>3. IdleToken' = IdleToken
    BY <2>1 DEF IdleToken
  <2> QED BY <2>2, <2>3 DEF Tokens
<1> QED BY <1>2, <1>3

(* No step runs the inbox more often than Start has opened it.                *)
LEMMA NextTokens == Basic /\ Tokens /\ [Next]_vars => Tokens'
<1> SUFFICES ASSUME Basic, Tokens, [Next]_vars PROVE Tokens'
  OBVIOUS
<1>0. /\ opened \in Nat /\ go \in [Workers -> Places]
      /\ start \in [Callers -> {"cas", "proc", "swap", "schedule", "done"}]
      /\ Cardinality(Owners) \in Nat /\ Cardinality(Openers) \in Nat
      /\ IdleToken \in {0, 1} /\ IdleToken' \in {0, 1}
      /\ \A w \in Workers : w \in Callers
  BY FS_CardinalityType DEF Basic, TypeOK, Tokens, Places, IdleToken, Callers
<1>1. ASSUME UNCHANGED <<go, procStatus, start, opened>> PROVE Tokens'
  BY <1>1 DEF Tokens, Owners, Owner, Openers, Opening, IdleToken
<1>2. ASSUME NEW m \in Msgs, SendSchedule(m) PROVE Tokens'
  <2>1. Schedule(go) /\ opened' = opened /\ start' = start
    BY <1>2 DEF SendSchedule
  <2>2. Openers' = Openers
    BY <2>1 DEF Openers, Opening
  <2> QED BY <1>0, <2>1, <2>2, ScheduleTokens
<1>3. ASSUME NEW c \in Callers, StartCAS(c) PROVE Tokens'
  <2>1. Owners' = Owners /\ start[c] = "cas"
    BY <1>3 DEF StartCAS, Owners, Owner
  <2>2. CASE procStatus = "stopped"
    <3>1. /\ procStatus' = "starting" /\ opened' = opened + 1
          /\ start' = [start EXCEPT ![c] = "proc"]
      BY <1>3, <2>2 DEF StartCAS
    <3>2. Openers' = Openers \union {c}
      BY <1>0, <3>1 DEF Openers, Opening
    <3>3. IdleToken' = 0
      BY <3>1 DEF IdleToken
    <3>4. /\ IsFiniteSet(Openers \union {c}) /\ Cardinality(Openers \union {c}) \in Nat
          /\ Cardinality(Openers \union {c}) <= Cardinality(Openers) + 1
      BY CardStep DEF Tokens
    <3> QED BY <1>0, <2>1, <3>1, <3>2, <3>3, <3>4 DEF Tokens
  <2>3. CASE procStatus # "stopped"
    <3>1. start' = [start EXCEPT ![c] = "done"] /\ UNCHANGED <<procStatus, opened>>
      BY <1>3, <2>3 DEF StartCAS
    <3>2. Openers' = Openers /\ IdleToken' = IdleToken
      BY <1>0, <2>1, <3>1 DEF Openers, Opening, IdleToken
    <3> QED BY <2>1, <3>1, <3>2 DEF Tokens
  <2> QED BY <2>2, <2>3
<1>4. ASSUME NEW c \in Callers, StartProc(c) PROVE Tokens'
  <2>1. /\ start[c] = "proc" /\ start' = [start EXCEPT ![c] = "swap"]
        /\ UNCHANGED <<procStatus, opened, go>>
    BY <1>4 DEF StartProc
  <2>2. Owners' = Owners /\ Openers' = Openers /\ IdleToken' = IdleToken
    BY <1>0, <2>1 DEF Owners, Owner, Openers, Opening, IdleToken
  <2> QED BY <2>1, <2>2 DEF Tokens
<1>5. ASSUME NEW c \in Callers, StartSwap(c) PROVE Tokens'
  <2>1. /\ start[c] = "swap" /\ start' = [start EXCEPT ![c] = "schedule"]
        /\ UNCHANGED <<opened, go>>
    BY <1>5 DEF StartSwap
  <2>2. Owners' = Owners /\ Openers' = Openers \ {c} /\ c \in Openers
    BY <1>0, <2>1 DEF Owners, Owner, Openers, Opening
  <2>3. /\ IsFiniteSet(Openers \ {c}) /\ Cardinality(Openers \ {c}) \in Nat
        /\ Cardinality(Openers \ {c}) = Cardinality(Openers) - 1
    BY <2>2, CardStep DEF Tokens
  <2> QED BY <1>0, <2>1, <2>2, <2>3 DEF Tokens
<1>6. ASSUME NEW c \in Callers, StartSchedule(c) PROVE Tokens'
  <2>1. /\ start[c] = "schedule" /\ start' = [start EXCEPT ![c] = "done"]
        /\ Schedule(go) /\ opened' = opened
    BY <1>6 DEF StartSchedule
  <2>2. Openers' = Openers
    BY <1>0, <2>1 DEF Openers, Opening
  <2> QED BY <1>0, <2>1, <2>2, ScheduleTokens
<1>7. ASSUME NEW w \in Workers, RunLoad(w) \/ RunPop(w) PROVE Tokens'
  <2>1. /\ go[w] \in {"load", "pop", "invoke"}
        /\ \E x \in {"pop", "cas", "invoke"} : go' = [go EXCEPT ![w] = x]
        /\ UNCHANGED <<procStatus, start, opened>>
    BY <1>7 DEF RunLoad, RunPop, AtLoop
  <2>2. Owners' = Owners /\ Openers' = Openers /\ IdleToken' = IdleToken
    BY <1>0, <2>1 DEF Owners, Owner, Openers, Opening, IdleToken
  <2> QED BY <2>1, <2>2 DEF Tokens
<1>8. ASSUME NEW w \in Workers, InvokeStart(w) PROVE Tokens'
  <2>1. /\ start[w] = "done" /\ start' = [start EXCEPT ![w] = "cas"]
        /\ UNCHANGED <<procStatus, opened, go>>
    BY <1>8 DEF InvokeStart
  <2>2. Owners' = Owners /\ Openers' = Openers /\ IdleToken' = IdleToken
    BY <1>0, <2>1 DEF Owners, Owner, Openers, Opening, IdleToken
  <2> QED BY <2>1, <2>2 DEF Tokens
<1>9. ASSUME NEW w \in Workers, ProcessCAS(w) PROVE Tokens'
  <2>1. /\ go[w] = "cas" /\ \E x \in {"len", "none"} : go' = [go EXCEPT ![w] = x]
        /\ UNCHANGED <<start, opened>>
    BY <1>9 DEF ProcessCAS
  <2>3. Owners' = Owners \ {w} /\ w \in Owners /\ Openers' = Openers
    BY <1>0, <2>1 DEF Owners, Owner, Openers, Opening
  <2>4. IdleToken' <= IdleToken + 1
    BY <1>0
  <2>5. /\ IsFiniteSet(Owners \ {w}) /\ Cardinality(Owners \ {w}) \in Nat
        /\ Cardinality(Owners \ {w}) = Cardinality(Owners) - 1
    BY <2>3, CardStep DEF Tokens
  <2> QED BY <1>0, <2>1, <2>3, <2>4, <2>5 DEF Tokens
<1>10. ASSUME NEW w \in Workers, ProcessLen(w) PROVE Tokens'
  <2>1. /\ go[w] = "len" /\ \E x \in {"schedule", "none"} : go' = [go EXCEPT ![w] = x]
        /\ UNCHANGED <<procStatus, start, opened>>
    BY <1>10 DEF ProcessLen
  <2>2. Owners' = Owners /\ Openers' = Openers /\ IdleToken' = IdleToken
    BY <1>0, <2>1 DEF Owners, Owner, Openers, Opening, IdleToken
  <2> QED BY <2>1, <2>2 DEF Tokens
<1>11. ASSUME NEW w \in Workers, ProcessSchedule(w) PROVE Tokens'
  <2> DEFINE g == [go EXCEPT ![w] = "none"]
  <2>1. go[w] = "schedule" /\ Schedule(g) /\ UNCHANGED <<start, opened>>
    BY <1>11 DEF ProcessSchedule
  <2>2. /\ g \in [Workers -> Places] /\ Openers' = Openers
        /\ \A v \in Workers : g[v] = go[v] \/ (go[v] = "schedule" /\ g[v] = "none")
    BY <1>0, <2>1 DEF Places, Openers, Opening
  <2> HIDE DEF g
  <2> QED BY <2>1, <2>2, ScheduleTokens
<1>12. CASE Stop
  <2>1. procStatus' = "stopped" /\ UNCHANGED <<start, opened, go>>
    BY <1>12 DEF Stop
  <2>2. Owners' = Owners /\ Openers' = Openers /\ IdleToken' = 0
    BY <2>1 DEF Owners, Owner, Openers, Opening, IdleToken
  <2> QED BY <1>0, <2>1, <2>2 DEF Tokens
<1>13. ASSUME NEW m \in Msgs, Send(m) \/ SendPriority(m) PROVE Tokens'
  BY <1>1, <1>13 DEF Send, SendPriority
<1>14. ASSUME NEW w \in Workers, RunInvoke(w) PROVE Tokens'
  BY <1>1, <1>14 DEF RunInvoke
<1>15. CASE Clear \/ UNCHANGED vars
  BY <1>1, <1>15 DEF Clear, vars
<1> QED BY <1>2, <1>3, <1>4, <1>5, <1>6, <1>7, <1>8, <1>9, <1>10, <1>11, <1>12,
           <1>13, <1>14, <1>15 DEF Next, Start, Process

(* Every step keeps the invariant.                                            *)
LEMMA NextInv == Inv /\ [Next]_vars => Inv'
BY NextBasic, NextTokens DEF Inv

(* At most as many goroutines run the inbox as Start has opened it.           *)
LEMMA InvRunners == Inv => RunnersBounded
<1> SUFFICES ASSUME Inv PROVE RunnersBounded
  OBVIOUS
<1>1. /\ opened \in Nat /\ Cardinality(Owners) \in Nat /\ Cardinality(Openers) \in Nat
      /\ IdleToken \in {0, 1} /\ Cardinality(Owners) + Cardinality(Openers) + IdleToken <= opened
  BY FS_CardinalityType DEF Inv, Basic, TypeOK, Tokens, IdleToken
<1>2. Cardinality(Owners) <= opened
  BY <1>1
<1> QED BY <1>2 DEF RunnersBounded, Owners

(* In every reachable state of any inbox, however often it is started: the    *)
(* types are right, no more goroutines are in run() than Starts have found    *)
(* the inbox stopped, an idle inbox with messages is about to be scheduled,   *)
(* and in.proc was set before any goroutine that uses it started.             *)
THEOREM InboxSafety ==
  Spec => [](TypeOK /\ RunnersBounded /\ NoLostWakeup /\ ProcBeforeRun)
<1>1. Inv => TypeOK /\ RunnersBounded /\ NoLostWakeup /\ ProcBeforeRun
  <2> SUFFICES ASSUME Inv PROVE ProcBeforeRun
    BY InvRunners DEF Inv, Basic
  <2> QED BY DEF Inv, Basic, StartProgress, ProcBeforeRun, Callers
<1> QED BY <1>1, InitInv, NextInv, PTL DEF Spec

\* Two goroutines are in run() at the same time only in an inbox that a Start
\* has opened a second time.
SingleRunner ==
  \A v, w \in Workers : Owner(v) /\ Owner(w) /\ v # w => opened > 1

(* An inbox opened once, which is any inbox whose actor is not restarted      *)
(* after its inbox was stopped, has a single consumer.                        *)
THEOREM OneRunnerUnlessReopened == Spec => []SingleRunner
<1>1. Inv => SingleRunner
  <2> SUFFICES ASSUME Inv, NEW v \in Workers, NEW w \in Workers, Owner(v), Owner(w), v # w
               PROVE  opened > 1
    BY DEF SingleRunner
  <2>1. IsFiniteSet(Owners) /\ v \in Owners /\ w \in Owners \ {v} /\ opened \in Nat
    BY DEF Inv, Basic, TypeOK, Tokens, Owners
  <2>2. IsFiniteSet(Owners \ {v}) /\ Cardinality(Owners \ {v}) = Cardinality(Owners) - 1
        /\ Cardinality(Owners) \in Nat
    BY <2>1, CardStep
  <2>3. Cardinality((Owners \ {v}) \ {w}) = Cardinality(Owners \ {v}) - 1
        /\ Cardinality((Owners \ {v}) \ {w}) \in Nat
    BY <2>1, <2>2, CardStep
  <2>4. Cardinality(Owners) <= opened
    BY InvRunners DEF RunnersBounded, Owners
  <2> QED BY <2>1, <2>2, <2>3, <2>4
<1> QED BY <1>1, InitInv, NextInv, PTL DEF Spec

\* A message in the queue of an idle inbox is never left without somebody who
\* is about to call schedule().
THEOREM WakeupKept == Spec => []NoLostWakeup
BY InboxSafety, PTL

\* process() never runs before Start has stored the Processer.
THEOREM ProcStored == Spec => []ProcBeforeRun
BY InboxSafety, PTL

(* Only a Start that finds the inbox stopped ends what a Stop began, unless a *)
(* Start was already on its way.                                              *)
THEOREM StopFinal == Spec => StopIsFinal
<1>1. Inv /\ [Next]_vars =>
        [procStatus = "stopped" /\ (\A c \in Callers : ~ Opening(c))
           => procStatus' = "stopped" \/ opened' = opened + 1]_vars
  <2> SUFFICES ASSUME Inv, Next, procStatus = "stopped", \A c \in Callers : ~ Opening(c)
               PROVE  procStatus' = "stopped" \/ opened' = opened + 1
    OBVIOUS
  <2>1. ASSUME NEW g, Schedule(g) PROVE procStatus' = "stopped"
    BY <2>1 DEF Schedule
  <2>2. ASSUME NEW c \in Callers, Start(c) PROVE procStatus' = "stopped" \/ opened' = opened + 1
    <3>1. start[c] # "swap"
      BY DEF Opening
    <3> QED BY <2>1, <2>2, <3>1, Zenon DEF Start, StartCAS, StartProc, StartSwap, StartSchedule
  <2> QED BY <2>1, <2>2, Zenon DEF Next, Send, SendPriority, SendSchedule,
        Process, RunLoad, RunPop, RunInvoke, InvokeStart,
        ProcessCAS, ProcessLen, ProcessSchedule, Stop, Clear
<1> QED BY <1>1, InitInv, NextInv, PTL DEF Spec, StopIsFinal

-----------------------------------------------------------------------------
\* A goroutine that will pop whatever happens to procStatus.
Popping(w) == go[w] = "pop"

(* A step that moves no message, opens nothing, and leaves alone whether the  *)
(* inbox is stopped and, when it is, who is about to pop and who to open, is  *)
(* invisible to the mailbox.                                                  *)
LEMMA Invisible ==
  ASSUME UNCHANGED <<queue, batch, delivered, opened>>,
         procStatus = "stopped" <=> procStatus' = "stopped",
         procStatus = "stopped" => /\ \A w \in Workers : Popping(w) <=> Popping(w)'
                                   /\ \A c \in Callers : Opening(c) <=> Opening(c)'
  PROVE  UNCHANGED M!vars
BY DEF M!vars, Phase, Popping

(* schedule() is invisible to the mailbox.                                    *)
LEMMA ScheduleInvisible ==
  ASSUME UNCHANGED <<queue, batch, delivered, opened>>, NEW g, Schedule(g),
         \A w \in Workers : g[w] = go[w] \/ (go[w] = "schedule" /\ g[w] = "none"),
         \A c \in Callers : Opening(c) <=> Opening(c)'
  PROVE  UNCHANGED M!vars
<1>1. procStatus = "stopped" <=> procStatus' = "stopped"
  BY DEF Schedule
<1>2. procStatus = "stopped" => \A w \in Workers : Popping(w) <=> Popping(w)'
  BY DEF Schedule, Popping
<1> QED BY <1>1, <1>2, Invisible

(* A goroutine about to pop holds a right of its own, so fewer consumers than *)
(* openings have a batch in hand.                                             *)
LEMMA RoomToTake ==
  ASSUME Inv, NEW w \in Workers, go[w] = "pop"
  PROVE  batch[w] = <<>> /\ M!Cardinality(M!Busy) < opened
<1>1. batch[w] = <<>>
  BY DEF Inv, Basic, BatchInHand
<1>2. M!Busy \subseteq Owners \ {w}
  BY <1>1 DEF Inv, Basic, BatchInHand, M!Busy, Owners, Owner
<1>3. w \in Owners /\ IsFiniteSet(Owners)
  BY DEF Owners, Owner, Inv, Tokens
<1>4. /\ IsFiniteSet(Owners \ {w}) /\ Cardinality(Owners \ {w}) = Cardinality(Owners) - 1
      /\ Cardinality(Owners) \in Nat
  BY <1>3, CardStep
<1>5. Cardinality(M!Busy) \in Nat /\ Cardinality(M!Busy) <= Cardinality(Owners \ {w})
  BY <1>2, <1>4, FS_Subset, FS_CardinalityType
<1>6. Cardinality(Owners) <= opened /\ opened \in Nat
  BY InvRunners DEF RunnersBounded, Owners, Inv, Basic, TypeOK
<1>7. M!Cardinality(M!Busy) = Cardinality(M!Busy)
  BY DEF Cardinality, M!Cardinality, IsFiniteSet, M!IsFiniteSet
<1> QED BY <1>1, <1>4, <1>5, <1>6, <1>7

(* The scheduling protocol of any inbox implements a mailbox: each message is *)
(* taken at most once, in queue order, never before Start, after Stop only in *)
(* a batch that was about to be popped until Start opens the inbox again, and *)
(* by one consumer for each opening.                                          *)
THEOREM InboxRefinement == Spec => ImplementsMailbox
<1>1. Init => M!Init
  BY DEF Init, M!Init, Phase
<1>2. Inv /\ Inv' /\ [Next]_vars => [M!Next]_(M!vars)
  <2> SUFFICES ASSUME Inv, Inv', [Next]_vars PROVE [M!Next]_(M!vars)
    OBVIOUS
  <2>0. /\ opened \in Nat /\ go \in [Workers -> Places]
        /\ start \in [Callers -> {"cas", "proc", "swap", "schedule", "done"}]
        /\ \A w \in Workers : go[w] # "none" => opened > 0
        /\ \A w \in Workers : w \in Callers
    BY DEF Inv, Basic, TypeOK, StartProgress, Places, Callers
  <2>1. ASSUME NEW m \in Msgs, Send(m) PROVE M!Put(m)
    BY <2>1 DEF Send, M!Put, Phase, Opening
  <2>2. ASSUME NEW m \in Msgs, SendPriority(m) PROVE M!PutFront(m)
    BY <2>2 DEF SendPriority, M!PutFront, Phase, Opening
  <2>3. ASSUME NEW m \in Msgs, SendSchedule(m) PROVE UNCHANGED M!vars
    <3>1. /\ UNCHANGED <<queue, batch, delivered, opened>> /\ Schedule(go)
          /\ \A c \in Callers : Opening(c) <=> Opening(c)'
      BY <2>3 DEF SendSchedule, Opening
    <3> QED BY <3>1, ScheduleInvisible
  <2>4. ASSUME NEW c \in Callers, StartCAS(c) PROVE M!Open \/ UNCHANGED M!vars
    <3>1. start[c] = "cas" /\ UNCHANGED <<queue, go, batch, delivered>>
      BY <2>4 DEF StartCAS
    <3>2. CASE procStatus = "stopped"
      <4>1. /\ opened' = opened + 1 /\ procStatus' = "starting"
            /\ start' = [start EXCEPT ![c] = "proc"]
        BY <2>4, <3>2 DEF StartCAS
      <4>2. Phase' = "open"
        BY <2>0, <4>1 DEF Phase
      <4> QED BY <3>1, <4>1, <4>2 DEF M!Open
    <3>3. CASE procStatus # "stopped"
      <4>1. UNCHANGED <<procStatus, opened>>
        BY <2>4, <3>3 DEF StartCAS
      <4> QED BY <3>1, <3>3, <4>1, Invisible
    <3> QED BY <3>2, <3>3
  <2>5. ASSUME NEW c \in Callers, StartProc(c) PROVE UNCHANGED M!vars
    <3>1. /\ start[c] = "proc" /\ start' = [start EXCEPT ![c] = "swap"]
          /\ UNCHANGED <<queue, procStatus, opened, go, batch, delivered>>
      BY <2>5 DEF StartProc
    <3>2. /\ \A d \in Callers : Opening(d) <=> Opening(d)'
          /\ \A w \in Workers : Popping(w) <=> Popping(w)'
      BY <2>0, <3>1 DEF Opening, Popping
    <3> QED BY <3>1, <3>2, Invisible
  <2>6. ASSUME NEW c \in Callers, StartSwap(c) PROVE UNCHANGED M!vars
    <3>1. /\ start[c] = "swap" /\ procStatus' = "idle"
          /\ UNCHANGED <<queue, opened, go, batch, delivered>>
      BY <2>6 DEF StartSwap
    <3>2. Opening(c)
      BY <3>1 DEF Opening
    <3>3. Phase' = Phase
      BY <3>1, <3>2 DEF Phase
    <3> QED BY <3>1, <3>3 DEF M!vars
  <2>7. ASSUME NEW c \in Callers, StartSchedule(c) PROVE UNCHANGED M!vars
    <3>1. /\ UNCHANGED <<queue, batch, delivered, opened>> /\ Schedule(go)
          /\ start[c] = "schedule" /\ start' = [start EXCEPT ![c] = "done"]
      BY <2>7 DEF StartSchedule
    <3>2. \A d \in Callers : Opening(d) <=> Opening(d)'
      BY <2>0, <3>1 DEF Opening
    <3> QED BY <3>1, <3>2, ScheduleInvisible
  <2>8. ASSUME NEW w \in Workers, RunLoad(w) PROVE UNCHANGED M!vars
    <3>1. /\ go[w] \in {"load", "invoke"}
          /\ procStatus = "stopped" => go' = [go EXCEPT ![w] = "cas"]
          /\ UNCHANGED <<queue, procStatus, start, opened, batch, delivered>>
      BY <2>8, Zenon DEF RunLoad, AtLoop
    <3>2. procStatus = "stopped" => /\ \A v \in Workers : Popping(v) <=> Popping(v)'
                                    /\ \A c \in Callers : Opening(c) <=> Opening(c)'
      BY <2>0, <3>1 DEF Popping, Opening
    <3> QED BY <3>1, <3>2, Invisible
  <2>9. ASSUME NEW w \in Workers, RunPop(w), queue = <<>>
        PROVE  M!Close \/ UNCHANGED M!vars
    <3>1. /\ go[w] = "pop" /\ go' = [go EXCEPT ![w] = "cas"]
          /\ UNCHANGED <<queue, procStatus, start, opened, batch, delivered>>
      BY <2>9 DEF RunPop
    <3>2. Phase = "open" /\ Phase' \in {"open", "closed"}
      BY <2>0, <3>1 DEF Phase
    <3> QED BY <3>1, <3>2 DEF M!Close, M!vars
  <2>10. ASSUME NEW w \in Workers, RunPop(w), queue # <<>> PROVE M!Take(w)
    <3>1. /\ go[w] = "pop" /\ go' = [go EXCEPT ![w] = "invoke"]
          /\ UNCHANGED <<procStatus, start, opened, delivered>>
      BY <2>10 DEF RunPop
    <3>2. Phase = "open" /\ Phase' \in {"open", "closed"}
      BY <2>0, <3>1 DEF Phase
    <3>3. batch[w] = <<>> /\ M!Cardinality(M!Busy) < opened
      BY <3>1, RoomToTake
    <3> QED BY <2>10, <3>1, <3>2, <3>3 DEF RunPop, M!Take
  <2>11. ASSUME NEW w \in Workers, RunInvoke(w) PROVE M!Deliver(w)
    BY <2>11 DEF RunInvoke, M!Deliver, Phase, Opening
  <2>12. ASSUME NEW w \in Workers, InvokeStart(w) PROVE UNCHANGED M!vars
    <3>1. /\ start[w] = "done" /\ start' = [start EXCEPT ![w] = "cas"]
          /\ UNCHANGED <<queue, procStatus, opened, go, batch, delivered>>
      BY <2>12 DEF InvokeStart
    <3>2. /\ \A d \in Callers : Opening(d) <=> Opening(d)'
          /\ \A v \in Workers : Popping(v) <=> Popping(v)'
      BY <2>0, <3>1 DEF Opening, Popping
    <3> QED BY <3>1, <3>2, Invisible
  <2>13. ASSUME NEW w \in Workers, ProcessCAS(w) \/ ProcessLen(w) PROVE UNCHANGED M!vars
    <3>1. /\ go[w] \in {"cas", "len"}
          /\ \E x \in {"len", "none", "schedule"} : go' = [go EXCEPT ![w] = x]
          /\ procStatus = "stopped" <=> procStatus' = "stopped"
          /\ UNCHANGED <<queue, start, opened, batch, delivered>>
      BY <2>13 DEF ProcessCAS, ProcessLen
    <3>2. /\ \A v \in Workers : Popping(v) <=> Popping(v)'
          /\ \A c \in Callers : Opening(c) <=> Opening(c)'
      BY <2>0, <3>1 DEF Popping, Opening
    <3> QED BY <3>1, <3>2, Invisible
  <2>14. ASSUME NEW w \in Workers, ProcessSchedule(w) PROVE UNCHANGED M!vars
    <3> DEFINE g == [go EXCEPT ![w] = "none"]
    <3>1. /\ go[w] = "schedule" /\ Schedule(g)
          /\ UNCHANGED <<queue, start, opened, batch, delivered>>
      BY <2>14 DEF ProcessSchedule
    <3>2. /\ \A v \in Workers : g[v] = go[v] \/ (go[v] = "schedule" /\ g[v] = "none")
          /\ \A c \in Callers : Opening(c) <=> Opening(c)'
      BY <2>0, <3>1 DEF Opening
    <3> HIDE DEF g
    <3> QED BY <3>1, <3>2, ScheduleInvisible
  <2>15. ASSUME Stop PROVE M!Close \/ UNCHANGED M!vars
    <3>1. /\ start[Spawner] \in {"schedule", "done"} /\ procStatus' = "stopped"
          /\ UNCHANGED <<queue, start, opened, go, batch, delivered>>
      BY <2>15 DEF Stop
    <3>2. opened > 0
      BY <3>1 DEF Inv, Basic, StartProgress
    <3>3. CASE \E w \in Workers : go[w] = "pop"
      BY <3>1, <3>3 DEF M!vars, Phase
    <3>4. CASE \E c \in Callers : Opening(c)
      BY <3>1, <3>4 DEF M!vars, Phase, Opening
    <3>5. CASE /\ ~ \E w \in Workers : go[w] = "pop"
               /\ ~ \E c \in Callers : Opening(c)
      <4>1. Phase' = "closed" /\ Phase \in {"open", "closed"}
        BY <3>1, <3>2, <3>5 DEF Phase, Opening
      <4> QED BY <3>1, <4>1 DEF M!Close, M!vars
    <3> QED BY <3>3, <3>4, <3>5
  <2>16. ASSUME Clear PROVE M!Clear
    BY <2>16 DEF Clear, M!Clear, Phase, Opening
  <2>17. ASSUME UNCHANGED vars PROVE UNCHANGED M!vars
    BY <2>17 DEF vars, M!vars, Phase, Opening
  <2> QED BY <2>1, <2>2, <2>3, <2>4, <2>5, <2>6, <2>7, <2>8, <2>9, <2>10, <2>11, <2>12,
             <2>13, <2>14, <2>15, <2>16, <2>17 DEF Next, Start, Process, M!Next
<1> QED BY <1>1, <1>2, InitInv, NextInv, PTL DEF Spec, ImplementsMailbox, M!Spec
=============================================================================
