------------------------------- MODULE Events -------------------------------
(***************************************************************************)
(* The event stream (actor/event_stream.go) with Subscribe, Unsubscribe    *)
(* and BroadcastEvent of the engine, and SendRepeater.  They meet in dead  *)
(* letters: what cannot be delivered is an event, and the event stream     *)
(* forwards every event to every subscriber, alive or not.                 *)
(***************************************************************************)
EXTENDS Naturals, Sequences

CONSTANTS Actors,      \* subscribers, and the target of the repeater
          Target,      \* the target of the repeater
          None,
          Handles,     \* the *PID values given to Subscribe and Unsubscribe
          Of,          \* Of[h]: the actor that *h names
          MaxEvents,   \* bound: calls of BroadcastEvent from outside
          MaxQueue     \* bound: messages in the event stream's mailbox

ASSUME EventsAssumption ==
    /\ Target \in Actors /\ Of \in [Handles -> Actors] /\ None \notin Handles
    /\ MaxEvents \in Nat /\ MaxQueue \in Nat

VARIABLES alive,    \* the actors that are registered
          queue,    \* the event stream's mailbox
          subs,     \* eventStream.subs
          fwd,      \* the loop of Receive: the event, the subscribers left
          call,     \* handle -> the last call with it that has returned
          sent,     \* for each broadcast event, call as it was then
          got,      \* handle -> the broadcast events forwarded to it
          repeater  \* a SendRepeater

vars == <<alive, queue, subs, fwd, call, sent, got, repeater>>

\* Messages to the event stream; n numbers the events broadcast from outside,
\* and is 0 for dead letters, duplicate ids and missing remotes.
Event(n) == [kind |-> "event", n |-> n, pid |-> None]
Sub(h) == [kind |-> "sub", n |-> 0, pid |-> h]
Unsub(h) == [kind |-> "unsub", n |-> 0, pid |-> h]

Init == /\ alive = Actors /\ queue = <<>> /\ subs = {} /\ fwd = [n |-> 0, left |-> {}]
        /\ call = [h \in Handles |-> "none"] /\ sent = <<>>
        /\ got = [h \in Handles |-> <<>>] /\ repeater = "off"

\* BroadcastEvent: a message to the event stream.
BroadcastEvent(e) == Len(queue) < MaxQueue /\ queue' = Append(queue, e)

\* SendLocal without a process: a DeadLetterEvent (at the bound it is left out,
\* nobody waits for room in a mailbox).
DeadLetter == queue' = IF Len(queue) < MaxQueue THEN Append(queue, Event(0)) ELSE queue

\* Subscribe and Unsubscribe only send; call is what has returned.
Subscribe(h) ==
    /\ call[h] = "none" /\ BroadcastEvent(Sub(h))
    /\ call' = [call EXCEPT ![h] = "subscribed"]
    /\ UNCHANGED <<alive, subs, fwd, got, sent, repeater>>

Unsubscribe(h) ==
    /\ call[h] # "unsubscribed" /\ BroadcastEvent(Unsub(h))
    /\ call' = [call EXCEPT ![h] = "unsubscribed"]
    /\ UNCHANGED <<alive, subs, fwd, got, sent, repeater>>

\* An event from outside.
Broadcast ==
    /\ Len(sent) < MaxEvents /\ BroadcastEvent(Event(Len(sent) + 1))
    /\ sent' = Append(sent, call)
    /\ UNCHANGED <<alive, subs, fwd, got, call, repeater>>

\* Mutant of StreamReceive: the latest message first.
StreamReceiveLast ==
    LET m == queue[Len(queue)] IN
    /\ fwd.left = {} /\ queue # <<>>
    /\ queue' = SubSeq(queue, 1, Len(queue) - 1)
    /\ \/ m.kind = "sub" /\ subs' = subs \cup {m.pid} /\ UNCHANGED fwd
       \/ m.kind = "unsub" /\ subs' = subs \ {m.pid} /\ UNCHANGED fwd
       \/ m.kind = "event" /\ fwd' = [n |-> m.n, left |-> subs] /\ UNCHANGED subs
    /\ UNCHANGED <<alive, got, call, sent, repeater>>

\* Mutant of StreamReceive: an event ends all subscriptions.
StreamReceiveOnce ==
    LET m == Head(queue) IN
    /\ fwd.left = {} /\ queue # <<>>
    /\ queue' = Tail(queue)
    /\ \/ m.kind = "sub" /\ subs' = subs \cup {m.pid} /\ UNCHANGED fwd
       \/ m.kind = "unsub" /\ subs' = subs \ {m.pid} /\ UNCHANGED fwd
       \/ m.kind = "event" /\ fwd' = [n |-> m.n, left |-> subs] /\ subs' = {}
    /\ UNCHANGED <<alive, got, call, sent, repeater>>

\* eventStream.Receive: the table is keyed by the pointer, not by the PID.
StreamReceive ==
    LET m == Head(queue) IN
    /\ fwd.left = {} /\ queue # <<>>
    /\ queue' = Tail(queue)
    /\ \/ m.kind = "sub" /\ subs' = subs \cup {m.pid} /\ UNCHANGED fwd
       \/ m.kind = "unsub" /\ subs' = subs \ {m.pid} /\ UNCHANGED fwd
       \/ m.kind = "event" /\ fwd' = [n |-> m.n, left |-> subs] /\ UNCHANGED subs
    /\ UNCHANGED <<alive, got, call, sent, repeater>>

\* Mutant of Forward: every forwarded message is reported.
ForwardReports(h) ==
    /\ h \in fwd.left
    /\ fwd' = [fwd EXCEPT !.left = @ \ {h}]
    /\ DeadLetter
    /\ got' = IF fwd.n > 0 THEN [got EXCEPT ![h] = Append(@, fwd.n)] ELSE got
    /\ UNCHANGED <<alive, subs, call, sent, repeater>>

\* Forward(sub): what a dead subscriber is sent is a dead letter, which is an
\* event for the stream again.
Forward(h) ==
    /\ h \in fwd.left
    /\ fwd' = [fwd EXCEPT !.left = @ \ {h}]
    /\ IF Of[h] \in alive
       THEN /\ got' = IF fwd.n > 0 THEN [got EXCEPT ![h] = Append(@, fwd.n)] ELSE got
            /\ UNCHANGED queue
       ELSE DeadLetter /\ UNCHANGED got
    /\ UNCHANGED <<alive, subs, call, sent, repeater>>

\* An actor is stopped: Registry.Remove.
Stop(a) ==
    /\ a \in alive
    /\ alive' = alive \ {a}
    /\ UNCHANGED <<queue, subs, fwd, got, call, sent, repeater>>

---------------------------------------------------------------------------
(* SendRepeat, the ticks of its goroutine, Stop, and the end.              *)

SendRepeat ==
    /\ repeater = "off" /\ repeater' = "on"
    /\ UNCHANGED <<alive, queue, subs, fwd, got, call, sent>>

\* A tick may be taken after Stop, as long as select has not seen cancelch.
RepeaterTick ==
    /\ repeater \in {"on", "stopping"}
    /\ IF Target \in alive THEN UNCHANGED queue ELSE DeadLetter
    /\ UNCHANGED <<alive, subs, fwd, got, call, sent, repeater>>

RepeaterStop ==
    /\ repeater = "on" /\ repeater' = "stopping"
    /\ UNCHANGED <<alive, queue, subs, fwd, got, call, sent>>

RepeaterCancel ==
    /\ repeater = "stopping" /\ repeater' = "ended"
    /\ UNCHANGED <<alive, queue, subs, fwd, got, call, sent>>

---------------------------------------------------------------------------

StreamStep == StreamReceive \/ \E h \in Handles : Forward(h)

Next == \/ StreamStep \/ Broadcast
        \/ \E h \in Handles : Subscribe(h) \/ Unsubscribe(h)
        \/ \E a \in Actors : Stop(a)
        \/ SendRepeat \/ RepeaterTick \/ RepeaterStop \/ RepeaterCancel

Spec == Init /\ [][Next]_vars

\* The event stream's goroutine runs; a select with a closed channel takes it
\* in the end, because it chooses at random among what is ready.
FairSpec == Spec /\ WF_vars(StreamStep) /\ WF_vars(RepeaterCancel)

---------------------------------------------------------------------------
(* Properties.                                                             *)

TypeOK ==
    /\ alive \subseteq Actors /\ subs \subseteq Handles
    /\ queue \in Seq([kind : {"event", "sub", "unsub"}, n : 0 .. MaxEvents, pid : Handles \cup {None}])
    /\ fwd \in [n : 0 .. MaxEvents, left : SUBSET Handles]
    /\ call \in [Handles -> {"none", "subscribed", "unsubscribed"}]
    /\ sent \in Seq([Handles -> {"none", "subscribed", "unsubscribed"}]) /\ Len(sent) <= MaxEvents
    /\ got \in [Handles -> Seq(1 .. MaxEvents)]
    /\ repeater \in {"off", "on", "stopping", "ended"}

\* The mailbox of the event stream keeps the order of the calls: whoever has
\* subscribed before an event is broadcast gets it before every later one,
\* at most once, and whoever has unsubscribed before does not.
EventsInOrder == \A h \in Handles :
    /\ \A i, j \in DOMAIN got[h] : i < j => got[h][i] < got[h][j]
    /\ \A i \in DOMAIN got[h] : sent[got[h][i]][h] # "unsubscribed"
    /\ \A n \in DOMAIN sent, j \in DOMAIN got[h] :
           (n < got[h][j] /\ sent[n][h] = "subscribed") => \E i \in DOMAIN got[h] : got[h][i] = n

\* Nothing produces events: subscribers are alive and so is the target of
\* the repeater.
Undisturbed == /\ \A h \in subs \cup fwd.left : Of[h] \in alive
               /\ Target \in alive \/ repeater \in {"off", "ended"}

\* The event stream comes to rest once all its subscribers stay alive; with
\* a dead one each event is followed by its dead letter, and that by its own.
Quiesces == <>[]Undisturbed => <>[](queue = <<>> /\ fwd.left = {})

\* Whoever has subscribed before an event is broadcast gets it, through any
\* number of dead letters and whatever is unsubscribed later, unless the
\* actor is stopped.
Notified == \A h \in Handles, n \in 1 .. MaxEvents :
    (n \in DOMAIN sent /\ sent[n][h] = "subscribed")
        ~> (Of[h] \notin alive \/ \E i \in DOMAIN got[h] : got[h][i] = n)
=============================================================================
