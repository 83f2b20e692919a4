------------------------------- MODULE Remote -------------------------------
(***************************************************************************)
(* The life of a Remote (remote/remote.go): New, Start, Stop and Send, and *)
(* the two goroutines of Start, one of which serves the listener while the *)
(* other waits for stopCh and cancels the first.  state is read and stored *)
(* atomically, but never compared and swapped, and the other fields of the *)
(* Remote are not protected at all, so that calls may interleave at every  *)
(* access.                                                                 *)
(***************************************************************************)
EXTENDS Naturals

CONSTANTS Starts,  \* calls of Start, each with an engine of its own
          Stops,   \* calls of Stop
          Sends,   \* calls of Send and SendPriority
          None     \* nil

ASSUME RemoteAssumption == None \notin Starts

VARIABLES state,     \* Remote.state
          engine,    \* Remote.engine: the call of Start that brought it
          router,    \* Remote.streamRouterPID: the engine it was spawned on
          stopCh,    \* Remote.stopCh, Remote.stopWg: the call that made them
          start,     \* where each Start is
          serve,     \* its listener: "none", "bound", "serving" or "closed"
          waiter,    \* the goroutine at <-stopCh: "none", "waiting", "done"
          stop,      \* where each Stop is, the channel it sends on, what it returned
          sent,      \* the router each message was given to
          raced      \* two calls of Start and Stop have overlapped

vars == <<state, engine, router, stopCh, start, serve, waiter, stop, sent, raced>>

Init == /\ state = "initialized" /\ engine = None /\ router = None /\ stopCh = None
        /\ start = [s \in Starts |-> "ready"] /\ serve = [s \in Starts |-> "none"]
        /\ waiter = [s \in Starts |-> "none"]
        /\ stop = [c \in Stops |-> [pc |-> "ready", ch |-> None, wg |-> None]]
        /\ sent = [m \in Sends |-> "unsent"] /\ raced = FALSE

\* Calls that have begun and not returned.
Running == {s \in Starts : start[s] \in {"store", "listen", "spawn", "go"}}
           \cup {c \in Stops : stop[c].pc \in {"store", "read", "send"}}

---------------------------------------------------------------------------
(* Start                                                                   *)

StartLoad(s) ==
    /\ start[s] = "ready"
    /\ start' = [start EXCEPT ![s] = IF state = "initialized" THEN "store" ELSE "refused"]
    /\ raced' = (raced \/ (state = "initialized" /\ Running # {}))
    /\ UNCHANGED <<state, engine, router, stopCh, serve, waiter, stop, sent>>

StartStore(s) ==
    /\ start[s] = "store" /\ start' = [start EXCEPT ![s] = "listen"]
    /\ state' = "running" /\ engine' = s
    /\ UNCHANGED <<router, stopCh, serve, waiter, stop, sent, raced>>

\* The address can be bound once; listening may fail for other reasons too, and
\* so may the registration with the mux, which leaves the address bound.
StartListen(s) ==
    /\ start[s] = "listen"
    /\ \/ /\ \A t \in Starts : serve[t] \notin {"bound", "serving"}
          /\ serve' = [serve EXCEPT ![s] = "bound"]
          /\ \E then \in {"spawn", "failed"} : start' = [start EXCEPT ![s] = then]
       \/ start' = [start EXCEPT ![s] = "failed"] /\ UNCHANGED serve
    /\ UNCHANGED <<state, engine, router, stopCh, waiter, stop, sent, raced>>

\* Mutant of StartSpawnRouter: the PID goes to a variable of Start's own.
StartSpawnShadowed(s) ==
    /\ start[s] = "spawn" /\ start' = [start EXCEPT ![s] = "go"]
    /\ UNCHANGED <<state, engine, router, stopCh, serve, waiter, stop, sent, raced>>

StartSpawnRouter(s) ==
    /\ start[s] = "spawn" /\ start' = [start EXCEPT ![s] = "go"]
    /\ router' = engine
    /\ UNCHANGED <<state, engine, stopCh, serve, waiter, stop, sent, raced>>

\* Mutant of StartGo: nobody waits for stopCh.
StartGoNoWaiter(s) ==
    /\ start[s] = "go" /\ start' = [start EXCEPT ![s] = "started"]
    /\ stopCh' = s /\ serve' = [serve EXCEPT ![s] = "serving"]
    /\ UNCHANGED <<state, engine, router, waiter, stop, sent, raced>>

\* stopWg, stopCh and the two goroutines.
StartGo(s) ==
    /\ start[s] = "go" /\ start' = [start EXCEPT ![s] = "started"]
    /\ stopCh' = s
    /\ serve' = [serve EXCEPT ![s] = "serving"] /\ waiter' = [waiter EXCEPT ![s] = "waiting"]
    /\ UNCHANGED <<state, engine, router, stop, sent, raced>>

\* Serve returns when its context is cancelled, or because accepting failed;
\* its goroutine calls stopWg.Done().
ServeReturns(s) ==
    /\ serve[s] = "serving" /\ serve' = [serve EXCEPT ![s] = "closed"]
    /\ UNCHANGED <<state, engine, router, stopCh, start, waiter, stop, sent, raced>>

---------------------------------------------------------------------------
(* Stop                                                                    *)

StopLoad(c) ==
    /\ stop[c].pc = "ready"
    /\ stop' = [stop EXCEPT ![c].pc = IF state = "running" THEN "store" ELSE "returned"]
    /\ raced' = (raced \/ (state = "running" /\ Running # {}))
    /\ UNCHANGED <<state, engine, router, stopCh, start, serve, waiter, sent>>

\* Mutant of StopStore: the state goes back to initialized.
StopStoreInitialized(c) ==
    /\ stop[c].pc = "store" /\ stop' = [stop EXCEPT ![c].pc = "read"]
    /\ state' = "initialized"
    /\ UNCHANGED <<engine, router, stopCh, start, serve, waiter, sent, raced>>

StopStore(c) ==
    /\ stop[c].pc = "store" /\ stop' = [stop EXCEPT ![c].pc = "read"]
    /\ state' = "stopped"
    /\ UNCHANGED <<engine, router, stopCh, start, serve, waiter, sent, raced>>

\* The operand of the send: a nil channel blocks for ever.
StopRead(c) ==
    /\ stop[c].pc = "read" /\ stop' = [stop EXCEPT ![c].pc = "send", ![c].ch = stopCh]
    /\ UNCHANGED <<state, engine, router, stopCh, start, serve, waiter, sent, raced>>

\* Mutant of StopSend: an empty WaitGroup instead of stopWg.
StopSendEmpty(c) ==
    /\ stop[c].pc = "send" /\ stop[c].ch # None /\ waiter[stop[c].ch] = "waiting"
    /\ waiter' = [waiter EXCEPT ![stop[c].ch] = "done"]
    /\ stop' = [stop EXCEPT ![c].pc = "returned"]
    /\ UNCHANGED <<state, engine, router, stopCh, start, serve, sent, raced>>

\* The send meets <-stopCh, whose goroutine calls cancel(); stopWg is returned.
StopSend(c) ==
    /\ stop[c].pc = "send" /\ stop[c].ch # None /\ waiter[stop[c].ch] = "waiting"
    /\ waiter' = [waiter EXCEPT ![stop[c].ch] = "done"]
    /\ stop' = [stop EXCEPT ![c].pc = "returned", ![c].wg = stopCh]
    /\ UNCHANGED <<state, engine, router, stopCh, start, serve, sent, raced>>

\* The caller's Wait(): at once on an empty WaitGroup.
Wait(c) ==
    /\ stop[c].pc = "returned" /\ (stop[c].wg # None => serve[stop[c].wg] = "closed")
    /\ stop' = [stop EXCEPT ![c].pc = "waited"]
    /\ UNCHANGED <<state, engine, router, stopCh, start, serve, waiter, sent, raced>>

---------------------------------------------------------------------------

\* Send, SendPriority: to the router's PID, and to nobody while that is nil.
Send(m) ==
    /\ sent[m] = "unsent" /\ sent' = [sent EXCEPT ![m] = router]
    /\ UNCHANGED <<state, engine, router, stopCh, start, serve, waiter, stop, raced>>

StartStep(s) == StartStore(s) \/ StartListen(s) \/ StartSpawnRouter(s) \/ StartGo(s)
StopStep(c) == StopStore(c) \/ StopRead(c) \/ StopSend(c) \/ Wait(c)

Next == \/ \E s \in Starts : StartLoad(s) \/ StartStep(s) \/ ServeReturns(s)
        \/ \E c \in Stops : StopLoad(c) \/ StopStep(c)
        \/ \E m \in Sends : Send(m)

Spec == Init /\ [][Next]_vars

\* Calls go on, and Serve returns when it is cancelled.
FairSpec == /\ Spec /\ \A s \in Starts : WF_vars(StartStep(s))
            /\ \A s \in Starts : WF_vars(waiter[s] = "done" /\ ServeReturns(s))
            /\ \A c \in Stops : WF_vars(StopStep(c))

---------------------------------------------------------------------------
(* Properties.                                                             *)

TypeOK == /\ state \in {"initialized", "running", "stopped"}
          /\ {engine, router, stopCh} \subseteq Starts \cup {None}
          /\ start \in [Starts -> {"ready", "refused", "store", "listen", "failed", "spawn", "go", "started"}]
          /\ serve \in [Starts -> {"none", "bound", "serving", "closed"}]
          /\ waiter \in [Starts -> {"none", "waiting", "done"}]
          /\ stop \in [Stops -> [pc : {"ready", "store", "read", "send", "returned", "waited"},
                                 ch : Starts \cup {None}, wg : Starts \cup {None}]]
          /\ \A m \in Sends : sent[m] \in Starts \cup {None, "unsent"}
          /\ raced \in BOOLEAN

\* A Remote is started once, for one engine, which has the router; a second
\* Start is an error even after Stop ("remote already started").  Start looks
\* at the state and stores it in two steps: two at the same time both go on,
\* and the engine of the one that fails may be given the router.
StartedOnce == ~raced =>
    /\ \A s, t \in Starts : start[s] = "started" /\ start[t] = "started" => s = t
    /\ \A s \in Starts : start[s] = "started" => engine = s /\ router = s

\* When a Stop that found the remote running has returned and its caller has
\* waited, nothing listens any more; a Stop that came too late to do anything
\* returns an empty WaitGroup, and says nothing.
StopCloses == ~raced => \A c \in Stops :
    (stop[c].pc = "waited" /\ stop[c].ch # None) => \A s \in Starts : serve[s] \notin {"bound", "serving"}

\* Stop returns, unless another Start or Stop was under way with it, or the
\* Start it follows could not listen or register: that leaves the state running and
\* stopCh nil, so that Stop sends on a nil channel.
StopReturns == \A c \in Stops :
    stop[c].pc = "send"
        ~> (stop[c].pc \in {"returned", "waited"} \/ raced \/ \E s \in Starts : start[s] = "failed")

\* "Sending will work even if the remote is stopped": from the return of Start
\* on, every message goes to a router, and to that of the engine unless two
\* calls have overlapped.
SendsRouted == [][\A m \in Sends, s \in Starts :
    (sent'[m] # sent[m] /\ start[s] = "started") => sent'[m] # None /\ (~raced => sent'[m] = s)]_vars
=============================================================================
