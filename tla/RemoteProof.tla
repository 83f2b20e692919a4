---------------------------- MODULE RemoteProof ----------------------------
(***************************************************************************)
(* Proofs about Remote, for any number of calls of Start, Stop and Send.    *)
(***************************************************************************)
EXTENDS Remote, TLAPS

\* Calls that have looked at the state and have not returned.
StartActive(s) == start[s] \in {"store", "listen", "spawn", "go"}
StopActive(c) == stop[c].pc \in {"store", "read", "send"}

\* A Start that has stored the state.
Stored(s) == start[s] \in {"listen", "failed", "spawn", "go", "started"}

\* Once a Start has stored the engine there is one, and a router follows,
\* also when calls overlap.
Routed == /\ \A s \in Starts : Stored(s) => engine # None
          /\ \A s \in Starts : start[s] \in {"go", "started"} => router # None

\* One call at a time.
OneCall == /\ \A s, t \in Starts : StartActive(s) /\ StartActive(t) => s = t
           /\ \A c, d \in Stops : StopActive(c) /\ StopActive(d) => c = d
           /\ \A s \in Starts, c \in Stops : ~(StartActive(s) /\ StopActive(c))

\* Nobody has stored anything while the state is initialized, and it is when
\* a Start is about to store it.
Untouched == /\ state = "initialized" => \A s \in Starts : ~Stored(s)
             /\ \A s \in Starts : start[s] = "store" => state = "initialized"
             /\ \A c \in Stops : StopActive(c) => state # "initialized"

\* One Start gets that far, and the fields are its own.
Owned == /\ \A s, t \in Starts : Stored(s) /\ Stored(t) => s = t
         /\ \A s \in Starts : Stored(s) => engine = s
         /\ \A s \in Starts : start[s] \in {"go", "started"} => router = s
         /\ stopCh # None => start[stopCh] = "started"
         /\ \A s \in Starts : serve[s] # "none" => Stored(s)

\* A Stop that sends on a channel returns the WaitGroup that goes with it.
Stopping == \A c \in Stops :
  /\ stop[c].ch # None => stop[c].ch = stopCh /\ stop[c].pc \in {"send", "returned", "waited"}
  /\ stop[c].pc \in {"returned", "waited"} /\ stop[c].ch # None => stop[c].wg = stop[c].ch
  /\ stop[c].wg # None => stop[c].wg = stopCh
  /\ stop[c].pc = "waited" /\ stop[c].wg # None => serve[stop[c].wg] = "closed"

IInv == /\ TypeOK /\ Routed
        /\ ~raced => OneCall /\ Untouched /\ Owned /\ Stopping

\* The part of the invariant that holds as long as no two calls overlap.
Alone == OneCall /\ Untouched /\ Owned /\ Stopping

\* The initial state.
LEMMA InitIInv == Init => IInv
<1> SUFFICES ASSUME Init PROVE IInv
  BY Zenon
<1> USE RemoteAssumption DEF Init
<1>1. TypeOK
  BY Zenon DEF TypeOK
<1>2. Routed /\ OneCall /\ Untouched
  BY Zenon DEF Routed, OneCall, Untouched, StartActive, StopActive, Stored
<1>3. Owned /\ Stopping
  BY Zenon DEF Owned, Stopping, Stored
<1> QED BY <1>1, <1>2, <1>3, Zenon DEF IInv

\* Start looks at the state, while nobody else is between two accesses.
LEMMA StartLoadStep ==
  ASSUME IInv, NEW s \in Starts, StartLoad(s)
  PROVE  IInv'
<1> USE RemoteAssumption DEF StartActive, StopActive, Stored
<1>1. /\ start[s] = "ready"
      /\ start' = [start EXCEPT ![s] = IF state = "initialized" THEN "store" ELSE "refused"]
      /\ UNCHANGED <<state, engine, router, stopCh, serve, waiter, stop, sent>>
  BY Zenon DEF StartLoad
<1>2. /\ start'[s] = IF state = "initialized" THEN "store" ELSE "refused"
      /\ \A t \in Starts \ {s} : start'[t] = start[t]
  BY <1>1, Zenon DEF IInv, TypeOK
<1>3. TypeOK' /\ Routed'
  <2>1. raced' \in BOOLEAN
    BY Zenon DEF StartLoad, IInv, TypeOK
  <2>2. TypeOK'
    BY <1>1, <2>1, Zenon DEF IInv, TypeOK
  <2> QED BY <1>1, <1>2, <2>2 DEF IInv, Routed
<1>4. ASSUME ~raced' PROVE Alone'
  <2>1. Alone /\ (state = "initialized" => Running = {})
    BY <1>4, Zenon DEF StartLoad, IInv, Alone
  <2>2. OneCall'
    BY <1>1, <1>2, <2>1 DEF Alone, OneCall, Running
  <2>3. Untouched'
    BY <1>1, <1>2, <2>1 DEF Alone, Untouched
  <2>4. Owned'
    BY <1>1, <1>2, <2>1 DEF Alone, Owned, IInv, TypeOK
  <2>5. Stopping'
    BY <1>1, <2>1, Zenon DEF Alone, Stopping
  <2> QED BY <2>2, <2>3, <2>4, <2>5, Zenon DEF Alone
<1> QED BY <1>3, <1>4, Zenon DEF IInv, Alone

\* The other steps of Start, by the one call that is active.
LEMMA StartStepStep ==
  ASSUME IInv, NEW s \in Starts, StartStep(s)
  PROVE  IInv'
<1> USE RemoteAssumption DEF StartActive, StopActive, Stored
<1>1. StartActive(s) /\ UNCHANGED <<stop, sent, raced>>
  BY Zenon DEF StartStep, StartStore, StartListen, StartSpawnRouter, StartGo
<1>2. CASE StartStore(s)
  <2>1. /\ start[s] = "store" /\ start' = [start EXCEPT ![s] = "listen"]
        /\ state' = "running" /\ engine' = s /\ UNCHANGED <<router, stopCh, serve, waiter>>
    BY <1>2, Zenon DEF StartStore
  <2>2. start'[s] = "listen" /\ \A t \in Starts \ {s} : start'[t] = start[t]
    BY <2>1, Zenon DEF IInv, TypeOK
  <2>3. TypeOK' /\ Routed'
    BY <1>1, <2>1, <2>2, Zenon DEF IInv, TypeOK, Routed
  <2>4. ASSUME ~raced PROVE Alone'
    <3>1. Alone /\ state = "initialized" /\ \A t \in Starts : ~Stored(t)
      BY <2>1, <2>4, Zenon DEF IInv, Alone, Untouched
    <3>2. OneCall' /\ Untouched'
      BY <1>1, <2>1, <2>2, <3>1, Zenon DEF Alone, OneCall, Untouched
    <3>3. stopCh = None
      BY <3>1, Zenon DEF Alone, Owned, IInv, TypeOK
    <3>4. Owned'
      BY <2>1, <2>2, <3>1, <3>3 DEF Alone, Owned
    <3>5. Stopping'
      BY <1>1, <2>1, <3>1, Zenon DEF Alone, Stopping
    <3> QED BY <3>2, <3>4, <3>5, Zenon DEF Alone
  <2> QED BY <1>1, <2>3, <2>4, Zenon DEF IInv, Alone
<1>3. CASE StartListen(s)
  <2>1. PICK v \in {"spawn", "failed"} :
          /\ start[s] = "listen" /\ start' = [start EXCEPT ![s] = v]
          /\ serve' = [serve EXCEPT ![s] = "bound"] \/ serve' = serve
          /\ UNCHANGED <<state, engine, router, stopCh, waiter>>
    BY <1>3, Zenon DEF StartListen
  <2>2. /\ start'[s] = v /\ \A t \in Starts \ {s} : start'[t] = start[t] /\ serve'[t] = serve[t]
    BY <2>1, Zenon DEF IInv, TypeOK
  <2>3. TypeOK' /\ Routed'
    BY <1>1, <2>1, <2>2, Zenon DEF IInv, TypeOK, Routed
  <2>4. ASSUME ~raced PROVE Alone'
    <3>1. Alone /\ stopCh # s
      BY <2>1, <2>4, Zenon DEF IInv, Alone, Owned
    <3>2. OneCall' /\ Untouched'
      BY <1>1, <2>1, <2>2, <3>1, Zenon DEF Alone, OneCall, Untouched
    <3>3. Owned'
      BY <2>1, <2>2, <3>1 DEF Alone, Owned, IInv, TypeOK
    <3>4. Stopping'
      BY <1>1, <2>1, <2>2, <3>1 DEF Alone, Stopping, IInv, TypeOK
    <3> QED BY <3>2, <3>3, <3>4, Zenon DEF Alone
  <2> QED BY <1>1, <2>3, <2>4, Zenon DEF IInv, Alone
<1>4. CASE StartSpawnRouter(s)
  <2>1. /\ start[s] = "spawn" /\ start' = [start EXCEPT ![s] = "go"] /\ router' = engine
        /\ UNCHANGED <<state, engine, stopCh, serve, waiter>>
    BY <1>4, Zenon DEF StartSpawnRouter
  <2>2. start'[s] = "go" /\ \A t \in Starts \ {s} : start'[t] = start[t]
    BY <2>1, Zenon DEF IInv, TypeOK
  <2>3. TypeOK' /\ Routed'
    BY <1>1, <2>1, <2>2, Zenon DEF IInv, TypeOK, Routed
  <2>4. ASSUME ~raced PROVE Alone'
    <3>1. Alone /\ engine = s /\ stopCh # s
      BY <2>1, <2>4, Zenon DEF IInv, Alone, Owned
    <3>2. OneCall' /\ Untouched'
      BY <1>1, <2>1, <2>2, <3>1, Zenon DEF Alone, OneCall, Untouched
    <3>3. Owned'
      BY <2>1, <2>2, <3>1 DEF Alone, Owned, IInv, TypeOK
    <3>4. Stopping'
      BY <1>1, <2>1, <3>1, Zenon DEF Alone, Stopping
    <3> QED BY <3>2, <3>3, <3>4, Zenon DEF Alone
  <2> QED BY <1>1, <2>3, <2>4, Zenon DEF IInv, Alone
<1>5. CASE StartGo(s)
  <2>1. /\ start[s] = "go" /\ start' = [start EXCEPT ![s] = "started"] /\ stopCh' = s
        /\ serve' = [serve EXCEPT ![s] = "serving"] /\ waiter' = [waiter EXCEPT ![s] = "waiting"]
        /\ UNCHANGED <<state, engine, router>>
    BY <1>5, Zenon DEF StartGo
  <2>2. start'[s] = "started" /\ \A t \in Starts \ {s} : start'[t] = start[t] /\ serve'[t] = serve[t]
    BY <2>1, Zenon DEF IInv, TypeOK
  <2>3. TypeOK' /\ Routed'
    BY <1>1, <2>1, <2>2 DEF IInv, TypeOK, Routed
  <2>4. ASSUME ~raced PROVE Alone'
    <3>1. Alone /\ stopCh = None
      BY <2>1, <2>4, Zenon DEF IInv, Alone, Owned, TypeOK
    <3>2. OneCall' /\ Untouched'
      BY <1>1, <2>1, <2>2, <3>1, Zenon DEF Alone, OneCall, Untouched
    <3>3. Owned'
      BY <2>1, <2>2, <3>1 DEF Alone, Owned
    <3>4. Stopping'
      BY <1>1, <2>1, <3>1, Zenon DEF Alone, Stopping
    <3> QED BY <3>2, <3>3, <3>4, Zenon DEF Alone
  <2> QED BY <1>1, <2>3, <2>4, Zenon DEF IInv, Alone
<1> QED BY <1>2, <1>3, <1>4, <1>5, Zenon DEF StartStep

\* Stop looks at the state.
LEMMA StopLoadStep ==
  ASSUME IInv, NEW c \in Stops, StopLoad(c)
  PROVE  IInv'
<1> USE RemoteAssumption DEF StartActive, StopActive, Stored
<1>1. /\ stop[c].pc = "ready"
      /\ stop' = [stop EXCEPT ![c].pc = IF state = "running" THEN "store" ELSE "returned"]
      /\ UNCHANGED <<state, engine, router, stopCh, start, serve, waiter, sent>>
  BY Zenon DEF StopLoad
<1>2. /\ stop'[c].pc = IF state = "running" THEN "store" ELSE "returned"
      /\ stop'[c].ch = stop[c].ch /\ stop'[c].wg = stop[c].wg
      /\ \A d \in Stops \ {c} : stop'[d] = stop[d]
  BY <1>1, Zenon DEF IInv, TypeOK
<1>3. TypeOK' /\ Routed'
  <2>1. raced' \in BOOLEAN
    BY Zenon DEF StopLoad, IInv, TypeOK
  <2>2. TypeOK'
    BY <1>1, <2>1 DEF IInv, TypeOK
  <2> QED BY <1>1, <2>2, Zenon DEF IInv, Routed
<1>4. ASSUME ~raced' PROVE Alone'
  <2>1. Alone /\ (state = "running" => Running = {})
    BY <1>4, Zenon DEF StopLoad, IInv, Alone
  <2>2. OneCall'
    BY <1>1, <1>2, <2>1 DEF Alone, OneCall, Running
  <2>3. Untouched' /\ Owned'
    BY <1>1, <1>2, <2>1 DEF Alone, Untouched, Owned
  <2>4. stop[c].ch = None
    BY <1>1, <2>1, Zenon DEF Alone, Stopping
  <2>5. Stopping'
    BY <1>1, <1>2, <2>1, <2>4 DEF Alone, Stopping
  <2> QED BY <2>2, <2>3, <2>5, Zenon DEF Alone
<1> QED BY <1>3, <1>4, Zenon DEF IInv, Alone

\* The other steps of Stop, and its caller's Wait.
LEMMA StopStepStep ==
  ASSUME IInv, NEW c \in Stops, StopStep(c)
  PROVE  IInv'
<1> USE RemoteAssumption DEF StartActive, StopActive, Stored
<1>1. UNCHANGED <<engine, router, stopCh, start, serve, sent, raced>>
  BY Zenon DEF StopStep, StopStore, StopRead, StopSend, Wait
<1>2. Routed'
  BY <1>1, Zenon DEF IInv, Routed
<1>3. ASSUME Alone PROVE Owned'
  BY <1>1, <1>3, Zenon DEF Alone, Owned
<1>4. CASE StopStore(c)
  <2>1. /\ stop[c].pc = "store" /\ stop' = [stop EXCEPT ![c].pc = "read"]
        /\ state' = "stopped" /\ UNCHANGED waiter
    BY <1>4, Zenon DEF StopStore
  <2>2. /\ stop'[c].pc = "read" /\ stop'[c].ch = stop[c].ch /\ stop'[c].wg = stop[c].wg
        /\ \A d \in Stops \ {c} : stop'[d] = stop[d]
    BY <2>1, Zenon DEF IInv, TypeOK
  <2>3. TypeOK'
    BY <1>1, <2>1, Zenon DEF IInv, TypeOK
  <2>4. ASSUME ~raced PROVE Alone'
    <3>1. Alone /\ stop[c].ch = None
      BY <2>1, <2>4, Zenon DEF IInv, Alone, Stopping
    <3>2. OneCall' /\ Untouched'
      BY <1>1, <2>1, <2>2, <3>1 DEF Alone, OneCall, Untouched
    <3>3. Stopping'
      BY <1>1, <2>1, <2>2, <3>1 DEF Alone, Stopping
    <3> QED BY <1>3, <3>1, <3>2, <3>3, Zenon DEF Alone
  <2> QED BY <1>1, <1>2, <2>3, <2>4, Zenon DEF IInv, Alone
<1>5. CASE StopRead(c)
  <2>1. /\ stop[c].pc = "read" /\ stop' = [stop EXCEPT ![c].pc = "send", ![c].ch = stopCh]
        /\ UNCHANGED <<state, waiter>>
    BY <1>5, Zenon DEF StopRead
  <2>2. /\ stop'[c].pc = "send" /\ stop'[c].ch = stopCh /\ stop'[c].wg = stop[c].wg
        /\ \A d \in Stops \ {c} : stop'[d] = stop[d]
    BY <2>1, Zenon DEF IInv, TypeOK
  <2>3. TypeOK'
    BY <1>1, <2>1, ZenonT(60) DEF IInv, TypeOK
  <2>4. ASSUME ~raced PROVE Alone'
    <3>1. Alone
      BY <2>4, Zenon DEF IInv, Alone
    <3>2. OneCall' /\ Untouched'
      BY <1>1, <2>1, <2>2, <3>1, ZenonT(60) DEF Alone, OneCall, Untouched
    <3>3. Stopping'
      BY <1>1, <2>1, <2>2, <3>1, ZenonT(60) DEF Alone, Stopping
    <3> QED BY <1>3, <3>1, <3>2, <3>3, Zenon DEF Alone
  <2> QED BY <1>1, <1>2, <2>3, <2>4, Zenon DEF IInv, Alone
<1>6. CASE StopSend(c)
  <2>1. /\ stop[c].pc = "send" /\ stop[c].ch # None
        /\ waiter' = [waiter EXCEPT ![stop[c].ch] = "done"]
        /\ stop' = [stop EXCEPT ![c].pc = "returned", ![c].wg = stopCh] /\ UNCHANGED state
    BY <1>6, Zenon DEF StopSend
  <2>2. /\ stop'[c].pc = "returned" /\ stop'[c].ch = stop[c].ch /\ stop'[c].wg = stopCh
        /\ \A d \in Stops \ {c} : stop'[d] = stop[d]
    BY <2>1, Zenon DEF IInv, TypeOK
  <2>3. TypeOK'
    BY <1>1, <2>1, ZenonT(60) DEF IInv, TypeOK
  <2>4. ASSUME ~raced PROVE Alone'
    <3>1. Alone
      BY <2>4, Zenon DEF IInv, Alone
    <3>2. OneCall' /\ Untouched'
      BY <1>1, <2>1, <2>2, <3>1, Zenon DEF Alone, OneCall, Untouched
    <3>3. Stopping'
      BY <1>1, <2>1, <2>2, <3>1, ZenonT(60) DEF Alone, Stopping
    <3> QED BY <1>3, <3>1, <3>2, <3>3, Zenon DEF Alone
  <2> QED BY <1>1, <1>2, <2>3, <2>4, Zenon DEF IInv, Alone
<1>7. CASE Wait(c)
  <2>1. /\ stop[c].pc = "returned" /\ (stop[c].wg # None => serve[stop[c].wg] = "closed")
        /\ stop' = [stop EXCEPT ![c].pc = "waited"] /\ UNCHANGED <<state, waiter>>
    BY <1>7, Zenon DEF Wait
  <2>2. /\ stop'[c].pc = "waited" /\ stop'[c].ch = stop[c].ch /\ stop'[c].wg = stop[c].wg
        /\ \A d \in Stops \ {c} : stop'[d] = stop[d]
    BY <2>1 DEF IInv, TypeOK
  <2>3. TypeOK'
    BY <1>1, <2>1 DEF IInv, TypeOK
  <2>4. ASSUME ~raced PROVE Alone'
    <3>1. Alone
      BY <2>4, Zenon DEF IInv, Alone
    <3>2. OneCall' /\ Untouched'
      BY <1>1, <2>1, <2>2, <3>1 DEF Alone, OneCall, Untouched
    <3>3. Stopping'
      BY <1>1, <2>1, <2>2, <3>1 DEF Alone, Stopping
    <3> QED BY <1>3, <3>1, <3>2, <3>3, Zenon DEF Alone
  <2> QED BY <1>1, <1>2, <2>3, <2>4, Zenon DEF IInv, Alone
<1> QED BY <1>4, <1>5, <1>6, <1>7, Zenon DEF StopStep

\* Every step, and so every state.
LEMMA NextIInv == IInv /\ [Next]_vars => IInv'
<1> SUFFICES ASSUME IInv, [Next]_vars PROVE IInv'
  BY Zenon
<1> USE RemoteAssumption DEF StartActive, StopActive, Stored
<1>1. ASSUME NEW s \in Starts, ServeReturns(s) PROVE IInv'
  <2>1. /\ serve[s] = "serving" /\ serve' = [serve EXCEPT ![s] = "closed"]
        /\ UNCHANGED <<state, engine, router, stopCh, start, waiter, stop, sent, raced>>
    BY <1>1, Zenon DEF ServeReturns
  <2>2. serve'[s] = "closed" /\ \A t \in Starts \ {s} : serve'[t] = serve[t]
    BY <2>1, Zenon DEF IInv, TypeOK
  <2>3. TypeOK' /\ Routed'
    BY <2>1, Zenon DEF IInv, TypeOK, Routed
  <2>4. OneCall /\ Untouched => OneCall' /\ Untouched'
    BY <2>1, Zenon DEF OneCall, Untouched
  <2>5. Owned => Owned'
    BY <2>1, <2>2, Zenon DEF Owned
  <2>6. Stopping => Stopping'
    BY <2>1, <2>2 DEF Stopping, IInv, TypeOK
  <2> QED BY <2>1, <2>3, <2>4, <2>5, <2>6, Zenon DEF IInv
<1>2. ASSUME NEW m \in Sends, Send(m) PROVE IInv'
  <2>1. /\ sent' = [sent EXCEPT ![m] = router]
        /\ UNCHANGED <<state, engine, router, stopCh, start, serve, waiter, stop, raced>>
    BY <1>2, Zenon DEF Send
  <2>2. TypeOK' /\ Routed'
    BY <2>1 DEF IInv, TypeOK, Routed
  <2>3. OneCall /\ Untouched /\ Owned /\ Stopping => OneCall' /\ Untouched' /\ Owned' /\ Stopping'
    BY <2>1, Zenon DEF OneCall, Untouched, Owned, Stopping
  <2> QED BY <2>1, <2>2, <2>3, Zenon DEF IInv
<1>3. ASSUME UNCHANGED vars PROVE IInv'
  <2>1. UNCHANGED <<state, engine, router, stopCh, start, serve, waiter, stop, sent, raced>>
    BY <1>3, Zenon DEF vars
  <2>2. OneCall /\ Untouched /\ Owned /\ Stopping => OneCall' /\ Untouched' /\ Owned' /\ Stopping'
    BY <2>1, Zenon DEF OneCall, Untouched, Owned, Stopping
  <2> QED BY <2>1, <2>2, Zenon DEF IInv, TypeOK, Routed
<1> QED BY <1>1, <1>2, <1>3, StartLoadStep, StartStepStep, StopLoadStep, StopStepStep, Zenon DEF Next

\* The invariant holds throughout.
LEMMA Invariance == Spec => []IInv
BY InitIInv, NextIInv, PTL DEF Spec

\* The fields of the Remote stay well formed through all interleavings.
THEOREM RemoteTypes == Spec => []TypeOK
<1>1. IInv => TypeOK
  BY Zenon DEF IInv
<1> QED BY <1>1, Invariance, PTL

\* Unless two calls overlap, at most one Start ever succeeds, and the router
\* is spawned on its engine.
THEOREM OneStart == Spec => []StartedOnce
<1>1. IInv => StartedOnce
  BY Zenon DEF IInv, Owned, Stored, StartedOnce
<1> QED BY <1>1, Invariance, PTL

\* Unless two calls overlap, nothing listens after the Wait of a Stop that
\* found the remote running.
THEOREM ClosedAfterWait == Spec => []StopCloses
<1>1. IInv => StopCloses
  <2> SUFFICES ASSUME IInv, ~raced, NEW c \in Stops, stop[c].pc = "waited", stop[c].ch # None,
                      NEW s \in Starts, serve[s] \in {"bound", "serving"}
               PROVE  FALSE
    BY Zenon DEF StopCloses
  <2>1. /\ stop[c].wg = stopCh /\ serve[stopCh] = "closed" /\ stopCh # None
        /\ start[stopCh] = "started" /\ stopCh \in Starts
    BY DEF IInv, Stopping, Owned, TypeOK
  <2>2. s = stopCh
    BY <2>1, Zenon DEF IInv, Owned, Stored
  <2> QED BY <2>1, <2>2, Zenon
<1> QED BY <1>1, Invariance, PTL

\* From the return of Start on every message goes to a router, stopped or not.
THEOREM AlwaysRouted == Spec => SendsRouted
<1>1. IInv /\ [Next]_vars =>
        [\A m \in Sends, s \in Starts :
           (sent'[m] # sent[m] /\ start[s] = "started") =>
             sent'[m] # None /\ (~raced => sent'[m] = s)]_vars
  <2> SUFFICES ASSUME IInv, [Next]_vars, NEW m \in Sends, NEW s \in Starts,
                      sent'[m] # sent[m], start[s] = "started"
               PROVE  sent'[m] # None /\ (~raced => sent'[m] = s)
    BY Zenon
  <2>1. PICK n \in Sends : sent' = [sent EXCEPT ![n] = router]
    BY Zenon DEF Next, vars, StartLoad, StartStep, StartStore, StartListen, StartSpawnRouter, StartGo,
           ServeReturns, StopLoad, StopStep, StopStore, StopRead, StopSend, Wait, Send
  <2>2. sent'[m] = router
    BY <2>1
  <2> QED BY <2>2, Zenon DEF IInv, Routed, Owned, Stored
<1> QED BY <1>1, Invariance, PTL DEF Spec, SendsRouted
=============================================================================
