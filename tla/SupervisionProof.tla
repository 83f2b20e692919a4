-------------------------- MODULE SupervisionProof --------------------------
(***************************************************************************)
(* Proofs about Supervision, for any tree of actors, any number of calls   *)
(* from outside and any number of incarnations.                            *)
(***************************************************************************)
EXTENDS Supervision, TLAPS

Elems(s) == {s[i] : i \in 1 .. Len(s)}

\* The steps of cleanup, and those behind its copy of the table.
Cleaning == {"children", "poison", "lookup", "push", "wait", "stopInbox", "remove", "stopped"}
Sweep == Cleaning \ {"children"}

\* Of a process that has not been started there is nothing.
Unstarted == \A q \in Procs : At(q, "none") => p[q] = Unborn

\* Whoever is referred to has been started.
Ready(q) ==
    /\ p[q].up # NoProc => ~At(p[q].up, "none")
    /\ p[q].pc \in {"record", "lookup", "push", "wait"} =>
         p[q].cur # NoProc /\ Id(p[q].cur) \in Kids(Id(q))
    /\ At(q, "push") => p[q].cur \in Procs /\ ~At(p[q].cur, "none")
    /\ \/ p[q].pc \in Cleaning \cup {"drain", "detach", "cancel"}
       \/ p[q].pc \in {"receive", "record"} /\ p[q].ret = "drain"
       => p[q].pill \in Mail /\ IsPill(p[q].pill)

Calling(x) ==
    /\ client[x].at \in {"lookup", "push"} => client[x].to \in Actors /\ client[x].kind \in Kinds
    /\ client[x].at = "push" => client[x].found \in Procs /\ ~At(client[x].found, "none")

Known ==
    /\ \A a \in Actors : registry[a] # 0 => ~At(<<a, registry[a]>>, "none")
    /\ \A q \in Procs : Ready(q)
    /\ \A x \in Clients : Calling(x)

\* How far a cleanup is.
Progress(q) ==
    /\ p[q].pc \in Cleaning => p[q].cleanups = 1 /\ ~p[q].stopped
    /\ p[q].pc \notin Cleaning => (p[q].stopped <=> p[q].cleanups = 1)
    /\ p[q].pc \in {"remove", "stopped", "cancel"} => ~p[q].open
    /\ At(q, "cancel") => p[q].stopped
    /\ p[q].stopped /\ ~p[q].open =>
         p[q].pc \in {"cancel", "loop", "inbox"} \/ (At(q, "next") /\ p[q].batch = <<>>)
    /\ p[q].pc \in {"stopInbox", "remove", "stopped"} => p[q].snap = {}
    /\ p[q].pc \in {"lookup", "push", "wait"} => Id(p[q].cur) \notin p[q].snap

\* A process holds its id until it removes it.
Registered(q) ==
    ~At(q, "none") /\ (p[q].cleanups = 0 \/ p[q].pc \in Cleaning \ {"stopped"}) => registry[Id(q)] = q[2]

Recorded(q) ==
    (Live(q) /\ p[q].up # NoProc) =>
        \/ Id(q) \in p[p[q].up].children
        \/ At(p[q].up, "record") /\ p[p[q].up].cur = q

\* What ChildrenFirst says of a child; it never becomes false.
Over(q, r) == p[r].stopped \/ (p[r].cleanups = 1 /\ p[r].pill.by # q)

\* The messages a process has, and has had a pill from.
Held(r) == Elems(p[r].inbox) \cup Elems(p[r].batch) \cup Elems(p[r].rest) \cup {p[r].pill}

\* Before it sends pills, none of a process is under way.
Unasked(q) ==
    p[q].cleanups = 0 \/ At(q, "children") =>
        (\A m \in done : m.by # q) /\ \A r \in Procs : \A m \in Held(r) : m.by # q

\* A child whose turn has not come, or is now, or who is over.
Turn(q, r) ==
    p[r].up = q =>
        \/ Id(r) \in p[q].snap
        \/ p[q].pc \in {"lookup", "push", "wait"} /\ Id(r) = Id(p[q].cur)
        \/ Over(q, r)

\* The other incarnations of a child's id are over.
Last(q, r) == \A s \in Procs \ {r} : p[s].up = q /\ Id(s) = Id(r) => Over(q, s)

\* A process that has a pill of q.
Asked(q, r) ==
    \A m \in Held(r) : m.by = q =>
        /\ m.kid = Id(r) /\ Id(r) \notin p[q].snap /\ Last(q, r)
        /\ p[q].pc \in {"lookup", "push"} => Id(r) # Id(p[q].cur)

Answered(q) == \A m \in done : m.by = q => \A r \in Procs : p[r].up = q /\ Id(r) = m.kid => Over(q, r)

Sweeping(q) ==
    p[q].pc \in Sweep =>
        /\ \A r \in Procs : Turn(q, r) /\ Asked(q, r)
        /\ Answered(q)
        /\ At(q, "push") => Last(q, p[q].cur)

Finished(q) == p[q].stopped /\ ~p[q].open => \A r \in Procs : p[r].up = q => Over(q, r)

Good(q) == Progress(q) /\ Registered(q) /\ Recorded(q) /\ Unasked(q) /\ Sweeping(q) /\ Finished(q)

IInv == TypeOK /\ Unstarted /\ Known /\ (CleanedOnce => \A q \in Procs : Good(q))

\* What a step may do to a process that does not take it: its inbox and its
\* table of children may change.
Still(s) ==
    /\ p'[s].pc = p[s].pc /\ p'[s].open = p[s].open /\ p'[s].batch = p[s].batch
    /\ p'[s].ret = p[s].ret /\ p'[s].up = p[s].up /\ p'[s].cur = p[s].cur
    /\ p'[s].snap = p[s].snap /\ p'[s].pill = p[s].pill
    /\ p'[s].cleanups = p[s].cleanups /\ p'[s].stopped = p[s].stopped

\* What a step may do to those that s has spawned and to the pills of s.
Evolves(s) ==
    /\ \A r \in Procs : p'[r].up = s => p[r].up = s
    /\ \A r \in Procs : Over(s, r) => Over(s, r)'
    /\ \A r \in Procs : \A m \in Held(r)' : m.by = s => m \in Held(r)
    /\ \A m \in done' : m.by = s =>
         \/ m \in done
         \/ /\ \E r \in Procs : m \in Held(r)
            /\ p[s].pc \in Sweep => \A r \in Procs : p[r].up = s /\ Id(r) = m.kid => Over(s, r)'

\* No child leaves a table.
Tables ==
    \A u \in Procs :
        /\ p[u].children \subseteq p'[u].children
        /\ At(u, "record") /\ p[u].cur \in Procs =>
             \/ p'[u].pc = "record" /\ p'[u].cur = p[u].cur
             \/ Id(p[u].cur) \in p'[u].children

-----------------------------------------------------------------------------
\* The elements of a sequence.
LEMMA ElemsEmpty == Elems(<<>>) = {}
BY DEF Elems

LEMMA ElemsAppend ==
  ASSUME NEW s \in Mails, NEW m \in Mail
  PROVE  Append(s, m) \in Mails /\ Elems(Append(s, m)) = Elems(s) \cup {m}
<1>1. /\ Append(s, m) \in Mails /\ Len(Append(s, m)) = Len(s) + 1 /\ Len(s) \in Nat
      /\ Append(s, m)[Len(s) + 1] = m /\ \A i \in 1..Len(s) : Append(s, m)[i] = s[i]
  BY DEF Mails
<1>2. 1..(Len(s) + 1) = 1..Len(s) \cup {Len(s) + 1}
  BY <1>1
<1> QED BY <1>1, <1>2, Zenon DEF Elems

LEMMA ElemsTail ==
  ASSUME NEW s \in Mails, s # <<>>
  PROVE  /\ Head(s) \in Mail /\ Tail(s) \in Mails
         /\ Head(s) \in Elems(s) /\ Elems(Tail(s)) \subseteq Elems(s)
<1>1. /\ Len(s) \in Nat \ {0} /\ Head(s) = s[1] /\ Tail(s) \in Mails /\ s[1] \in Mail
      /\ Len(Tail(s)) = Len(s) - 1 /\ \A i \in 1..(Len(s) - 1) : Tail(s)[i] = s[i + 1]
  BY DEF Mails
<1>2. 1 \in 1..Len(s) /\ \A i \in 1..(Len(s) - 1) : i + 1 \in 1..Len(s)
  BY <1>1
<1> QED BY <1>1, <1>2 DEF Elems

\* A process that does not take the step.
LEMMA Others ==
  ASSUME NEW s \in Procs, Good(s), Still(s), Evolves(s), Registered(s)', Recorded(s)'
  PROVE  Good(s)'
<1>1. Progress(s)'
  BY Zenon DEF Good, Progress, Still, At
<1>2. Unasked(s)'
  <2> SUFFICES ASSUME p[s].cleanups = 0 \/ At(s, "children")
               PROVE  (\A m \in done' : m.by # s) /\ \A r \in Procs : \A m \in Held(r)' : m.by # s
    BY Zenon DEF Unasked, Still, At
  <2>1. (\A m \in done : m.by # s) /\ \A r \in Procs : \A m \in Held(r) : m.by # s
    BY Zenon DEF Good, Unasked
  <2> QED BY <2>1, Zenon DEF Evolves
<1>3. Sweeping(s)'
  <2> SUFFICES ASSUME p[s].pc \in Sweep
               PROVE  /\ \A r \in Procs : Turn(s, r)' /\ Asked(s, r)'
                      /\ Answered(s)'
                      /\ At(s, "push")' => Last(s, p[s].cur)'
    BY Zenon DEF Sweeping, Still
  <2>1. /\ \A r \in Procs : Turn(s, r) /\ Asked(s, r)
        /\ Answered(s)
        /\ At(s, "push") => Last(s, p[s].cur)
    BY Zenon DEF Good, Sweeping
  <2>2. \A r : Last(s, r) => Last(s, r)'
    BY Zenon DEF Last, Evolves
  <2>3. ASSUME NEW r \in Procs PROVE Turn(s, r)'
    BY <2>1, Zenon DEF Turn, Evolves, Still
  <2>4. ASSUME NEW r \in Procs PROVE Asked(s, r)'
    BY <2>1, <2>2, Zenon DEF Asked, Evolves, Still
  <2>5. Answered(s)'
    BY <2>1, Zenon DEF Answered, Evolves
  <2>6. At(s, "push")' => Last(s, p[s].cur)'
    BY <2>1, <2>2, Zenon DEF At, Still
  <2> QED BY <2>3, <2>4, <2>5, <2>6, Zenon
<1>4. Finished(s)'
  BY Zenon DEF Good, Finished, Still, Evolves
<1> QED BY <1>1, <1>2, <1>3, <1>4, Zenon DEF Good
\* A process is its id and its number.
LEMMA SameProc ==
  ASSUME NEW q \in Procs, NEW r \in Procs, Id(q) = Id(r), q[2] = r[2]
  PROVE  q = r
BY DEF Procs, Id

LEMMA Recording ==
  ASSUME TypeOK, NEW s \in Procs, Tables, Recorded(s), p'[s].up = p[s].up, Live(s)' => Live(s)
  PROVE  Recorded(s)'
<1> SUFFICES ASSUME Live(s), p[s].up # NoProc
             PROVE  \/ Id(s) \in p'[p[s].up].children
                    \/ p'[p[s].up].pc = "record" /\ p'[p[s].up].cur = s
  BY Zenon DEF Recorded, At
<1>1. p[s].up \in Procs
  BY Zenon DEF TypeOK, ProcessType, Refs
<1> QED BY <1>1, Zenon DEF Recorded, Tables, At

\* Nobody starts or is forgotten: what was known is known.
LEMMA KnownStays ==
  ASSUME TypeOK, Unstarted, Known, p' \in [Procs -> ProcessType],
         \A r \in Procs : p'[r].pc = "none" <=> p[r].pc = "none",
         \A r \in Procs : p[r].pc = "none" => p'[r] = p[r]
  PROVE  /\ Unstarted'
         /\ \A r \in Procs : Ready(r) /\ Still(r) => Ready(r)'
         /\ \A x \in Clients : Calling(x) /\ client'[x] = client[x] => Calling(x)'
         /\ (\A a \in Actors : registry'[a] \in {registry[a], 0}) =>
              \A a \in Actors : registry'[a] # 0 => p'[<<a, registry'[a]>>].pc # "none"
<1>1. Unstarted'
  BY Zenon DEF Unstarted, At
<1>2. ASSUME NEW r \in Procs, Ready(r), Still(r) PROVE Ready(r)'
  <2>1. p[r].up \in Procs \cup {NoProc}
    BY Zenon DEF TypeOK, ProcessType, Refs
  <2> QED BY <1>2, <2>1, Zenon DEF Ready, Still, At
<1>3. ASSUME NEW x \in Clients, Calling(x), client'[x] = client[x] PROVE Calling(x)'
  BY <1>3, Zenon DEF Calling, At
<1>4. ASSUME \A a \in Actors : registry'[a] \in {registry[a], 0}, NEW a \in Actors, registry'[a] # 0
      PROVE  p'[<<a, registry'[a]>>].pc # "none"
  <2>1. registry'[a] = registry[a] /\ <<a, registry[a]>> \in Procs
    BY <1>4 DEF TypeOK, Procs
  <2> QED BY <1>4, <2>1, Zenon DEF Known, At
<1> QED BY <1>1, <1>2, <1>3, <1>4, Zenon
\* A step of one process that leaves the others alone and is no Detach.
LEMMA Solo ==
  ASSUME IInv, NEW q \in Procs, NEW f \in ProcessType, p' = [p EXCEPT ![q] = f],
         p[q].pc # "none", f.pc # "none", f.pc # "children", client' = client,
         \/ registry' = registry
         \/ p[q].pc = "remove" /\ f.pc = "stopped" /\ registry' = [registry EXCEPT ![Id(q)] = 0],
         f.up = p[q].up, f.cleanups = p[q].cleanups,
         f.todo \cup f.children \cup f.snap \subseteq Kids(Id(q)),
         p[q].children \subseteq f.children,
         p[q].pc = "record" => Id(p[q].cur) \in f.children,
         \A m \in Elems(f.inbox) \cup Elems(f.batch) \cup Elems(f.rest) \cup {f.pill} : m \in Held(q) \/ m = NoPill,
         \A m \in done' : m \in Mail /\ IsPill(m),
         \A m \in done' : \/ m \in done
                          \/ m.by = q /\ p[q].pc = "poison"
                          \/ m = p[q].pill /\ p[q].pc = "cancel",
         p[q].stopped => f.stopped,
         p[q].pc \in Cleaning => f.pill = p[q].pill,
         f.pc \in Cleaning => p[q].pc \in Cleaning \ {"stopped"},
         Ready(q)',
         CleanedOnce /\ (\A s \in Procs : Good(s)) =>
            /\ Progress(q)' /\ Sweeping(q)'
            /\ f.stopped /\ ~f.open => (p[q].stopped /\ ~p[q].open) \/ p[q].pc = "stopped"
  PROVE  IInv'
<1>1. p \in [Procs -> ProcessType] /\ p' \in [Procs -> ProcessType] /\ p[q] \in ProcessType
  BY Zenon DEF IInv, TypeOK
<1>2. p'[q] = f /\ \A r \in Procs \ {q} : p'[r] = p[r]
  BY <1>1, Zenon
<1>3. TypeOK'
  <2>1. registry' \in [Actors -> 0..MaxInc]
    BY SupervisionAssumption DEF IInv, TypeOK
  <2>2. \A r \in Procs : p'[r].todo \cup p'[r].children \cup p'[r].snap \subseteq Kids(Id(r))
    BY <1>2, Zenon DEF IInv, TypeOK
  <2>3. client' \in [Clients -> CallType] /\ done' \subseteq Mail /\ \A m \in done' : IsPill(m)
    BY Zenon DEF IInv, TypeOK
  <2> QED BY <1>1, <2>1, <2>2, <2>3, Zenon DEF TypeOK
<1>4. \A r \in Procs \ {q} : Still(r)
  BY <1>2, Zenon DEF Still
<1>5. Unstarted' /\ Known'
  <2>1. /\ \A r \in Procs : p'[r].pc = "none" <=> p[r].pc = "none"
        /\ \A r \in Procs : p[r].pc = "none" => p'[r] = p[r]
    BY <1>2, Zenon
  <2>2. \A a \in Actors : registry'[a] \in {registry[a], 0}
    BY Zenon DEF IInv, TypeOK
  <2>3. /\ Unstarted'
        /\ \A r \in Procs : Ready(r) /\ Still(r) => Ready(r)'
        /\ \A x \in Clients : Calling(x) /\ client'[x] = client[x] => Calling(x)'
        /\ \A a \in Actors : registry'[a] # 0 => p'[<<a, registry'[a]>>].pc # "none"
    BY <1>1, <2>1, <2>2, KnownStays, Zenon DEF IInv
  <2> QED BY <1>4, <2>3, Zenon DEF IInv, Known, At
<1>6. CleanedOnce' => CleanedOnce
  BY <1>2, Zenon DEF CleanedOnce
<1>7. ASSUME CleanedOnce' PROVE \A s \in Procs : Good(s)'
  <2>1. CleanedOnce /\ \A s \in Procs : Good(s)
    BY <1>6, <1>7, Zenon DEF IInv
  <2>2. /\ Progress(q)' /\ Sweeping(q)'
        /\ f.stopped /\ ~f.open => (p[q].stopped /\ ~p[q].open) \/ p[q].pc = "stopped"
    BY <2>1, Zenon
  <2>3. \A s \in Procs : Over(s, q) => Over(s, q)'
    BY <1>2, <2>1, Zenon DEF Over, Good, Progress
  <2>4. \A s, r \in Procs : Over(s, r) => Over(s, r)'
    BY <1>2, <2>3, ZenonT(40) DEF Over
  <2>5. ASSUME NEW s \in Procs, NEW r \in Procs, NEW m \in Held(r)', m.by = s PROVE m \in Held(r)
    <3>1. CASE r = q
      <4>1. m \in Elems(f.inbox) \cup Elems(f.batch) \cup Elems(f.rest) \cup {f.pill}
        BY <1>2, <2>5, <3>1, Zenon DEF Held
      <4>2. m # NoPill
        BY <2>5, SupervisionAssumption DEF NoPill, Msg, NoProc, Procs
      <4> QED BY <3>1, <4>1, <4>2, Zenon
    <3>2. CASE r # q
      BY <1>2, <2>5, <3>2, Zenon DEF Held
    <3> QED BY <3>1, <3>2, Zenon
  <2>6. ASSUME NEW s \in Procs \ {q} PROVE Evolves(s)
    <3>1. \A r \in Procs : p'[r].up = s => p[r].up = s
      BY <1>2, ZenonT(40)
    <3>2. ASSUME NEW m \in done', m.by = s, m \notin done
          PROVE  /\ \E r \in Procs : m \in Held(r)
                 /\ p[s].pc \in Sweep => \A r \in Procs : p[r].up = s /\ Id(r) = m.kid => Over(s, r)'
      <4>1. m = p[q].pill /\ f.stopped
        BY <2>1, <3>2, Zenon DEF Good, Progress, At
      <4>2. m \in Held(q)
        BY <4>1, Zenon DEF Held
      <4>3. ASSUME p[s].pc \in Sweep, NEW r \in Procs, p[r].up = s, Id(r) = m.kid PROVE Over(s, r)'
        <5>1. Asked(s, q)
          BY <2>1, <4>3, Zenon DEF Good, Sweeping
        <5>2. m.kid = Id(q) /\ Last(s, q)
          BY <3>2, <4>2, <5>1, Zenon DEF Asked
        <5>3. CASE r = q
          BY <1>2, <4>1, <5>3, Zenon DEF Over
        <5>4. CASE r # q
          BY <2>4, <4>3, <5>2, <5>4, Zenon DEF Last
        <5> QED BY <5>3, <5>4, Zenon
      <4> QED BY <4>2, <4>3, Zenon
    <3> QED BY <2>4, <2>5, <3>1, <3>2, Zenon DEF Evolves
  <2>7. Tables
    BY <1>2, Zenon DEF Tables, At
  <2>8. ASSUME NEW s \in Procs PROVE Recorded(s)'
    <3>1. p'[s].up = p[s].up /\ (Live(s)' => Live(s))
      BY <1>2 DEF Live
    <3> QED BY <2>1, <2>7, <3>1, Recording, Zenon DEF IInv, Good
  <2>9. ASSUME NEW s \in Procs \ {q} PROVE Registered(s)'
    <3>1. CASE registry' = registry
      BY <1>2, <2>1, <3>1, Zenon DEF Good, Registered, At
    <3>2. CASE p[q].pc = "remove" /\ registry' = [registry EXCEPT ![Id(q)] = 0]
      <4>1. registry[Id(q)] = q[2]
        BY <2>1, <3>2, Zenon DEF Good, Registered, At, Cleaning
      <4>2. CASE Id(s) = Id(q)
        <5>1. s[2] # q[2]
          BY <4>2, SameProc, Zenon
        <5> QED BY <1>2, <2>1, <4>1, <4>2, <5>1, ZenonT(40) DEF Good, Registered, At
      <4>3. CASE Id(s) # Id(q)
        <5>1. registry'[Id(s)] = registry[Id(s)]
          BY <3>2, <4>3, Zenon DEF IInv, TypeOK, Procs, Id
        <5> QED BY <1>2, <2>1, <5>1, Zenon DEF Good, Registered, At
      <4> QED BY <4>2, <4>3, Zenon
    <3> QED BY <3>1, <3>2, Zenon
  <2>10. Registered(q)'
    <3>1. CASE registry' = registry
      BY <1>2, <2>1, <3>1 DEF Good, Registered, At
    <3>2. CASE p[q].pc = "remove" /\ f.pc = "stopped"
      BY <1>2, <2>1, <3>2 DEF Good, Registered, Progress, At, Cleaning
    <3> QED BY <3>1, <3>2, Zenon
  <2>11. Unasked(q)'
    <3>1. p'[q].cleanups = 0 \/ p'[q].pc = "children" => p[q].cleanups = 0 /\ p[q].pc # "poison"
      BY <1>2, <2>1 DEF Good, Progress, Cleaning
    <3>2. p[q].cleanups = 0 => (\A m \in done : m.by # q) /\ \A r \in Procs : \A m \in Held(r) : m.by # q
      BY <2>1, Zenon DEF Good, Unasked
    <3>3. p[q].pill \in Held(q)
      BY Zenon DEF Held
    <3> QED BY <2>5, <3>1, <3>2, <3>3, Zenon DEF Unasked, At
  <2>12. Finished(q)'
    <3>1. ASSUME p[q].pc = "stopped", NEW r \in Procs, p[r].up = q PROVE Over(q, r)
      BY <2>1, <3>1, Zenon DEF Good, Progress, Sweeping, Sweep, Cleaning, Turn
    <3> QED BY <1>2, <2>1, <2>2, <2>4, <3>1 DEF Good, Finished
  <2>13. ASSUME NEW s \in Procs \ {q} PROVE Good(s)'
    BY <1>4, <2>1, <2>6, <2>8, <2>9, Others, Zenon
  <2> QED BY <2>2, <2>8, <2>10, <2>11, <2>12, <2>13, Zenon DEF Good
<1> QED BY <1>3, <1>5, <1>7, Zenon DEF IInv
\* A step of Start, of Receive or of Invoke.
LEMMA Working ==
  ASSUME IInv, NEW q \in Procs, NEW f \in ProcessType, p' = [p EXCEPT ![q] = f],
         UNCHANGED <<registry, client, done>>,
         p[q].pc \in {"receive", "record", "inbox", "loop", "next", "drain"},
         f.pc \in {"receive", "record", "inbox", "loop", "next", "drain", "detach"},
         f.up = p[q].up, f.cleanups = p[q].cleanups, f.stopped = p[q].stopped, f.snap = p[q].snap,
         f.todo \cup f.children \subseteq Kids(Id(q)),
         p[q].children \subseteq f.children,
         p[q].pc = "record" => Id(p[q].cur) \in f.children,
         \A m \in Elems(f.inbox) \cup Elems(f.batch) \cup Elems(f.rest) \cup {f.pill} : m \in Held(q),
         f.pc = "record" => f.cur # NoProc /\ Id(f.cur) \in Kids(Id(q)),
         \/ f.pc \in {"drain", "detach"}
         \/ f.pc \in {"receive", "record"} /\ f.ret = "drain"
         => f.pill \in Mail /\ IsPill(f.pill),
         p[q].open => f.open,
         Progress(q) /\ p[q].stopped /\ ~f.open =>
            f.pc \in {"loop", "inbox"} \/ (f.pc = "next" /\ f.batch = <<>>)
  PROVE  IInv'
<1>1. p \in [Procs -> ProcessType] /\ p' \in [Procs -> ProcessType] /\ p[q] \in ProcessType
  BY Zenon DEF IInv, TypeOK
<1>2. p'[q] = f /\ \A r \in Procs \ {q} : p'[r] = p[r]
  BY <1>1, Zenon
<1>3. /\ p[q].pc # "none" /\ f.pc # "none" /\ f.pc # "children" /\ f.pc \notin Cleaning
      /\ p[q].pc \notin Cleaning /\ f.pc # "push" /\ f.pc # "cancel"
      /\ f.pc \notin {"lookup", "push", "wait", "stopInbox", "remove", "stopped", "cancel"}
  BY Zenon DEF Cleaning
<1>4. f.todo \cup f.children \cup f.snap \subseteq Kids(Id(q))
  BY Zenon DEF IInv, TypeOK
<1>5. \A m \in done' : m \in Mail /\ IsPill(m)
  BY Zenon DEF IInv, TypeOK
<1>6. Ready(q)'
  <2>1. p[q].up # NoProc => p'[p[q].up].pc # "none"
    <3>1. p[q].up # NoProc => p[p[q].up].pc # "none"
      BY Zenon DEF IInv, Known, Ready, At
    <3> QED BY <1>2, <1>3, <3>1, Zenon DEF IInv, TypeOK, ProcessType, Refs
  <2> QED BY <1>2, <1>3, <2>1, Zenon DEF Ready, At
<1>7. ASSUME CleanedOnce, \A s \in Procs : Good(s)
      PROVE  /\ Progress(q)' /\ Sweeping(q)'
             /\ f.stopped /\ ~f.open => (p[q].stopped /\ ~p[q].open) \/ p[q].pc = "stopped"
  <2>1. Progress(q)
    BY <1>7, Zenon DEF Good
  <2>2. f.stopped <=> f.cleanups = 1
    BY <1>3, <2>1, Zenon DEF Progress
  <2>3. Progress(q)'
    BY <1>2, <1>3, <2>1, <2>2, Zenon DEF Progress, At
  <2>4. Sweeping(q)'
    BY <1>2, <1>3, Zenon DEF Sweeping, Sweep
  <2> QED BY <2>3, <2>4, Zenon
<1> QED BY <1>3, <1>4, <1>5, <1>6, <1>7, Solo, Zenon
\* The state of a process.
LEMMA Typed ==
  ASSUME IInv, NEW q \in Procs
  PROVE  /\ p[q] \in ProcessType /\ p \in [Procs -> ProcessType]
         /\ p[q].inbox \in Mails /\ p[q].batch \in Mails /\ p[q].rest \in Mails
         /\ p[q].todo \subseteq Kids(Id(q)) /\ p[q].children \subseteq Kids(Id(q))
         /\ p[q].snap \subseteq Kids(Id(q)) /\ Kids(Id(q)) \subseteq Actors
         /\ Held(q) = Elems(p[q].inbox) \cup Elems(p[q].batch) \cup Elems(p[q].rest) \cup {p[q].pill}
         /\ Ready(q)
BY Zenon DEF IInv, TypeOK, ProcessType, Kids, Held, Known

LEMMA RecordChildStep ==
  ASSUME IInv, NEW q \in Procs, RecordChild(q)
  PROVE  IInv'
<1> DEFINE c == Id(p[q].cur)
           f == [p[q] EXCEPT !.pc = "receive", !.cur = NoProc, !.todo = @ \ {c}, !.children = @ \cup {c}]
<1>1. p[q].pc = "record" /\ UNCHANGED <<registry, client, done>> /\ p' = [p EXCEPT ![q] = f]
  BY Zenon DEF RecordChild, At
<1>2. p[q].cur # NoProc /\ c \in Kids(Id(q))
  BY <1>1, Typed, Zenon DEF Ready, At
<1>3. /\ p[q] \in ProcessType /\ "receive" \in PCs /\ NoProc \in Names
      /\ p[q].todo \ {c} \in Ids /\ p[q].children \cup {c} \in Ids
  BY <1>2, Typed, Zenon DEF PCs, Names, Ids
<1>4. f \in ProcessType
  BY <1>3, Zenon DEF ProcessType
<1>5. /\ f.pc = "receive" /\ f.todo = p[q].todo \ {c} /\ f.children = p[q].children \cup {c}
      /\ f.up = p[q].up /\ f.cleanups = p[q].cleanups /\ f.stopped = p[q].stopped
      /\ f.snap = p[q].snap /\ f.inbox = p[q].inbox /\ f.batch = p[q].batch /\ f.rest = p[q].rest
      /\ f.pill = p[q].pill /\ f.ret = p[q].ret /\ f.open = p[q].open
  BY <1>3, Zenon DEF ProcessType
<1> HIDE DEF f
<1>6. f.todo \cup f.children \subseteq Kids(Id(q))
  BY <1>2, <1>5, Typed, Zenon
<1>7. Progress(q) /\ p[q].stopped => f.open
  BY <1>1, <1>5, Zenon DEF Progress, At
<1>8. f.ret = "drain" => f.pill \in Mail /\ IsPill(f.pill)
  BY <1>1, <1>5, Typed, Zenon DEF Ready
<1>9. \A m \in Elems(f.inbox) \cup Elems(f.batch) \cup Elems(f.rest) \cup {f.pill} : m \in Held(q)
  BY <1>5, Typed, Zenon
<1> QED BY <1>1, <1>4, <1>5, <1>6, <1>7, <1>8, <1>9, Working, Zenon
LEMMA ReceiveReturnsStep ==
  ASSUME IInv, NEW q \in Procs, ReceiveReturns(q)
  PROVE  IInv'
<1> DEFINE f == [p[q] EXCEPT !.pc = p[q].ret]
<1>1. p[q].pc = "receive" /\ UNCHANGED <<registry, client, done>> /\ p' = [p EXCEPT ![q] = f]
  BY Zenon DEF ReceiveReturns, Goto, At
<1>2. p[q] \in ProcessType /\ p[q].ret \in PCs /\ p[q].ret \in {"inbox", "next", "drain"}
  BY Typed, Zenon DEF ProcessType, Returns, PCs
<1>3. f \in ProcessType
  BY <1>2, Zenon DEF ProcessType
<1>4. /\ f.pc = p[q].ret /\ f.todo = p[q].todo /\ f.children = p[q].children
      /\ f.up = p[q].up /\ f.cleanups = p[q].cleanups /\ f.stopped = p[q].stopped
      /\ f.snap = p[q].snap /\ f.inbox = p[q].inbox /\ f.batch = p[q].batch /\ f.rest = p[q].rest
      /\ f.pill = p[q].pill /\ f.open = p[q].open
  BY <1>2, Zenon DEF ProcessType
<1> HIDE DEF f
<1>5. f.todo \cup f.children \subseteq Kids(Id(q))
  BY <1>4, Typed, Zenon
<1>6. Progress(q) /\ p[q].stopped => f.open
  BY <1>1, <1>4, Zenon DEF Progress, At
<1>7. f.pc = "drain" => f.pill \in Mail /\ IsPill(f.pill)
  BY <1>1, <1>4, Typed, Zenon DEF Ready
<1>8. \A m \in Elems(f.inbox) \cup Elems(f.batch) \cup Elems(f.rest) \cup {f.pill} : m \in Held(q)
  BY <1>4, Typed, Zenon
<1>9. f.pc \in {"inbox", "next", "drain"}
  BY <1>2, <1>4, Zenon
<1> QED BY <1>1, <1>3, <1>4, <1>5, <1>6, <1>7, <1>8, <1>9, Working, Zenon

LEMMA StartInboxStep ==
  ASSUME IInv, NEW q \in Procs, StartInbox(q)
  PROVE  IInv'
<1> DEFINE f == [p[q] EXCEPT !.pc = "loop", !.open = TRUE, !.begun = TRUE]
<1>1. p[q].pc = "inbox" /\ UNCHANGED <<registry, client, done>> /\ p' = [p EXCEPT ![q] = f]
  BY Zenon DEF StartInbox, At
<1>2. p[q] \in ProcessType /\ "loop" \in PCs
  BY Typed, Zenon DEF PCs
<1>3. f \in ProcessType
  BY <1>2, Zenon DEF ProcessType
<1>4. /\ f.pc = "loop" /\ f.todo = p[q].todo /\ f.children = p[q].children
      /\ f.up = p[q].up /\ f.cleanups = p[q].cleanups /\ f.stopped = p[q].stopped
      /\ f.snap = p[q].snap /\ f.inbox = p[q].inbox /\ f.batch = p[q].batch /\ f.rest = p[q].rest
      /\ f.pill = p[q].pill /\ f.open
  BY <1>2, Zenon DEF ProcessType
<1> HIDE DEF f
<1>5. f.todo \cup f.children \subseteq Kids(Id(q))
  BY <1>4, Typed, Zenon
<1>6. \A m \in Elems(f.inbox) \cup Elems(f.batch) \cup Elems(f.rest) \cup {f.pill} : m \in Held(q)
  BY <1>4, Typed, Zenon
<1> QED BY <1>1, <1>3, <1>4, <1>5, <1>6, Working, Zenon

LEMMA RunStep ==
  ASSUME IInv, NEW q \in Procs, Run(q)
  PROVE  IInv'
<1> DEFINE f == [p[q] EXCEPT !.pc = "next", !.batch = p[q].inbox, !.inbox = <<>>]
<1>1. /\ p[q].pc = "loop" /\ p[q].open /\ UNCHANGED <<registry, client, done>>
      /\ p' = [p EXCEPT ![q] = f]
  BY Zenon DEF Run, At
<1>2. p[q] \in ProcessType /\ "next" \in PCs /\ p[q].inbox \in Mails /\ <<>> \in Mails
  BY Typed DEF PCs, Mails
<1>3. f \in ProcessType
  BY <1>2, Zenon DEF ProcessType
<1>4. /\ f.pc = "next" /\ f.todo = p[q].todo /\ f.children = p[q].children
      /\ f.up = p[q].up /\ f.cleanups = p[q].cleanups /\ f.stopped = p[q].stopped
      /\ f.snap = p[q].snap /\ f.inbox = <<>> /\ f.batch = p[q].inbox /\ f.rest = p[q].rest
      /\ f.pill = p[q].pill /\ f.open = p[q].open
  BY <1>2, Zenon DEF ProcessType
<1> HIDE DEF f
<1>5. f.todo \cup f.children \subseteq Kids(Id(q))
  BY <1>4, Typed, Zenon
<1>6. \A m \in Elems(f.inbox) \cup Elems(f.batch) \cup Elems(f.rest) \cup {f.pill} : m \in Held(q)
  BY <1>4, ElemsEmpty, Typed, Zenon
<1> QED BY <1>1, <1>3, <1>4, <1>5, <1>6, Working, Zenon

LEMMA InvokeReturnsStep ==
  ASSUME IInv, NEW q \in Procs, InvokeReturns(q)
  PROVE  IInv'
<1> DEFINE pc == IF p[q].nested THEN "inbox" ELSE "loop"
           f == [p[q] EXCEPT !.pc = pc, !.nested = FALSE]
<1>1. p[q].pc = "next" /\ UNCHANGED <<registry, client, done>> /\ p' = [p EXCEPT ![q] = f]
  BY Zenon DEF InvokeReturns, At
<1>2. p[q] \in ProcessType /\ pc \in PCs /\ pc \in {"inbox", "loop"}
  BY Typed, Zenon DEF PCs
<1> HIDE DEF pc
<1>3. f \in ProcessType
  BY <1>2, Zenon DEF ProcessType
<1>4. /\ f.pc = pc /\ f.todo = p[q].todo /\ f.children = p[q].children
      /\ f.up = p[q].up /\ f.cleanups = p[q].cleanups /\ f.stopped = p[q].stopped
      /\ f.snap = p[q].snap /\ f.inbox = p[q].inbox /\ f.batch = p[q].batch /\ f.rest = p[q].rest
      /\ f.pill = p[q].pill /\ f.open = p[q].open
  BY <1>2, Zenon DEF ProcessType
<1> HIDE DEF f
<1>5. f.todo \cup f.children \subseteq Kids(Id(q))
  BY <1>4, Typed, Zenon
<1>6. \A m \in Elems(f.inbox) \cup Elems(f.batch) \cup Elems(f.rest) \cup {f.pill} : m \in Held(q)
  BY <1>4, Typed, Zenon
<1>7. f.pc \in {"inbox", "loop"}
  BY <1>2, <1>4, Zenon
<1> QED BY <1>1, <1>3, <1>4, <1>5, <1>6, <1>7, Working, Zenon
\* A message of a batch.
LEMMA Invoking ==
  ASSUME IInv, NEW q \in Procs, NEW f \in ProcessType, p' = [p EXCEPT ![q] = f],
         UNCHANGED <<registry, client, done>>,
         p[q].pc = "drain" \/ (p[q].pc = "next" /\ p[q].batch # <<>>),
         f.pc \in {"receive", "drain", "detach"},
         f.todo \subseteq Kids(Id(q)), f.inbox = p[q].inbox,
         Elems(f.batch) \subseteq Held(q), Elems(f.rest) \subseteq Held(q), f.pill \in Held(q),
         f.children = p[q].children, f.up = p[q].up, f.cleanups = p[q].cleanups,
         f.stopped = p[q].stopped, f.snap = p[q].snap, f.open = p[q].open,
         f.pc \in {"drain", "detach"} \/ f.ret = "drain" => f.pill \in Mail /\ IsPill(f.pill)
  PROVE  IInv'
<1>1. /\ f.todo \cup f.children \subseteq Kids(Id(q))
      /\ \A m \in Elems(f.inbox) \cup Elems(f.batch) \cup Elems(f.rest) \cup {f.pill} : m \in Held(q)
  BY Typed, Zenon
<1>2. Progress(q) /\ p[q].stopped => f.open
  BY Zenon DEF Progress, At
<1>3. p[q].pc \in {"receive", "record", "inbox", "loop", "next", "drain"} /\ p[q].pc # "record"
  BY Zenon
<1> QED BY <1>1, <1>2, <1>3, Working, Zenon

\* Receive of a message that spawns children, and a restart.
LEMMA InvokingReceive ==
  ASSUME IInv, NEW q \in Procs, UNCHANGED <<registry, client, done>>,
         p[q].pc = "drain" \/ (p[q].pc = "next" /\ p[q].batch # <<>>),
         NEW left \in Mails, Elems(left) \subseteq Held(q), NEW ret \in Returns, NEW b \in BOOLEAN,
         ret = "drain" => p[q].pill \in Mail /\ IsPill(p[q].pill),
         \/ p' = [p EXCEPT ![q].pc = "receive", ![q].todo = Kids(Id(q)), ![q].ret = ret, ![q].batch = left]
         \/ p' = [p EXCEPT ![q].pc = "receive", ![q].todo = Kids(Id(q)), ![q].batch = left,
                           ![q].nested = b, ![q].ret = ret]
  PROVE  IInv'
<1> DEFINE f == p'[q]
           g == [p[q] EXCEPT !.pc = "receive", !.todo = Kids(Id(q)), !.ret = ret, !.batch = left]
           h == [p[q] EXCEPT !.pc = "receive", !.todo = Kids(Id(q)), !.batch = left, !.nested = b, !.ret = ret]
<1>1. /\ p[q] \in ProcessType /\ p \in [Procs -> ProcessType] /\ "receive" \in PCs
      /\ Kids(Id(q)) \in Ids
  BY Typed, Zenon DEF PCs, Ids
<1>2. g \in ProcessType /\ h \in ProcessType
  BY <1>1, Zenon DEF ProcessType
<1>3. (p' = [p EXCEPT ![q] = g] /\ f = g) \/ (p' = [p EXCEPT ![q] = h] /\ f = h)
  BY <1>1, ZenonT(40)
<1>4. /\ g.pc = "receive" /\ g.todo = Kids(Id(q)) /\ g.ret = ret /\ g.batch = left
      /\ g.inbox = p[q].inbox /\ g.rest = p[q].rest /\ g.pill = p[q].pill /\ g.children = p[q].children
      /\ g.up = p[q].up /\ g.cleanups = p[q].cleanups /\ g.stopped = p[q].stopped
      /\ g.snap = p[q].snap /\ g.open = p[q].open
  BY <1>1, Zenon DEF ProcessType
<1>5. /\ h.pc = "receive" /\ h.todo = Kids(Id(q)) /\ h.ret = ret /\ h.batch = left
      /\ h.inbox = p[q].inbox /\ h.rest = p[q].rest /\ h.pill = p[q].pill /\ h.children = p[q].children
      /\ h.up = p[q].up /\ h.cleanups = p[q].cleanups /\ h.stopped = p[q].stopped
      /\ h.snap = p[q].snap /\ h.open = p[q].open
  BY <1>1, Zenon DEF ProcessType
<1> HIDE DEF g, h, f
<1>6. /\ f \in ProcessType /\ p' = [p EXCEPT ![q] = f]
      /\ f.pc = "receive" /\ f.todo = Kids(Id(q)) /\ f.ret = ret /\ f.batch = left
      /\ f.inbox = p[q].inbox /\ f.rest = p[q].rest /\ f.pill = p[q].pill /\ f.children = p[q].children
      /\ f.up = p[q].up /\ f.cleanups = p[q].cleanups /\ f.stopped = p[q].stopped
      /\ f.snap = p[q].snap /\ f.open = p[q].open
  BY <1>2, <1>3, <1>4, <1>5, ZenonT(40)
<1>7. /\ f.todo \subseteq Kids(Id(q)) /\ Elems(f.batch) \subseteq Held(q)
      /\ Elems(f.rest) \subseteq Held(q) /\ f.pill \in Held(q)
  BY <1>6, Typed
<1>8. f.pc \in {"drain", "detach"} \/ f.ret = "drain" => f.pill \in Mail /\ IsPill(f.pill)
  BY <1>6, Zenon
<1> QED BY <1>6, <1>7, <1>8, Invoking, Zenon

LEMMA InvokeStep ==
  ASSUME IInv, NEW q \in Procs, Invoke(q)
  PROVE  IInv'
<1> DEFINE m == Head(p[q].batch)
           left == Tail(p[q].batch)
<1>1. p[q].pc = "next" /\ p[q].batch # <<>> /\ UNCHANGED <<registry, client, done>>
  BY Zenon DEF Invoke, At
<1>2. /\ m \in Mail /\ left \in Mails /\ m \in Held(q) /\ Elems(left) \subseteq Held(q)
      /\ p[q] \in ProcessType /\ p \in [Procs -> ProcessType]
      /\ m.kind \in {"stop", "poison", "spawn", "panic"}
  BY <1>1, Typed, ElemsTail, Zenon DEF Mail
<1>3. CASE m.kind = "spawn"
  <2>1. p' = [p EXCEPT ![q].pc = "receive", ![q].todo = Kids(Id(q)), ![q].ret = "next", ![q].batch = left]
    BY <1>3, Zenon DEF Invoke
  <2>2. "next" \in Returns /\ TRUE \in BOOLEAN
    BY Zenon DEF Returns
  <2> HIDE DEF left
  <2> QED BY <1>1, <1>2, <2>1, <2>2, InvokingReceive, Zenon
<1>4. CASE m.kind = "panic"
  <2> DEFINE ret == IF left = <<>> THEN "inbox" ELSE "next"
             b == left # <<>>
  <2>1. p' = [p EXCEPT ![q].pc = "receive", ![q].todo = Kids(Id(q)), ![q].batch = left,
                       ![q].nested = b, ![q].ret = ret]
    BY <1>4, Zenon DEF Invoke, Restarted
  <2>2. ret \in Returns /\ ret # "drain" /\ b \in BOOLEAN
    BY Zenon DEF Returns
  <2> HIDE DEF left, ret, b
  <2> QED BY <1>1, <1>2, <2>1, <2>2, InvokingReceive, Zenon
<1>5. CASE m.kind = "stop"
  <2> DEFINE f == [p[q] EXCEPT !.pc = "detach", !.pill = m, !.batch = <<>>]
  <2>1. p' = [p EXCEPT ![q] = f]
    BY <1>5, Zenon DEF Invoke
  <2>2. "detach" \in PCs /\ m \in Pills /\ <<>> \in Mails /\ IsPill(m)
    BY <1>2, <1>5 DEF PCs, Pills, Mails, IsPill
  <2> HIDE DEF m
  <2>3. f \in ProcessType
    BY <1>2, <2>2, Zenon DEF ProcessType
  <2>4. /\ f.pc = "detach" /\ f.todo = p[q].todo /\ f.ret = p[q].ret /\ f.batch = <<>>
        /\ f.inbox = p[q].inbox /\ f.rest = p[q].rest /\ f.pill = m /\ f.children = p[q].children
        /\ f.up = p[q].up /\ f.cleanups = p[q].cleanups /\ f.stopped = p[q].stopped
        /\ f.snap = p[q].snap /\ f.open = p[q].open
    BY <1>2, Zenon DEF ProcessType
  <2> HIDE DEF f
  <2>5. /\ f.todo \subseteq Kids(Id(q)) /\ Elems(f.batch) \subseteq Held(q)
        /\ Elems(f.rest) \subseteq Held(q) /\ f.pill \in Held(q)
    BY <1>2, <2>4, Typed, ElemsEmpty, Zenon
  <2> QED BY <1>1, <1>2, <2>1, <2>2, <2>3, <2>4, <2>5, Invoking, Zenon
<1>6. CASE m.kind = "poison"
  <2> DEFINE f == [p[q] EXCEPT !.pc = "drain", !.pill = m, !.batch = left, !.rest = left]
  <2>1. p' = [p EXCEPT ![q] = f]
    BY <1>6, Zenon DEF Invoke
  <2>2. "drain" \in PCs /\ m \in Pills /\ IsPill(m)
    BY <1>2, <1>6, Zenon DEF PCs, Pills, IsPill
  <2> HIDE DEF m, left
  <2>3. f \in ProcessType
    BY <1>2, <2>2, Zenon DEF ProcessType
  <2>4. /\ f.pc = "drain" /\ f.todo = p[q].todo /\ f.ret = p[q].ret /\ f.batch = left
        /\ f.inbox = p[q].inbox /\ f.rest = left /\ f.pill = m /\ f.children = p[q].children
        /\ f.up = p[q].up /\ f.cleanups = p[q].cleanups /\ f.stopped = p[q].stopped
        /\ f.snap = p[q].snap /\ f.open = p[q].open
    BY <1>2, Zenon DEF ProcessType
  <2> HIDE DEF f
  <2>5. /\ f.todo \subseteq Kids(Id(q)) /\ Elems(f.batch) \subseteq Held(q)
        /\ Elems(f.rest) \subseteq Held(q) /\ f.pill \in Held(q)
    BY <1>2, <2>4, Typed, Zenon
  <2> QED BY <1>1, <1>2, <2>1, <2>2, <2>3, <2>4, <2>5, Invoking, Zenon
<1> QED BY <1>2, <1>3, <1>4, <1>5, <1>6, Zenon
LEMMA InvokeDrainStep ==
  ASSUME IInv, NEW q \in Procs, InvokeDrain(q)
  PROVE  IInv'
<1> DEFINE m == Head(p[q].batch)
           left == Tail(p[q].batch)
<1>1. p[q].pc = "drain" /\ UNCHANGED <<registry, client, done>>
  BY Zenon DEF InvokeDrain, At
<1>2. /\ p[q] \in ProcessType /\ p \in [Procs -> ProcessType] /\ p[q].rest \in Mails
      /\ p[q].pill \in Mail /\ IsPill(p[q].pill) /\ p[q].pill \in Held(q)
      /\ Elems(p[q].rest) \subseteq Held(q) /\ Elems(p[q].batch) \subseteq Held(q)
  BY <1>1, Typed, Zenon DEF Ready
<1>3. CASE p[q].batch = <<>>
  <2> DEFINE f == [p[q] EXCEPT !.pc = "detach"]
  <2>1. p' = [p EXCEPT ![q] = f]
    BY <1>3, Zenon DEF InvokeDrain
  <2>2. "detach" \in PCs
    BY Zenon DEF PCs
  <2>3. f \in ProcessType
    BY <1>2, <2>2, Zenon DEF ProcessType
  <2>4. /\ f.pc = "detach" /\ f.todo = p[q].todo /\ f.ret = p[q].ret /\ f.batch = p[q].batch
        /\ f.inbox = p[q].inbox /\ f.rest = p[q].rest /\ f.pill = p[q].pill /\ f.children = p[q].children
        /\ f.up = p[q].up /\ f.cleanups = p[q].cleanups /\ f.stopped = p[q].stopped
        /\ f.snap = p[q].snap /\ f.open = p[q].open
    BY <1>2, Zenon DEF ProcessType
  <2> HIDE DEF f
  <2>5. /\ f.todo \subseteq Kids(Id(q)) /\ Elems(f.batch) \subseteq Held(q)
        /\ Elems(f.rest) \subseteq Held(q) /\ f.pill \in Held(q)
    BY <1>2, <2>4, Typed, Zenon
  <2> QED BY <1>1, <1>2, <2>1, <2>3, <2>4, <2>5, Invoking, Zenon
<1>4. CASE p[q].batch # <<>>
  <2>1. /\ m \in Mail /\ left \in Mails /\ Elems(left) \subseteq Held(q)
        /\ m.kind \in {"stop", "poison", "spawn", "panic"}
    BY <1>2, <1>4, Typed, ElemsTail, Zenon DEF Mail
  <2>2. CASE IsPill(m)
    <3> DEFINE f == [p[q] EXCEPT !.batch = left]
    <3>1. p' = [p EXCEPT ![q] = f]
      BY <1>4, <2>2, Zenon DEF InvokeDrain, IsPill
    <3> HIDE DEF left
    <3>2. f \in ProcessType
      BY <1>2, <2>1, Zenon DEF ProcessType
    <3>3. /\ f.pc = p[q].pc /\ f.todo = p[q].todo /\ f.ret = p[q].ret /\ f.batch = left
          /\ f.inbox = p[q].inbox /\ f.rest = p[q].rest /\ f.pill = p[q].pill /\ f.children = p[q].children
          /\ f.up = p[q].up /\ f.cleanups = p[q].cleanups /\ f.stopped = p[q].stopped
          /\ f.snap = p[q].snap /\ f.open = p[q].open
      BY <1>2, Zenon DEF ProcessType
    <3> HIDE DEF f
    <3>4. /\ f.todo \subseteq Kids(Id(q)) /\ Elems(f.batch) \subseteq Held(q)
          /\ Elems(f.rest) \subseteq Held(q) /\ f.pill \in Held(q)
      BY <1>2, <2>1, <3>3, Typed, Zenon
    <3> QED BY <1>1, <1>2, <3>1, <3>2, <3>3, <3>4, Invoking, Zenon
  <2>3. CASE m.kind = "spawn"
    <3>1. p' = [p EXCEPT ![q].pc = "receive", ![q].todo = Kids(Id(q)), ![q].ret = "drain", ![q].batch = left]
      BY <1>4, <2>3, Zenon DEF InvokeDrain, IsPill
    <3>2. "drain" \in Returns /\ TRUE \in BOOLEAN
      BY Zenon DEF Returns
    <3> HIDE DEF left
    <3> QED BY <1>1, <1>2, <2>1, <3>1, <3>2, InvokingReceive, Zenon
  <2>4. CASE m.kind = "panic"
    <3> DEFINE rest == p[q].rest
               ret == IF rest = <<>> THEN "inbox" ELSE "next"
               b == rest # <<>>
    <3>1. p' = [p EXCEPT ![q].pc = "receive", ![q].todo = Kids(Id(q)), ![q].batch = rest,
                         ![q].nested = b, ![q].ret = ret]
      BY <1>4, <2>4, Zenon DEF InvokeDrain, IsPill, Restarted
    <3>2. /\ ret \in Returns /\ ret # "drain" /\ b \in BOOLEAN
          /\ rest \in Mails /\ Elems(rest) \subseteq Held(q)
      BY <1>2, Zenon DEF Returns
    <3> HIDE DEF rest, ret, b
    <3> QED BY <1>1, <3>1, <3>2, InvokingReceive, Zenon
  <2> QED BY <2>1, <2>2, <2>3, <2>4, Zenon DEF IsPill
<1> QED BY <1>3, <1>4, Zenon
\* A step of cleanup before the one that sends Stopped.
LEMMA Cleansing ==
  ASSUME IInv, NEW q \in Procs, NEW f \in ProcessType, p' = [p EXCEPT ![q] = f], client' = client,
         \/ registry' = registry
         \/ p[q].pc = "remove" /\ f.pc = "stopped" /\ registry' = [registry EXCEPT ![Id(q)] = 0],
         p[q].pc \in Cleaning \ {"stopped"}, f.pc \in Sweep,
         f.up = p[q].up, f.cleanups = p[q].cleanups, f.stopped = p[q].stopped,
         f.todo = p[q].todo, f.children = p[q].children, f.inbox = p[q].inbox,
         f.batch = p[q].batch, f.rest = p[q].rest, f.pill = p[q].pill,
         f.snap \subseteq Kids(Id(q)),
         \A m \in done' : m \in Mail /\ IsPill(m),
         \A m \in done' : m \in done \/ (m.by = q /\ p[q].pc = "poison"),
         f.pc \in {"lookup", "push", "wait"} =>
            f.cur # NoProc /\ Id(f.cur) \in Kids(Id(q)),
         f.pc = "push" => f.cur \in Procs /\ p[f.cur].pc # "none",
         CleanedOnce /\ (\A s \in Procs : Good(s)) =>
            /\ f.pc \in {"lookup", "push", "wait"} => Id(f.cur) \notin f.snap
            /\ f.pc \in {"remove", "stopped"} => ~f.open
            /\ f.pc \in {"stopInbox", "remove", "stopped"} => f.snap = {}
            /\ \A r \in Procs : p[r].up = q =>
                 \/ Id(r) \in f.snap \/ Over(q, r)
                 \/ f.pc \in {"lookup", "push", "wait"} /\ Id(r) = Id(f.cur)
            /\ \A r \in Procs : \A m \in Held(r) : m.by = q =>
                 /\ m.kid = Id(r) /\ Id(r) \notin f.snap /\ Last(q, r)
                 /\ f.pc \in {"lookup", "push"} => Id(r) # Id(f.cur)
            /\ \A m \in done' : m.by = q => \A r \in Procs : p[r].up = q /\ Id(r) = m.kid => Over(q, r)
            /\ f.pc = "push" => Last(q, f.cur)
  PROVE  IInv'
<1>1. p \in [Procs -> ProcessType] /\ p[q] \in ProcessType
  BY Typed, Zenon
<1>2. p'[q] = f /\ \A r \in Procs \ {q} : p'[r] = p[r]
  BY <1>1, Zenon
<1>3. /\ p[q].pc # "none" /\ f.pc # "none" /\ f.pc # "children" /\ f.pc \in Cleaning
      /\ p[q].pc # "record" /\ f.pc \notin {"record", "receive", "cancel"} /\ p[q].pc # "cancel"
  BY Zenon DEF Cleaning, Sweep
<1>4. f.todo \cup f.children \cup f.snap \subseteq Kids(Id(q))
  BY Typed, Zenon
<1>5. \A m \in Elems(f.inbox) \cup Elems(f.batch) \cup Elems(f.rest) \cup {f.pill} : m \in Held(q)
  BY Typed, Zenon
<1>6. Ready(q)'
  <2>1. p[q].up # NoProc => p'[p[q].up].pc # "none"
    <3>1. p[q].up # NoProc => p[p[q].up].pc # "none"
      BY Zenon DEF IInv, Known, Ready, At
    <3> QED BY <1>2, <1>3, <3>1, ZenonT(40) DEF IInv, TypeOK, ProcessType, Refs
  <2>2. f.pill \in Mail /\ IsPill(f.pill)
    BY Typed, Zenon DEF Ready
  <2>3. f.pc = "push" => f.cur \in Procs /\ p'[f.cur].pc # "none"
    BY <1>2, <1>3, ZenonT(40)
  <2> QED BY <1>2, <1>3, <2>1, <2>2, <2>3, ZenonT(40) DEF Ready, At
<1>7. ASSUME CleanedOnce, \A s \in Procs : Good(s)
      PROVE  /\ Progress(q)' /\ Sweeping(q)'
             /\ f.stopped /\ ~f.open => (p[q].stopped /\ ~p[q].open) \/ p[q].pc = "stopped"
  <2>1. Progress(q) /\ p[q].cleanups = 1 /\ ~p[q].stopped
    BY <1>7, Zenon DEF Good, Progress
  <2>2. Progress(q)'
    BY <1>2, <1>3, <1>7, <2>1, Zenon DEF Progress, At
  <2>3. \A r \in Procs : p'[r].up = p[r].up /\ Held(r)' = Held(r) /\ (Over(q, r)' <=> Over(q, r))
    <3>1. p'[q].up = p[q].up /\ Held(q)' = Held(q) /\ (Over(q, q)' <=> Over(q, q))
      BY <1>2, ZenonT(40) DEF Held, Over
    <3> QED BY <1>2, <3>1, ZenonT(40) DEF Held, Over
  <2>4. \A r : Last(q, r) => Last(q, r)'
    BY <2>3, ZenonT(40) DEF Last
  <2>5. \A r \in Procs : Turn(q, r)'
    BY <1>2, <1>7, <2>3, ZenonT(40) DEF Turn
  <2>6. ASSUME NEW r \in Procs PROVE Asked(q, r)'
    <3>1. \A m \in Held(r) : m.by = q =>
            /\ m.kid = Id(r) /\ Id(r) \notin f.snap /\ Last(q, r)
            /\ f.pc \in {"lookup", "push"} => Id(r) # Id(f.cur)
      BY <1>7, Zenon
    <3>2. Held(r)' = Held(r) /\ (Last(q, r) => Last(q, r)')
      BY <2>3, <2>4, Zenon
    <3> QED BY <1>2, <3>1, <3>2, ZenonT(40) DEF Asked
  <2>7. Answered(q)'
    BY <1>7, <2>3, ZenonT(40) DEF Answered
  <2>8. At(q, "push")' => Last(q, p[q].cur)'
    BY <1>2, <1>7, <2>4, Zenon DEF At
  <2> QED BY <2>1, <2>2, <2>5, <2>6, <2>7, <2>8, Zenon DEF Sweeping
<1> QED BY <1>3, <1>4, <1>5, <1>6, <1>7, Solo, Zenon
\* A child that does not hold its id.
LEMMA Gone ==
  ASSUME IInv, CleanedOnce, NEW q \in Procs, NEW r \in Procs, Good(r), p[r].up = q,
         registry[Id(r)] # r[2] \/ ~Live(r), p[r].pill.by # q
  PROVE  Over(q, r)
<1>1. p[r].pc # "none"
  <2>1. Unborn.up = NoProc /\ q # NoProc
    BY SupervisionAssumption DEF Unborn, Process, Procs, NoProc
  <2> QED BY <2>1, Zenon DEF IInv, Unstarted, At
<1>2. p[r].cleanups # 0
  BY <1>1, Zenon DEF Good, Registered, At, Live
<1>3. p[r].cleanups = 1
  <2>1. p[r].cleanups \in Nat /\ p[r].cleanups <= 1
    BY Typed, Zenon DEF ProcessType, CleanedOnce
  <2> QED BY <1>2, <2>1
<1> QED BY <1>3, Zenon DEF Over

LEMMA CleanupChildrenStep ==
  ASSUME IInv, NEW q \in Procs, CleanupChildren(q)
  PROVE  IInv'
<1> DEFINE pc == IF p[q].children = {} THEN "stopInbox" ELSE "poison"
           f == [p[q] EXCEPT !.snap = p[q].children, !.pc = pc]
<1>1. p[q].pc = "children" /\ UNCHANGED <<registry, client, done>> /\ p' = [p EXCEPT ![q] = f]
  BY Zenon DEF CleanupChildren, At
<1>2. /\ p[q] \in ProcessType /\ pc \in PCs /\ pc \in {"stopInbox", "poison"} /\ p[q].children \in Ids
      /\ pc = "stopInbox" => p[q].children = {}
  BY Typed, Zenon DEF PCs, Ids
<1> HIDE DEF pc
<1>3. f \in ProcessType
  BY <1>2, Zenon DEF ProcessType
<1>4. /\ f.pc = pc /\ f.snap = p[q].children
      /\ f.up = p[q].up /\ f.cleanups = p[q].cleanups /\ f.stopped = p[q].stopped
      /\ f.todo = p[q].todo /\ f.children = p[q].children /\ f.inbox = p[q].inbox
      /\ f.batch = p[q].batch /\ f.rest = p[q].rest /\ f.pill = p[q].pill
  BY <1>2, Zenon DEF ProcessType
<1> HIDE DEF f
<1>5. p[q].pc \in Cleaning \ {"stopped"} /\ f.pc \in Sweep /\ f.pc \in {"stopInbox", "poison"}
  BY <1>1, <1>2, <1>4, Zenon DEF Cleaning, Sweep
<1>6. f.snap \subseteq Kids(Id(q)) /\ \A m \in done' : m \in Mail /\ IsPill(m)
  BY <1>1, <1>4, Typed, Zenon DEF IInv, TypeOK
<1>7. ASSUME CleanedOnce, \A s \in Procs : Good(s)
      PROVE  /\ \A r \in Procs : p[r].up = q => Id(r) \in f.snap \/ Over(q, r)
             /\ \A r \in Procs : \A m \in Held(r) : m.by # q
             /\ \A m \in done' : m.by # q
  <2>1. (\A m \in done : m.by # q) /\ \A r \in Procs : \A m \in Held(r) : m.by # q
    BY <1>1, <1>7, Zenon DEF Good, Unasked, At
  <2>2. ASSUME NEW r \in Procs, p[r].up = q PROVE Id(r) \in f.snap \/ Over(q, r)
    <3>1. CASE Live(r)
      <4>1. q # NoProc
        BY SupervisionAssumption DEF Procs, NoProc
      <4> QED BY <1>1, <1>4, <1>7, <2>2, <3>1, <4>1, Zenon DEF Good, Recorded, At
    <3>2. CASE ~Live(r)
      <4>1. p[r].pill.by # q
        BY <2>1, Zenon DEF Held
      <4> QED BY <1>7, <2>2, <3>2, <4>1, Gone, Zenon
    <3> QED BY <3>1, <3>2, Zenon
  <2> QED BY <1>1, <2>1, <2>2, Zenon
<1> QED BY <1>1, <1>2, <1>3, <1>4, <1>5, <1>6, <1>7, Cleansing, Zenon

LEMMA PoisonChildStep ==
  ASSUME IInv, NEW q \in Procs, NEW c \in Actors, PoisonChild(q, c)
  PROVE  IInv'
<1> DEFINE pc == IF registry[c] = 0 THEN "wait" ELSE "lookup"
           pill == Msg(q, "poison", c, p[q].cleanups)
           f == [p[q] EXCEPT !.pc = pc, !.snap = @ \ {c}, !.cur = <<c, 0>>]
<1>1. /\ p[q].pc = "poison" /\ c \in p[q].snap /\ UNCHANGED <<registry, client>>
      /\ done' = IF registry[c] = 0 THEN done \cup {pill} ELSE done
      /\ p' = [p EXCEPT ![q] = f]
  BY Zenon DEF PoisonChild, At
<1>2. /\ p[q] \in ProcessType /\ pc \in PCs /\ pc \in {"wait", "lookup"}
      /\ p[q].snap \ {c} \in Ids /\ p[q].snap \ {c} \subseteq Kids(Id(q)) /\ c \in Kids(Id(q))
      /\ p[q].cleanups \in Nat
  BY <1>1, Typed, Zenon DEF PCs, Ids, ProcessType
<1>3. <<c, 0>> \in Names /\ <<c, 0>> # NoProc /\ Id(<<c, 0>>) = c
  BY SupervisionAssumption DEF Names, NoProc, Id
<1>4. /\ pill \in Mail /\ IsPill(pill) /\ pill.by = q /\ pill.kid = c
  BY <1>2, Zenon DEF Mail, Msg, IsPill
<1> HIDE DEF pc, pill
<1>5. f \in ProcessType
  BY <1>2, <1>3, Zenon DEF ProcessType
<1>6. /\ f.pc = pc /\ f.snap = p[q].snap \ {c} /\ f.cur = <<c, 0>>
      /\ f.up = p[q].up /\ f.cleanups = p[q].cleanups /\ f.stopped = p[q].stopped
      /\ f.todo = p[q].todo /\ f.children = p[q].children /\ f.inbox = p[q].inbox
      /\ f.batch = p[q].batch /\ f.rest = p[q].rest /\ f.pill = p[q].pill
  BY <1>2, Zenon DEF ProcessType
<1> HIDE DEF f
<1>7. p[q].pc \in Cleaning \ {"stopped"} /\ f.pc \in Sweep /\ f.pc \in {"wait", "lookup"} /\ p[q].pc \in Sweep
  BY <1>1, <1>2, <1>6, Zenon DEF Cleaning, Sweep
<1>8. \A m \in done' : /\ m \in Mail /\ IsPill(m)
                       /\ m \in done \/ (m = pill /\ m.by = q /\ registry[c] = 0)
  BY <1>1, <1>4, Zenon DEF IInv, TypeOK
<1>9. ASSUME CleanedOnce, \A s \in Procs : Good(s)
      PROVE  /\ \A r \in Procs : p[r].up = q => Id(r) \in f.snap \/ Id(r) = c \/ Over(q, r)
             /\ \A r \in Procs : \A m \in Held(r) : m.by = q =>
                  m.kid = Id(r) /\ Id(r) \notin f.snap /\ Last(q, r) /\ Id(r) # c
             /\ \A m \in done' : m.by = q => \A r \in Procs : p[r].up = q /\ Id(r) = m.kid => Over(q, r)
  <2>1. (\A r \in Procs : Turn(q, r) /\ Asked(q, r)) /\ Answered(q)
    BY <1>7, <1>9, Zenon DEF Good, Sweeping
  <2>2. \A r \in Procs : p[r].up = q => Id(r) \in f.snap \/ Id(r) = c \/ Over(q, r)
    BY <1>1, <1>6, <2>1, Zenon DEF Turn
  <2>3. \A r \in Procs : \A m \in Held(r) : m.by = q =>
          m.kid = Id(r) /\ Id(r) \notin f.snap /\ Last(q, r) /\ Id(r) # c
    BY <1>1, <1>6, <2>1, Zenon DEF Asked
  <2>4. ASSUME registry[c] = 0, NEW r \in Procs, p[r].up = q, Id(r) = c PROVE Over(q, r)
    <3>1. p[r].pill.by # q
      BY <2>3, <2>4, Zenon DEF Held
    <3>2. r[2] # 0
      BY DEF Procs
    <3> QED BY <1>9, <2>4, <3>1, <3>2, Gone, Zenon
  <2>5. \A m \in done' : m.by = q => \A r \in Procs : p[r].up = q /\ Id(r) = m.kid => Over(q, r)
    BY <1>4, <1>8, <2>1, <2>4, Zenon DEF Answered
  <2> QED BY <2>2, <2>3, <2>5, Zenon
<1>10. /\ f.cur # NoProc /\ Id(f.cur) = c /\ Id(f.cur) \in Kids(Id(q)) /\ Id(f.cur) \notin f.snap
       /\ f.snap \subseteq Kids(Id(q))
       /\ f.pc \notin {"push", "stopInbox", "remove", "stopped"} /\ f.pc \in {"lookup", "push", "wait"}
  BY <1>2, <1>3, <1>6, <1>7, Zenon
<1>11. /\ \A m \in done' : m \in Mail /\ IsPill(m)
       /\ \A m \in done' : m \in done \/ (m.by = q /\ p[q].pc = "poison")
  BY <1>1, <1>8, Zenon
<1>12. CleanedOnce /\ (\A s \in Procs : Good(s)) =>
         /\ \A r \in Procs : p[r].up = q =>
              \/ Id(r) \in f.snap \/ Over(q, r)
              \/ f.pc \in {"lookup", "push", "wait"} /\ Id(r) = Id(f.cur)
         /\ \A r \in Procs : \A m \in Held(r) : m.by = q =>
              /\ m.kid = Id(r) /\ Id(r) \notin f.snap /\ Last(q, r)
              /\ f.pc \in {"lookup", "push"} => Id(r) # Id(f.cur)
         /\ \A m \in done' : m.by = q => \A r \in Procs : p[r].up = q /\ Id(r) = m.kid => Over(q, r)
  BY <1>9, <1>10, Zenon
<1> QED BY <1>1, <1>5, <1>6, <1>7, <1>10, <1>11, <1>12, Cleansing, Zenon
LEMMA PoisonLookupStep ==
  ASSUME IInv, NEW q \in Procs, PoisonLookup(q)
  PROVE  IInv'
<1> DEFINE c == Id(p[q].cur)
           pc == IF registry[c] = 0 THEN "wait" ELSE "push"
           cur == IF registry[c] = 0 THEN p[q].cur ELSE <<c, registry[c]>>
           f == [p[q] EXCEPT !.pc = pc, !.cur = cur]
<1>1. /\ p[q].pc = "lookup" /\ UNCHANGED <<registry, client, done>> /\ p[q] \in ProcessType
      /\ p \in [Procs -> ProcessType]
  BY Typed, Zenon DEF PoisonLookup, At
<1>2. p[q].cur # NoProc /\ c \in Kids(Id(q)) /\ c \in Actors /\ p[q].cur \in Names
  BY <1>1, Typed, Zenon DEF Ready, ProcessType
<1>3. registry[c] # 0 => <<c, registry[c]>> \in Procs /\ <<c, registry[c]>> \in Names
  BY <1>2 DEF IInv, TypeOK, Procs, Names
<1>4. /\ pc \in PCs /\ pc \in {"wait", "push"} /\ cur \in Names /\ Id(cur) = c /\ cur # NoProc
      /\ pc = "push" => cur = <<c, registry[c]>> /\ cur \in Procs /\ p[cur].pc # "none"
  <2>1. registry[c] # 0 => p[<<c, registry[c]>>].pc # "none"
    BY <1>2, Zenon DEF IInv, Known, At
  <2>2. registry[c] # 0 => Id(cur) = c /\ cur # NoProc
    BY <1>2, SupervisionAssumption, Zenon DEF Id, NoProc
  <2> QED BY <1>2, <1>3, <2>1, <2>2, Zenon DEF PCs
<1>5. p' = [p EXCEPT ![q] = f]
  <2>1. CASE registry[c] = 0
    <3>1. f = [p[q] EXCEPT !.pc = "wait"]
      BY <1>1, <2>1, Zenon DEF ProcessType
    <3> QED BY <2>1, <3>1, Zenon DEF PoisonLookup
  <2>2. CASE registry[c] # 0
    BY <2>2, Zenon DEF PoisonLookup
  <2> QED BY <2>1, <2>2, Zenon
<1> HIDE DEF pc, cur
<1>6. f \in ProcessType
  BY <1>1, <1>4, Zenon DEF ProcessType
<1>7. /\ f.pc = pc /\ f.cur = cur /\ f.snap = p[q].snap
      /\ f.up = p[q].up /\ f.cleanups = p[q].cleanups /\ f.stopped = p[q].stopped
      /\ f.todo = p[q].todo /\ f.children = p[q].children /\ f.inbox = p[q].inbox
      /\ f.batch = p[q].batch /\ f.rest = p[q].rest /\ f.pill = p[q].pill
  BY <1>1, Zenon DEF ProcessType
<1> HIDE DEF f
<1>8. /\ p[q].pc \in Cleaning \ {"stopped"} /\ p[q].pc \in Sweep
      /\ f.pc \in Sweep /\ f.pc \in {"lookup", "push", "wait"}
      /\ f.pc \notin {"stopInbox", "remove", "stopped"}
  BY <1>1, <1>4, <1>7, Zenon DEF Cleaning, Sweep
<1>9. /\ f.snap \subseteq Kids(Id(q)) /\ \A m \in done' : m \in Mail /\ IsPill(m) /\ m \in done
  BY <1>1, <1>7, Typed, Zenon DEF IInv, TypeOK
<1>10. ASSUME CleanedOnce, \A s \in Procs : Good(s)
       PROVE  /\ c \notin f.snap
              /\ \A r \in Procs : p[r].up = q => Id(r) \in f.snap \/ Over(q, r) \/ Id(r) = c
              /\ \A r \in Procs : \A m \in Held(r) : m.by = q =>
                   m.kid = Id(r) /\ Id(r) \notin f.snap /\ Last(q, r) /\ Id(r) # c
              /\ Answered(q)
              /\ f.pc = "push" => Last(q, f.cur)
  <2>1. (\A r \in Procs : Turn(q, r) /\ Asked(q, r)) /\ Answered(q)
    BY <1>8, <1>10, Zenon DEF Good, Sweeping
  <2>2. \A r \in Procs : p[r].up = q => Id(r) \in f.snap \/ Over(q, r) \/ Id(r) = c
    BY <1>7, <2>1, Zenon DEF Turn
  <2>3. \A r \in Procs : \A m \in Held(r) : m.by = q =>
          m.kid = Id(r) /\ Id(r) \notin f.snap /\ Last(q, r) /\ Id(r) # c
    BY <1>1, <1>7, <2>1, Zenon DEF Asked
  <2>4. ASSUME f.pc = "push", NEW s \in Procs \ {f.cur}, p[s].up = q, Id(s) = Id(f.cur) PROVE Over(q, s)
    <3>1. f.cur = <<c, registry[c]>> /\ Id(s) = c
      BY <1>4, <1>7, <2>4, Zenon
    <3>2. registry[c] # s[2]
      BY <2>4, <3>1 DEF Procs, Id
    <3>3. p[s].pill.by # q
      BY <2>3, <3>1, Zenon DEF Held
    <3> QED BY <1>10, <2>4, <3>1, <3>2, <3>3, Gone, Zenon
  <2>5. c \notin f.snap
    BY <1>1, <1>7, <1>10, Zenon DEF Good, Progress
  <2> QED BY <2>1, <2>2, <2>3, <2>4, <2>5, Zenon DEF Last
<1>11. /\ f.cur # NoProc /\ Id(f.cur) = c /\ Id(f.cur) \in Kids(Id(q))
       /\ f.pc = "push" => f.cur \in Procs /\ p[f.cur].pc # "none"
  BY <1>2, <1>4, <1>7, Zenon
<1>12. CleanedOnce /\ (\A s \in Procs : Good(s)) =>
         /\ Id(f.cur) \notin f.snap
         /\ \A r \in Procs : p[r].up = q =>
              \/ Id(r) \in f.snap \/ Over(q, r)
              \/ f.pc \in {"lookup", "push", "wait"} /\ Id(r) = Id(f.cur)
         /\ \A r \in Procs : \A m \in Held(r) : m.by = q =>
              /\ m.kid = Id(r) /\ Id(r) \notin f.snap /\ Last(q, r)
              /\ f.pc \in {"lookup", "push"} => Id(r) # Id(f.cur)
         /\ \A m \in done' : m.by = q => \A r \in Procs : p[r].up = q /\ Id(r) = m.kid => Over(q, r)
         /\ f.pc = "push" => Last(q, f.cur)
  BY <1>8, <1>9, <1>10, <1>11, Zenon DEF Answered
<1> QED BY <1>1, <1>5, <1>6, <1>7, <1>8, <1>9, <1>11, <1>12, Cleansing, Zenon
\* The steps of cleanup behind the last pill, and between two.
LEMMA Passing ==
  ASSUME IInv, NEW q \in Procs, NEW f \in ProcessType, p' = [p EXCEPT ![q] = f],
         client' = client, done' = done,
         \/ registry' = registry
         \/ p[q].pc = "remove" /\ f.pc = "stopped" /\ registry' = [registry EXCEPT ![Id(q)] = 0],
         p[q].pc \in {"wait", "stopInbox", "remove"}, f.pc \in {"poison", "stopInbox", "remove", "stopped"},
         p[q].pc = "wait" => ChildPill(q) \in done /\ (f.pc = "stopInbox" => p[q].snap = {}),
         f.pc = "poison" => p[q].pc = "wait",
         f.pc \in {"remove", "stopped"} => ~f.open \/ (p[q].pc = "remove" /\ f.open = p[q].open),
         f.up = p[q].up, f.cleanups = p[q].cleanups, f.stopped = p[q].stopped,
         f.todo = p[q].todo, f.children = p[q].children, f.inbox = p[q].inbox,
         f.batch = p[q].batch, f.rest = p[q].rest, f.pill = p[q].pill, f.snap = p[q].snap,
         p[q].pc = "wait" => f.pc \notin {"remove", "stopped"}
  PROVE  IInv'
<1>1. /\ p[q].pc \in Cleaning \ {"stopped"} /\ p[q].pc \in Sweep /\ f.pc \in Sweep
      /\ f.pc \notin {"lookup", "push", "wait"}
  BY Zenon DEF Cleaning, Sweep
<1>2. /\ f.snap \subseteq Kids(Id(q)) /\ \A m \in done' : m \in Mail /\ IsPill(m) /\ m \in done
  BY Typed, Zenon DEF IInv, TypeOK
<1>3. ChildPill(q).by = q /\ ChildPill(q).kid = Id(p[q].cur)
  BY Zenon DEF ChildPill, Msg, Id
<1>4. ASSUME CleanedOnce, \A s \in Procs : Good(s)
      PROVE  /\ f.pc \in {"remove", "stopped"} => ~f.open
             /\ f.pc \in {"stopInbox", "remove", "stopped"} => f.snap = {}
             /\ \A r \in Procs : p[r].up = q => Id(r) \in f.snap \/ Over(q, r)
             /\ \A r \in Procs : \A m \in Held(r) : m.by = q =>
                  m.kid = Id(r) /\ Id(r) \notin f.snap /\ Last(q, r)
             /\ Answered(q)
  <2>1. (\A r \in Procs : Turn(q, r) /\ Asked(q, r)) /\ Answered(q) /\ Progress(q)
    BY <1>1, <1>4, Zenon DEF Good, Sweeping
  <2>2. \A r \in Procs : p[r].up = q => Id(r) \in f.snap \/ Over(q, r)
    <3>1. p[q].pc = "wait" => \A r \in Procs : p[r].up = q /\ Id(r) = Id(p[q].cur) => Over(q, r)
      BY <1>3, <2>1, Zenon DEF Answered
    <3> QED BY <2>1, <3>1, Zenon DEF Turn
  <2>3. \A r \in Procs : \A m \in Held(r) : m.by = q => m.kid = Id(r) /\ Id(r) \notin f.snap /\ Last(q, r)
    BY <2>1, Zenon DEF Asked
  <2>4. /\ f.pc \in {"remove", "stopped"} => ~f.open
        /\ f.pc \in {"stopInbox", "remove", "stopped"} => f.snap = {}
    BY <2>1, Zenon DEF Progress
  <2> QED BY <2>1, <2>2, <2>3, <2>4, Zenon
<1>5. CleanedOnce /\ (\A s \in Procs : Good(s)) =>
        \A m \in done' : m.by = q => \A r \in Procs : p[r].up = q /\ Id(r) = m.kid => Over(q, r)
  BY <1>2, <1>4, Zenon DEF Answered
<1> QED BY <1>1, <1>2, <1>4, <1>5, Cleansing, Zenon

LEMMA PoisonDoneStep ==
  ASSUME IInv, NEW q \in Procs, PoisonDone(q)
  PROVE  IInv'
<1> DEFINE pc == IF p[q].snap = {} THEN "stopInbox" ELSE "poison"
           f == [p[q] EXCEPT !.pc = pc, !.cur = NoProc]
<1>1. /\ p[q].pc = "wait" /\ ChildPill(q) \in done /\ UNCHANGED <<registry, client, done>>
      /\ p' = [p EXCEPT ![q] = f]
  BY Zenon DEF PoisonDone, At
<1>2. /\ p[q] \in ProcessType /\ pc \in PCs /\ pc \in {"stopInbox", "poison"} /\ NoProc \in Names
      /\ pc = "stopInbox" => p[q].snap = {}
  BY Typed, Zenon DEF PCs, Names
<1> HIDE DEF pc
<1>3. f \in ProcessType
  BY <1>2, Zenon DEF ProcessType
<1>4. /\ f.pc = pc /\ f.snap = p[q].snap
      /\ f.up = p[q].up /\ f.cleanups = p[q].cleanups /\ f.stopped = p[q].stopped
      /\ f.todo = p[q].todo /\ f.children = p[q].children /\ f.inbox = p[q].inbox
      /\ f.batch = p[q].batch /\ f.rest = p[q].rest /\ f.pill = p[q].pill
  BY <1>2, Zenon DEF ProcessType
<1> HIDE DEF f
<1> QED BY <1>1, <1>2, <1>3, <1>4, Passing, Zenon

LEMMA CleanupStopInboxStep ==
  ASSUME IInv, NEW q \in Procs, CleanupStopInbox(q)
  PROVE  IInv'
<1> DEFINE f == [p[q] EXCEPT !.pc = "remove", !.open = FALSE]
<1>1. p[q].pc = "stopInbox" /\ UNCHANGED <<registry, client, done>> /\ p' = [p EXCEPT ![q] = f]
  BY Zenon DEF CleanupStopInbox, At
<1>2. p[q] \in ProcessType /\ "remove" \in PCs
  BY Typed, Zenon DEF PCs
<1>3. f \in ProcessType
  BY <1>2, Zenon DEF ProcessType
<1>4. /\ f.pc = "remove" /\ ~f.open /\ f.snap = p[q].snap
      /\ f.up = p[q].up /\ f.cleanups = p[q].cleanups /\ f.stopped = p[q].stopped
      /\ f.todo = p[q].todo /\ f.children = p[q].children /\ f.inbox = p[q].inbox
      /\ f.batch = p[q].batch /\ f.rest = p[q].rest /\ f.pill = p[q].pill
  BY <1>2, Zenon DEF ProcessType
<1> HIDE DEF f
<1> QED BY <1>1, <1>3, <1>4, Passing, Zenon

LEMMA CleanupRemoveStep ==
  ASSUME IInv, NEW q \in Procs, CleanupRemove(q)
  PROVE  IInv'
<1> DEFINE f == [p[q] EXCEPT !.pc = "stopped"]
<1>1. /\ p[q].pc = "remove" /\ UNCHANGED <<client, done>> /\ p' = [p EXCEPT ![q] = f]
      /\ registry' = [registry EXCEPT ![Id(q)] = 0]
  BY Zenon DEF CleanupRemove, Goto, At
<1>2. p[q] \in ProcessType /\ "stopped" \in PCs
  BY Typed, Zenon DEF PCs
<1>3. f \in ProcessType
  BY <1>2, Zenon DEF ProcessType
<1>4. /\ f.pc = "stopped" /\ f.open = p[q].open /\ f.snap = p[q].snap
      /\ f.up = p[q].up /\ f.cleanups = p[q].cleanups /\ f.stopped = p[q].stopped
      /\ f.todo = p[q].todo /\ f.children = p[q].children /\ f.inbox = p[q].inbox
      /\ f.batch = p[q].batch /\ f.rest = p[q].rest /\ f.pill = p[q].pill
  BY <1>2, Zenon DEF ProcessType
<1> HIDE DEF f
<1> QED BY <1>1, <1>3, <1>4, Passing, Zenon
\* The end of cleanup.
LEMMA Leaving ==
  ASSUME IInv, NEW q \in Procs, NEW f \in ProcessType, p' = [p EXCEPT ![q] = f],
         client' = client, registry' = registry,
         \/ p[q].pc = "stopped" /\ f.pc = "cancel" /\ f.stopped /\ f.pill = p[q].pill
         \/ p[q].pc = "cancel" /\ f.pc = "next" /\ f.batch = <<>> /\ f.stopped = p[q].stopped,
         f.pill \in {p[q].pill, NoPill}, f.batch = p[q].batch \/ f.batch = <<>>,
         done' = IF p[q].pc = "cancel" THEN done \cup {p[q].pill} ELSE done,
         f.up = p[q].up, f.cleanups = p[q].cleanups, f.open = p[q].open,
         f.todo = p[q].todo, f.children = p[q].children, f.inbox = p[q].inbox,
         f.rest = p[q].rest, f.snap = p[q].snap
  PROVE  IInv'
<1>1. p \in [Procs -> ProcessType] /\ p[q] \in ProcessType
  BY Typed, Zenon
<1>2. p'[q] = f /\ \A r \in Procs \ {q} : p'[r] = p[r]
  BY <1>1, Zenon
<1>3. /\ p[q].pc # "none" /\ f.pc # "none" /\ f.pc # "children" /\ f.pc \notin Cleaning
      /\ p[q].pc # "record" /\ f.pc \notin Sweep /\ (p[q].pc = "stopped" <=> p[q].pc \in Cleaning)
      /\ f.pc \notin {"record", "lookup", "push", "wait", "drain", "detach", "receive"}
      /\ f.pc \notin {"stopInbox", "remove", "stopped"}
  BY Zenon DEF Cleaning, Sweep
<1>4. f.todo \cup f.children \cup f.snap \subseteq Kids(Id(q))
  BY Typed, Zenon
<1>5. \A m \in Elems(f.inbox) \cup Elems(f.batch) \cup Elems(f.rest) \cup {f.pill} : m \in Held(q) \/ m = NoPill
  BY Typed, ElemsEmpty, Zenon
<1>6. p[q].pill \in Mail /\ IsPill(p[q].pill)
  BY <1>3, Typed, Zenon DEF Ready
<1>7. Ready(q)'
  <2>1. p[q].up # NoProc => p'[p[q].up].pc # "none"
    <3>1. p[q].up # NoProc => p[p[q].up].pc # "none"
      BY Zenon DEF IInv, Known, Ready, At
    <3> QED BY <1>2, <1>3, <3>1, Zenon DEF IInv, TypeOK, ProcessType, Refs
  <2>2. f.pc = "cancel" => f.pill \in Mail /\ IsPill(f.pill)
    BY <1>6, Zenon
  <2> QED BY <1>2, <1>3, <2>1, <2>2, ZenonT(40) DEF Ready, At
<1>8. \A m \in done' : m \in Mail /\ IsPill(m) /\ (m \in done \/ (m = p[q].pill /\ p[q].pc = "cancel"))
  BY <1>6, Zenon DEF IInv, TypeOK
<1>9. ASSUME CleanedOnce, \A s \in Procs : Good(s)
      PROVE  /\ Progress(q)' /\ Sweeping(q)'
             /\ f.stopped /\ ~f.open => (p[q].stopped /\ ~p[q].open) \/ p[q].pc = "stopped"
  <2>1. /\ p[q].cleanups = 1 /\ f.stopped /\ ~p[q].open
        /\ p[q].pc = "cancel" => p[q].stopped
    BY <1>3, <1>9, Zenon DEF Good, Progress, At
  <2>2. Progress(q)'
    BY <1>2, <1>3, <2>1, Zenon DEF Progress, At
  <2> QED BY <1>2, <1>3, <2>1, <2>2, Zenon DEF Sweeping
<1>10. /\ p[q].stopped => f.stopped
       /\ p[q].pc \in Cleaning => f.pill = p[q].pill
  BY <1>3, Zenon
<1> QED BY <1>3, <1>4, <1>5, <1>7, <1>8, <1>9, <1>10, Solo, Zenon

LEMMA CleanupStoppedStep ==
  ASSUME IInv, NEW q \in Procs, CleanupStopped(q)
  PROVE  IInv'
<1> DEFINE f == [p[q] EXCEPT !.pc = "cancel", !.stopped = TRUE]
<1>1. p[q].pc = "stopped" /\ UNCHANGED <<registry, client, done>> /\ p' = [p EXCEPT ![q] = f]
  BY Zenon DEF CleanupStopped, At
<1>2. p[q] \in ProcessType /\ "cancel" \in PCs
  BY Typed, Zenon DEF PCs
<1>3. f \in ProcessType
  BY <1>2, Zenon DEF ProcessType
<1>4. /\ f.pc = "cancel" /\ f.stopped /\ f.open = p[q].open /\ f.snap = p[q].snap
      /\ f.up = p[q].up /\ f.cleanups = p[q].cleanups
      /\ f.todo = p[q].todo /\ f.children = p[q].children /\ f.inbox = p[q].inbox
      /\ f.batch = p[q].batch /\ f.rest = p[q].rest /\ f.pill = p[q].pill
  BY <1>2, Zenon DEF ProcessType
<1> HIDE DEF f
<1> QED BY <1>1, <1>3, <1>4, Leaving, Zenon

LEMMA CleanupCancelStep ==
  ASSUME IInv, NEW q \in Procs, CleanupCancel(q)
  PROVE  IInv'
<1> DEFINE f == [p[q] EXCEPT !.pc = "next", !.pill = NoPill, !.batch = <<>>]
<1>1. /\ p[q].pc = "cancel" /\ UNCHANGED <<registry, client>> /\ p' = [p EXCEPT ![q] = f]
      /\ done' = done \cup {p[q].pill}
  BY Zenon DEF CleanupCancel, At
<1>2. <<>> \in Mails
  BY DEF Mails
<1>3. p[q] \in ProcessType /\ "next" \in PCs /\ NoPill \in Pills
  BY Typed, Zenon DEF PCs, Pills
<1>4. f \in ProcessType
  BY <1>2, <1>3, Zenon DEF ProcessType
<1>5. /\ f.pc = "next" /\ f.stopped = p[q].stopped /\ f.open = p[q].open /\ f.snap = p[q].snap
      /\ f.up = p[q].up /\ f.cleanups = p[q].cleanups
      /\ f.todo = p[q].todo /\ f.children = p[q].children /\ f.inbox = p[q].inbox
      /\ f.batch = <<>> /\ f.rest = p[q].rest /\ f.pill = NoPill
  BY <1>3, Zenon DEF ProcessType
<1> HIDE DEF f
<1> QED BY <1>1, <1>4, <1>5, Leaving, Zenon
\* A message that is put into an inbox.
Put(e, m) == [e EXCEPT !.inbox = Append(@, m)]

LEMMA Pushed ==
  ASSUME NEW e \in ProcessType, NEW m \in Mail
  PROVE  /\ Put(e, m) \in ProcessType /\ Elems(Put(e, m).inbox) = Elems(e.inbox) \cup {m}
         /\ Put(e, m).pc = e.pc /\ Put(e, m).open = e.open /\ Put(e, m).batch = e.batch
         /\ Put(e, m).rest = e.rest /\ Put(e, m).todo = e.todo /\ Put(e, m).ret = e.ret
         /\ Put(e, m).up = e.up /\ Put(e, m).children = e.children /\ Put(e, m).cur = e.cur
         /\ Put(e, m).snap = e.snap /\ Put(e, m).pill = e.pill
         /\ Put(e, m).cleanups = e.cleanups /\ Put(e, m).stopped = e.stopped
<1>1. Append(e.inbox, m) \in Mails /\ Elems(Append(e.inbox, m)) = Elems(e.inbox) \cup {m}
  BY ElemsAppend, Zenon DEF ProcessType
<1>2. Put(e, m) \in ProcessType
  BY <1>1, Zenon DEF ProcessType, Put
<1> QED BY <1>1, <1>2, Zenon DEF ProcessType, Put

\* A step of a call from outside.
LEMMA Outside ==
  ASSUME IInv, TypeOK', registry' = registry,
         \A r \in Procs : Still(r) /\ p'[r].children = p[r].children,
         \A r \in Procs : p[r].pc = "none" => p'[r] = p[r],
         \A r \in Procs : \A m \in Held(r)' : m \in Held(r) \/ m.by \notin Procs,
         \A m \in done' : m \in done \/ m.by \notin Procs,
         \A x \in Clients : Calling(x)'
  PROVE  IInv'
<1>1. /\ Unstarted'
      /\ \A r \in Procs : Ready(r) /\ Still(r) => Ready(r)'
      /\ \A a \in Actors : registry'[a] # 0 => p'[<<a, registry'[a]>>].pc # "none"
  <2>1. \A r \in Procs : p'[r].pc = "none" <=> p[r].pc = "none"
    BY Zenon DEF Still
  <2>2. p' \in [Procs -> ProcessType]
    BY Zenon DEF TypeOK
  <2>3. \A a \in Actors : registry'[a] \in {registry[a], 0}
    BY Zenon
  <2> QED BY <2>1, <2>2, <2>3, KnownStays, Zenon DEF IInv
<1>2. Known'
  BY <1>1, Zenon DEF IInv, Known, At
<1>3. CleanedOnce' => CleanedOnce
  BY Zenon DEF CleanedOnce, Still
<1>4. ASSUME CleanedOnce', NEW s \in Procs PROVE Good(s)'
  <2>1. Good(s)
    BY <1>3, <1>4, Zenon DEF IInv
  <2>2. Evolves(s)
    BY Zenon DEF Evolves, Over, Still
  <2>3. Registered(s)'
    BY <2>1, Zenon DEF Good, Registered, Still, At
  <2>4. Tables
    BY Zenon DEF Tables, Still, At
  <2>5. Recorded(s)'
    BY <2>1, <2>4, Recording, Zenon DEF IInv, Good, Still, Live
  <2> QED BY <2>1, <2>2, <2>3, <2>5, Others, Zenon
<1> QED BY <1>1, <1>2, <1>4, Zenon DEF IInv
\* The name of a client is no process.
LEMMA Foreign ==
  ASSUME NEW x PROVE <<x, 0>> \notin Procs
BY DEF Procs

LEMMA CallStep ==
  ASSUME IInv, NEW x \in Clients, NEW kind \in Kinds, NEW a \in Actors, Call(x, kind, a)
  PROVE  IInv'
<1> DEFINE at == IF kind \in {"stop", "poison"} /\ registry[a] = 0 THEN "returned" ELSE "lookup"
           k == [client[x] EXCEPT !.at = at, !.kind = kind, !.to = a]
           m == Msg(<<x, 0>>, kind, a, 0)
<1>1. /\ client' = [client EXCEPT ![x] = k] /\ UNCHANGED <<registry, p>>
      /\ \A y \in done' : y \in done \/ (y = m /\ kind \in {"stop", "poison"})
  BY Zenon DEF Call
<1>2. client \in [Clients -> CallType] /\ client[x] \in CallType
  BY Zenon DEF IInv, TypeOK
<1>3. at \in {"returned", "lookup"}
  BY Zenon
<1> HIDE DEF at
<1>4. k \in CallType /\ k.at = at /\ k.kind = kind /\ k.to = a
  BY <1>2, <1>3, Zenon DEF CallType
<1>5. m \in Mail /\ m.by = <<x, 0>> /\ m.kind = kind
  BY SupervisionAssumption, Zenon DEF Mail, Msg
<1> HIDE DEF m, k
<1>6. TypeOK'
  <2>1. client' \in [Clients -> CallType]
    BY <1>1, <1>2, <1>4, Zenon
  <2>2. done' \subseteq Mail /\ \A y \in done' : IsPill(y)
    BY <1>1, <1>5, Zenon DEF IInv, TypeOK, IsPill
  <2> QED BY <1>1, <2>1, <2>2, Zenon DEF IInv, TypeOK
<1>7. \A r \in Procs : /\ Still(r) /\ p'[r].children = p[r].children /\ p'[r] = p[r]
                       /\ \A y \in Held(r)' : y \in Held(r)
  BY <1>1, Zenon DEF Still, Held
<1>8. \A y \in done' : y \in done \/ y.by \notin Procs
  BY <1>1, <1>5, Foreign, Zenon
<1>9. ASSUME NEW y \in Clients PROVE Calling(y)'
  <2>1. CASE y = x
    BY <1>1, <1>2, <1>3, <1>4, <2>1, Zenon DEF Calling
  <2>2. CASE y # x
    BY <1>1, <1>2, <2>2, Zenon DEF IInv, Known, Calling, At
  <2> QED BY <2>1, <2>2, Zenon
<1> QED BY <1>1, <1>6, <1>7, <1>8, <1>9, Outside, Zenon

LEMMA SendLocalStep ==
  ASSUME IInv, NEW x \in Clients, SendLocal(x)
  PROVE  IInv'
<1> DEFINE a == client[x].to
           at == IF registry[a] = 0 THEN "returned" ELSE "push"
           found == IF registry[a] = 0 THEN NoProc ELSE <<a, registry[a]>>
           k == [client[x] EXCEPT !.at = at, !.found = found]
<1>1. client[x].at = "lookup" /\ UNCHANGED <<registry, p, done>> /\ client' = [client EXCEPT ![x] = k]
  BY Zenon DEF SendLocal
<1>2. client \in [Clients -> CallType] /\ client[x] \in CallType
  BY Zenon DEF IInv, TypeOK
<1>3. a \in Actors /\ client[x].kind \in Kinds
  BY <1>1, Zenon DEF IInv, Known, Calling
<1>4. registry[a] # 0 => <<a, registry[a]>> \in Procs /\ p[<<a, registry[a]>>].pc # "none"
  <2>1. registry[a] # 0 => <<a, registry[a]>> \in Procs
    BY <1>3 DEF IInv, TypeOK, Procs
  <2> QED BY <1>3, <2>1, Zenon DEF IInv, Known, At
<1>5. /\ at \in {"returned", "push"} /\ found \in Procs \cup {NoProc}
      /\ at = "push" => found \in Procs /\ p[found].pc # "none"
  BY <1>4, Zenon
<1> HIDE DEF at, found
<1>6. k \in CallType /\ k.at = at /\ k.kind = client[x].kind /\ k.to = client[x].to /\ k.found = found
  BY <1>2, <1>5, Zenon DEF CallType
<1> HIDE DEF k
<1>7. TypeOK'
  <2>1. client' \in [Clients -> CallType]
    BY <1>1, <1>2, <1>6, Zenon
  <2> QED BY <1>1, <2>1, Zenon DEF IInv, TypeOK
<1>8. \A r \in Procs : /\ Still(r) /\ p'[r].children = p[r].children /\ p'[r] = p[r]
                       /\ \A y \in Held(r)' : y \in Held(r)
  BY <1>1, Zenon DEF Still, Held
<1>9. ASSUME NEW y \in Clients PROVE Calling(y)'
  <2>1. CASE y = x
    BY <1>1, <1>2, <1>3, <1>5, <1>6, <2>1, Zenon DEF Calling, At
  <2>2. CASE y # x
    BY <1>1, <1>2, <2>2, Zenon DEF IInv, Known, Calling, At
  <2> QED BY <2>1, <2>2, Zenon
<1> QED BY <1>1, <1>7, <1>8, <1>9, Outside, Zenon

LEMMA DeliverStep ==
  ASSUME IInv, NEW x \in Clients, Deliver(x)
  PROVE  IInv'
<1> DEFINE z == client[x].found
           m == CallOf(x)
           k == [client[x] EXCEPT !.at = "returned", !.found = NoProc]
<1>1. /\ client[x].at = "push" /\ UNCHANGED <<registry, done>> /\ client' = [client EXCEPT ![x] = k]
      /\ p' = [p EXCEPT ![z] = Put(p[z], m)]
  BY Zenon DEF Deliver, Put
<1>2. /\ client \in [Clients -> CallType] /\ client[x] \in CallType /\ p \in [Procs -> ProcessType]
      /\ \A r \in Procs : p[r] \in ProcessType
  BY Zenon DEF IInv, TypeOK
<1>3. /\ z \in Procs /\ p[z].pc # "none" /\ client[x].to \in Actors /\ client[x].kind \in Kinds
  BY <1>1, Zenon DEF IInv, Known, Calling, At
<1>4. m \in Mail /\ m.by = <<x, 0>>
  BY <1>3, SupervisionAssumption, Zenon DEF Mail, Msg, CallOf
<1>5. k \in CallType /\ k.at = "returned"
  BY <1>2, Zenon DEF CallType
<1> HIDE DEF m, k, z
<1>6. p' \in [Procs -> ProcessType] /\ p'[z] = Put(p[z], m) /\ \A r \in Procs \ {z} : p'[r] = p[r]
  BY <1>1, <1>2, <1>3, <1>4, Pushed, Zenon
<1>7. ASSUME NEW r \in Procs
      PROVE  /\ Still(r) /\ p'[r].children = p[r].children
             /\ p'[r].todo = p[r].todo /\ p'[r].snap = p[r].snap
             /\ \A y \in Held(r)' : y \in Held(r) \/ y = m
  <2>1. CASE r = z
    <3>1. /\ Elems(Put(p[z], m).inbox) = Elems(p[z].inbox) \cup {m}
          /\ Put(p[z], m).pc = p[z].pc /\ Put(p[z], m).open = p[z].open /\ Put(p[z], m).batch = p[z].batch
          /\ Put(p[z], m).rest = p[z].rest /\ Put(p[z], m).todo = p[z].todo /\ Put(p[z], m).ret = p[z].ret
          /\ Put(p[z], m).up = p[z].up /\ Put(p[z], m).children = p[z].children /\ Put(p[z], m).cur = p[z].cur
          /\ Put(p[z], m).snap = p[z].snap /\ Put(p[z], m).pill = p[z].pill
          /\ Put(p[z], m).cleanups = p[z].cleanups /\ Put(p[z], m).stopped = p[z].stopped
      BY <1>2, <1>3, <1>4, Pushed, ZenonT(40)
    <3> QED BY <1>6, <2>1, <3>1, ZenonT(40) DEF Still, Held
  <2>2. CASE r # z
    BY <1>6, <2>2, Zenon DEF Still, Held
  <2> QED BY <2>1, <2>2, Zenon
<1>8. TypeOK'
  <2>1. client' \in [Clients -> CallType]
    BY <1>1, <1>2, <1>5, Zenon
  <2>2. \A r \in Procs : p'[r].todo \cup p'[r].children \cup p'[r].snap \subseteq Kids(Id(r))
    BY <1>7, Zenon DEF IInv, TypeOK
  <2> QED BY <1>1, <1>6, <2>1, <2>2, Zenon DEF IInv, TypeOK
<1>9. \A r \in Procs : \A y \in Held(r)' : y \in Held(r) \/ y.by \notin Procs
  <2>1. m.by \notin Procs
    BY <1>4, Foreign, Zenon
  <2> QED BY <1>7, <2>1, Zenon
<1>10. ASSUME NEW y \in Clients PROVE Calling(y)'
  <2>1. CASE y = x
    BY <1>1, <1>2, <1>5, <2>1, Zenon DEF Calling
  <2>2. CASE y # x
    <3>1. Calling(y) /\ client'[y] = client[y]
      BY <1>1, <1>2, <2>2, Zenon DEF IInv, Known
    <3>2. \A r \in Procs : p'[r].pc = p[r].pc
      BY <1>7, Zenon DEF Still
    <3> QED BY <3>1, <3>2, Zenon DEF Calling, At
  <2> QED BY <2>1, <2>2, Zenon
<1> QED BY <1>1, <1>3, <1>6, <1>7, <1>8, <1>9, <1>10, Outside, Zenon
LEMMA PoisonPushStep ==
  ASSUME IInv, NEW q \in Procs, PoisonPush(q)
  PROVE  IInv'
<1> DEFINE z == p[q].cur
           m == ChildPill(q)
           h == [p[q] EXCEPT !.pc = "wait"]
           g == [p EXCEPT ![q] = h]
<1>1. /\ p[q].pc = "push" /\ UNCHANGED <<registry, client, done>>
      /\ p' = [g EXCEPT ![z] = Put(g[z], m)]
  BY Zenon DEF PoisonPush, At, Put
<1>2. /\ p \in [Procs -> ProcessType] /\ p[q] \in ProcessType /\ "wait" \in PCs
      /\ \A r \in Procs : p[r] \in ProcessType
  BY Typed, Zenon DEF PCs
<1>3. z \in Procs /\ z # NoProc /\ p[z].pc # "none" /\ Id(z) \in Kids(Id(q)) /\ Id(z) \in Actors
  BY <1>1, Typed, Zenon DEF Ready, At
<1>4. m \in Mail /\ m.by = q /\ m.kid = Id(z)
  <2>1. p[q].cleanups \in Nat
    BY <1>2, Zenon DEF ProcessType
  <2> QED BY <1>3, <2>1, Zenon DEF ChildPill, Msg, Mail, Id
<1>5. /\ h \in ProcessType /\ h.pc = "wait" /\ h.inbox = p[q].inbox /\ h.batch = p[q].batch
      /\ h.rest = p[q].rest /\ h.pill = p[q].pill
  BY <1>2, Zenon DEF ProcessType
<1>6. /\ g \in [Procs -> ProcessType] /\ g[q] = h /\ \A r \in Procs \ {q} : g[r] = p[r]
      /\ \A r \in Procs : /\ g[r].inbox = p[r].inbox /\ g[r].batch = p[r].batch
                          /\ g[r].rest = p[r].rest /\ g[r].pill = p[r].pill
  <2> HIDE DEF h
  <2>1. g \in [Procs -> ProcessType] /\ g[q] = h /\ \A r \in Procs \ {q} : g[r] = p[r]
    BY <1>2, <1>5, Zenon
  <2> QED BY <1>5, <2>1, Zenon
<1> HIDE DEF m, z, g
<1>7. /\ p' \in [Procs -> ProcessType] /\ p'[z] = Put(g[z], m) /\ \A r \in Procs \ {z} : p'[r] = g[r]
  BY <1>1, <1>3, <1>4, <1>6, Pushed, Zenon
<1>8. /\ Elems(Put(g[z], m).inbox) = Elems(g[z].inbox) \cup {m}
       /\ Put(g[z], m).pc = g[z].pc /\ Put(g[z], m).open = g[z].open /\ Put(g[z], m).batch = g[z].batch
       /\ Put(g[z], m).rest = g[z].rest /\ Put(g[z], m).todo = g[z].todo /\ Put(g[z], m).ret = g[z].ret
       /\ Put(g[z], m).up = g[z].up /\ Put(g[z], m).children = g[z].children /\ Put(g[z], m).cur = g[z].cur
       /\ Put(g[z], m).snap = g[z].snap /\ Put(g[z], m).pill = g[z].pill
       /\ Put(g[z], m).cleanups = g[z].cleanups /\ Put(g[z], m).stopped = g[z].stopped
  <2>1. g[z] \in ProcessType
    BY <1>3, <1>6, Zenon
  <2> QED BY <1>4, <2>1, Pushed, Zenon
<1>9. ASSUME NEW r \in Procs \ {q}
      PROVE  /\ Still(r) /\ p'[r].children = p[r].children /\ p'[r].todo = p[r].todo
             /\ p[r].pc = "none" => p'[r] = p[r]
  <2>1. CASE r = z
    <3>1. g[z] = p[z] /\ p'[z] = Put(g[z], m)
      BY <1>6, <1>7, <2>1, Zenon
    <3> QED BY <1>3, <1>8, <2>1, <3>1, Zenon DEF Still
  <2>2. CASE r # z
    BY <1>6, <1>7, <2>2, Zenon DEF Still
  <2> QED BY <2>1, <2>2, Zenon
<1>10. /\ p'[q].pc = "wait" /\ p'[q].children = p[q].children /\ p'[q].todo = p[q].todo
      /\ p'[q].open = p[q].open /\ p'[q].up = p[q].up /\ p'[q].cur = z /\ p'[q].snap = p[q].snap
      /\ p'[q].pill = p[q].pill /\ p'[q].cleanups = p[q].cleanups /\ p'[q].stopped = p[q].stopped
  <2>1. /\ h.pc = "wait" /\ h.children = p[q].children /\ h.todo = p[q].todo
        /\ h.open = p[q].open /\ h.up = p[q].up /\ h.cur = z /\ h.snap = p[q].snap
        /\ h.pill = p[q].pill /\ h.cleanups = p[q].cleanups /\ h.stopped = p[q].stopped
    BY <1>2, Zenon DEF ProcessType, z
  <2> HIDE DEF h
  <2>2. CASE q = z
    <3>1. g[z] = h /\ p'[q] = Put(g[z], m)
      BY <1>6, <1>7, <2>2, Zenon
    <3> QED BY <1>8, <2>1, <3>1, ZenonT(40)
  <2>3. CASE q # z
    <3>1. p'[q] = h
      BY <1>6, <1>7, <2>3, Zenon
    <3> QED BY <2>1, <3>1, Zenon
  <2> QED BY <2>2, <2>3, Zenon
<1> HIDE DEF h
<1>11. \A r \in Procs : \A y \in Held(r)' : y \in Held(r) \/ (y = m /\ r = z)
  <2>1. ASSUME NEW r \in Procs, r = z, NEW y \in Held(r)' PROVE y \in Held(r) \/ y = m
    <3>1. /\ g[z].inbox = p[z].inbox /\ g[z].batch = p[z].batch
          /\ g[z].rest = p[z].rest /\ g[z].pill = p[z].pill /\ p'[z] = Put(g[z], m)
      BY <1>3, <1>6, <1>7, Zenon
    <3>2. /\ Elems(p'[r].inbox) = Elems(p[r].inbox) \cup {m} /\ p'[r].batch = p[r].batch
          /\ p'[r].rest = p[r].rest /\ p'[r].pill = p[r].pill
      BY <1>8, <2>1, <3>1, Zenon
    <3>3. y \in Elems(p'[r].inbox) \cup Elems(p'[r].batch) \cup Elems(p'[r].rest) \cup {p'[r].pill}
      BY <2>1, Zenon DEF Held
    <3> QED BY <3>2, <3>3, Zenon DEF Held
  <2>2. ASSUME NEW r \in Procs \ {z} PROVE Held(r)' = Held(r)
    BY <1>6, <1>7, Zenon DEF Held
  <2> QED BY <2>1, <2>2, Zenon
<1>12. TypeOK'
  <2>1. \A r \in Procs : p'[r].todo \cup p'[r].children \cup p'[r].snap \subseteq Kids(Id(r))
    BY <1>9, <1>10, ZenonT(40) DEF IInv, TypeOK, Still
  <2> QED BY <1>1, <1>7, <2>1, Zenon DEF IInv, TypeOK
<1>13. Unstarted' /\ Known'
  <2>1. /\ \A r \in Procs : p'[r].pc = "none" <=> p[r].pc = "none"
        /\ \A r \in Procs : p[r].pc = "none" => p'[r] = p[r]
    <3>1. p[q].pc # "none" /\ p'[q].pc # "none"
      BY <1>1, <1>10, Zenon
    <3> QED BY <1>9, <3>1, Zenon DEF Still
  <2>2. \A a \in Actors : registry'[a] \in {registry[a], 0}
    BY <1>1, Zenon
  <2>3. /\ Unstarted'
        /\ \A r \in Procs : Ready(r) /\ Still(r) => Ready(r)'
        /\ \A x \in Clients : Calling(x) /\ client'[x] = client[x] => Calling(x)'
        /\ \A a \in Actors : registry'[a] # 0 => p'[<<a, registry'[a]>>].pc # "none"
    BY <1>7, <2>1, <2>2, KnownStays, Zenon DEF IInv
  <2>4. Ready(q)'
    <3>1. p[q].up # NoProc => p'[p[q].up].pc # "none"
      <4>1. p[q].up # NoProc => p[p[q].up].pc # "none"
        BY Typed, Zenon DEF Ready, At
      <4>2. p[q].up \in Procs \cup {NoProc}
        BY <1>2, Zenon DEF ProcessType, Refs
      <4> QED BY <2>1, <4>1, <4>2, Zenon
    <3>2. p[q].pill \in Mail /\ IsPill(p[q].pill)
      BY <1>1, Typed, Zenon DEF Ready, Cleaning
    <3> QED BY <1>3, <1>10, <3>1, <3>2, Zenon DEF Ready, At
  <2> QED BY <1>1, <1>9, <2>3, <2>4, Zenon DEF IInv, Known, At
<1>14. CleanedOnce' => CleanedOnce
  BY <1>9, <1>10, Zenon DEF CleanedOnce, Still
<1>15. ASSUME CleanedOnce' PROVE \A s \in Procs : Good(s)'
  <2>1. CleanedOnce /\ \A s \in Procs : Good(s)
    BY <1>14, <1>15, Zenon DEF IInv
  <2>2. ASSUME NEW s \in Procs, NEW r \in Procs PROVE Over(s, r)' <=> Over(s, r)
    BY <1>9, <1>10, ZenonT(40) DEF Over, Still
  <2>3. \A r \in Procs : p'[r].up = p[r].up
    BY <1>9, <1>10, Zenon DEF Still
  <2>4. Tables
    BY <1>1, <1>9, <1>10, ZenonT(40) DEF Tables, Still, At
  <2>5. ASSUME NEW s \in Procs PROVE Recorded(s)'
    <3>1. Live(s)' => Live(s)
      <4>1. p[q].pc # "none"
        BY <1>1, Zenon
      <4> QED BY <1>9, <1>10, <4>1, Zenon DEF Live, Still
    <3> QED BY <2>1, <2>3, <2>4, <3>1, Recording, Zenon DEF IInv, Good
  <2>6. ASSUME NEW s \in Procs \ {q} PROVE Good(s)'
    <3>1. Evolves(s)
      <4>1. \A r \in Procs : \A y \in Held(r)' : y.by = s => y \in Held(r)
        BY <1>4, <1>11, Zenon
      <4> QED BY <1>1, <2>2, <2>3, <4>1, Zenon DEF Evolves
    <3>2. Registered(s)'
      BY <1>1, <1>9, <2>1, ZenonT(40) DEF Good, Registered, Still, At
    <3> QED BY <1>9, <2>1, <2>5, <3>1, <3>2, Others, Zenon
  <2>7. Progress(q)' /\ Registered(q)' /\ Unasked(q)' /\ Finished(q)'
    <3>1. p[q].cleanups = 1 /\ ~p[q].stopped /\ Id(z) \notin p[q].snap /\ registry[Id(q)] = q[2]
      BY <1>1, <2>1, Zenon DEF Good, Progress, Registered, At, Cleaning, z
    <3>2. Progress(q)'
      BY <1>10, <3>1, Zenon DEF Progress, At, Cleaning
    <3>3. Registered(q)' /\ Finished(q)'
      BY <1>1, <1>10, <3>1, Zenon DEF Registered, Finished
    <3>4. Unasked(q)'
      BY <1>10, <3>1 DEF Unasked, At
    <3> QED BY <3>2, <3>3, <3>4, Zenon
  <2>8. Sweeping(q)'
    <3>1. /\ \A r \in Procs : Turn(q, r) /\ Asked(q, r)
          /\ Answered(q) /\ Last(q, z) /\ Id(z) \notin p[q].snap
      BY <1>1, <2>1, Zenon DEF Good, Sweeping, Progress, Sweep, Cleaning, At, z
    <3>2. \A r : Last(q, r) => Last(q, r)'
      BY <2>2, <2>3, Zenon DEF Last
    <3>3. ASSUME NEW r \in Procs PROVE Turn(q, r)'
      BY <1>10, <2>2, <2>3, <3>1, Zenon DEF Turn, z
    <3>4. ASSUME NEW r \in Procs, NEW y \in Held(r)', y.by = q
          PROVE  y.kid = Id(r) /\ Id(r) \notin p[q].snap /\ Last(q, r)'
      <4>1. CASE y \in Held(r)
        BY <3>1, <3>2, <3>4, <4>1, Zenon DEF Asked
      <4>2. CASE y = m /\ r = z
        BY <1>4, <3>1, <3>2, <4>2, Zenon
      <4> QED BY <1>11, <3>4, <4>1, <4>2, Zenon
    <3>5. ASSUME NEW r \in Procs PROVE Asked(q, r)'
      BY <1>10, <3>4, Zenon DEF Asked
    <3>6. Answered(q)'
      BY <1>1, <2>2, <2>3, <3>1, Zenon DEF Answered
    <3> QED BY <1>10, <3>3, <3>5, <3>6, Zenon DEF Sweeping, At
  <2> QED BY <2>5, <2>6, <2>7, <2>8, Zenon DEF Good
<1> QED BY <1>12, <1>13, <1>15, Zenon DEF IInv
LEMMA CleanupDetachStep ==
  ASSUME IInv, NEW q \in Procs, CleanupDetach(q)
  PROVE  IInv'
<1> DEFINE u == p[q].up
           n == p[q].cleanups + 1
           f == [p[q] EXCEPT !.pc = "children", !.cleanups = n]
           e == [p[u] EXCEPT !.children = @ \ {Id(q)}]
<1>1. /\ p[q].pc = "detach" /\ UNCHANGED <<registry, client, done>>
      /\ p' = [r \in Procs |-> IF r = q THEN f ELSE IF r = u THEN e ELSE p[r]]
  BY Zenon DEF CleanupDetach, At
<1>2. /\ p \in [Procs -> ProcessType] /\ p[q] \in ProcessType /\ "children" \in PCs
      /\ \A r \in Procs : p[r] \in ProcessType
      /\ p[q].cleanups \in Nat /\ u \in Procs \cup {NoProc}
  BY Typed, Zenon DEF PCs, ProcessType, Refs
<1>3. n \in Nat /\ n # 0 /\ (n <= 1 => p[q].cleanups = 0 /\ n = 1)
  BY <1>2
<1> HIDE DEF n
<1>4. /\ f \in ProcessType /\ f.pc = "children" /\ f.cleanups = n
      /\ f.open = p[q].open /\ f.inbox = p[q].inbox /\ f.batch = p[q].batch /\ f.rest = p[q].rest
      /\ f.todo = p[q].todo /\ f.up = p[q].up /\ f.children = p[q].children /\ f.snap = p[q].snap
      /\ f.pill = p[q].pill /\ f.stopped = p[q].stopped
  BY <1>2, <1>3, Zenon DEF ProcessType
<1>5. ASSUME u \in Procs
      PROVE  /\ e \in ProcessType /\ e.children = p[u].children \ {Id(q)} /\ e.pc = p[u].pc
             /\ e.open = p[u].open /\ e.inbox = p[u].inbox /\ e.batch = p[u].batch
             /\ e.rest = p[u].rest /\ e.todo = p[u].todo /\ e.ret = p[u].ret /\ e.up = p[u].up
             /\ e.cur = p[u].cur /\ e.snap = p[u].snap /\ e.pill = p[u].pill
             /\ e.cleanups = p[u].cleanups /\ e.stopped = p[u].stopped
  <2>1. p[u] \in ProcessType /\ p[u].children \in Ids
    BY <1>2, <1>5, Zenon DEF ProcessType
  <2>2. p[u].children \ {Id(q)} \in Ids
    BY <2>1, Zenon DEF Ids
  <2> HIDE DEF u
  <2> QED BY <2>1, <2>2, Zenon DEF ProcessType
<1> HIDE DEF e, f, u
<1>6. /\ p' \in [Procs -> ProcessType] /\ p'[q] = f
      /\ \A r \in Procs \ {q} : r = u => p'[r] = e
      /\ \A r \in Procs \ {q} : r # u => p'[r] = p[r]
  BY <1>1, <1>2, <1>4, <1>5, Zenon
<1>7. ASSUME NEW r \in Procs \ {q}
      PROVE  /\ Still(r) /\ p'[r].todo = p[r].todo /\ Held(r)' = Held(r)
             /\ p'[r].children \subseteq p[r].children
             /\ \A a \in p[r].children : a # Id(q) => a \in p'[r].children
  <2>1. CASE r = u
    BY <1>5, <1>6, <2>1, Zenon DEF Still, Held
  <2>2. CASE r # u
    BY <1>6, <2>2, Zenon DEF Still, Held
  <2> QED BY <2>1, <2>2, Zenon
<1>8. TypeOK'
  <2>1. \A r \in Procs : p'[r].todo \cup p'[r].children \cup p'[r].snap \subseteq Kids(Id(r))
    BY <1>4, <1>6, <1>7, ZenonT(40) DEF IInv, TypeOK, Still
  <2> QED BY <1>1, <1>6, <2>1, Zenon DEF IInv, TypeOK
<1>9. Unstarted' /\ Known'
  <2>1. u # NoProc => u \in Procs /\ p[u].pc # "none"
    BY <1>2, Typed, Zenon DEF Ready, At, u
  <2>2. NoProc \notin Procs
    BY SupervisionAssumption, Zenon DEF Procs, NoProc
  <2>3. /\ \A r \in Procs : p'[r].pc = "none" <=> p[r].pc = "none"
        /\ \A r \in Procs : p[r].pc = "none" => p'[r] = p[r]
    <3>1. p[q].pc # "none" /\ p'[q].pc # "none"
      BY <1>1, <1>4, <1>6, Zenon
    <3>2. \A r \in Procs \ {q} : p[r].pc = "none" => r # u
      BY <2>1, <2>2, Zenon
    <3> QED BY <1>6, <1>7, <3>1, <3>2, Zenon DEF Still
  <2>4. \A a \in Actors : registry'[a] \in {registry[a], 0}
    BY <1>1, Zenon
  <2>5. /\ Unstarted'
        /\ \A r \in Procs : Ready(r) /\ Still(r) => Ready(r)'
        /\ \A x \in Clients : Calling(x) /\ client'[x] = client[x] => Calling(x)'
        /\ \A a \in Actors : registry'[a] # 0 => p'[<<a, registry'[a]>>].pc # "none"
    BY <1>6, <2>3, <2>4, KnownStays, Zenon DEF IInv
  <2>6. Ready(q)'
    <3>1. p'[q].up = u /\ (u # NoProc => p'[u].pc # "none")
      BY <1>4, <1>6, <2>1, <2>3, Zenon DEF u
    <3>2. p'[q].pill \in Mail /\ IsPill(p'[q].pill)
      BY <1>1, <1>4, <1>6, Typed, Zenon DEF Ready
    <3>3. p'[q].pc = "children"
      BY <1>4, <1>6, Zenon
    <3> QED BY <3>1, <3>2, <3>3, Zenon DEF Ready, At
  <2> QED BY <1>1, <1>7, <2>5, <2>6, Zenon DEF IInv, Known, At
<1>10. CleanedOnce' => CleanedOnce /\ p[q].cleanups = 0 /\ n = 1
  <2>1. CleanedOnce' => p[q].cleanups = 0 /\ n = 1
    BY <1>3, <1>4, <1>6, Zenon DEF CleanedOnce
  <2>2. p[q].cleanups = 0 => p[q].cleanups <= 1
    BY <1>2
  <2> QED BY <1>7, <2>1, <2>2, Zenon DEF CleanedOnce, Still
<1>11. ASSUME CleanedOnce' PROVE \A s \in Procs : Good(s)'
  <2>1. CleanedOnce /\ (\A s \in Procs : Good(s)) /\ p[q].cleanups = 0 /\ n = 1
    BY <1>10, <1>11, Zenon DEF IInv
  <2>2. p[q].cleanups # 1
    BY <2>1
  <2>3. ~p[q].stopped /\ registry[Id(q)] = q[2]
    BY <1>1, <2>1, <2>2, Zenon DEF Good, Progress, Registered, At, Cleaning
  <2>4. \A r \in Procs : p'[r].up = p[r].up /\ Held(r)' = Held(r)
    BY <1>4, <1>6, <1>7, Zenon DEF Still, Held
  <2>5. ASSUME NEW s \in Procs, NEW r \in Procs, Over(s, r) PROVE Over(s, r)'
    BY <1>7, <2>2, <2>3, <2>5, Zenon DEF Over, Still
  <2>6. ASSUME NEW s \in Procs \ {q} PROVE Good(s)'
    <3>1. Evolves(s)
      BY <1>1, <2>4, <2>5, Zenon DEF Evolves
    <3>2. Registered(s)'
      BY <1>1, <1>7, <2>1, ZenonT(40) DEF Good, Registered, Still, At
    <3>3. Recorded(s)'
      <4> SUFFICES ASSUME Live(s), p[s].up # NoProc
                   PROVE  \/ Id(s) \in p'[p[s].up].children
                          \/ p'[p[s].up].pc = "record" /\ p'[p[s].up].cur = s
        BY <1>7, <2>4, Zenon DEF Recorded, Live, At, Still
      <4>1. Id(s) # Id(q)
        <5>1. registry[Id(s)] = s[2]
          BY <2>1, Zenon DEF Good, Registered, Live, At
        <5> QED BY <2>3, <5>1, SameProc, Zenon
      <4>2. p[s].up \in Procs
        BY <1>2, Zenon DEF ProcessType, Refs
      <4>3. \/ Id(s) \in p[p[s].up].children
            \/ p[p[s].up].pc = "record" /\ p[p[s].up].cur = s
        BY <2>1, Zenon DEF Good, Recorded, At
      <4>4. CASE p[s].up = q
        BY <1>1, <1>4, <1>6, <4>3, <4>4, Zenon
      <4>5. CASE p[s].up # q
        BY <1>7, <4>1, <4>2, <4>3, <4>5, Zenon DEF Still
      <4> QED BY <4>4, <4>5, Zenon
    <3> QED BY <1>7, <2>1, <3>1, <3>2, <3>3, Others, Zenon
  <2>7. Progress(q)' /\ Sweeping(q)' /\ Finished(q)' /\ Registered(q)'
    BY <1>1, <1>4, <1>6, <2>1, <2>3, Zenon DEF Progress, Sweeping, Finished, Registered, At, Cleaning, Sweep
  <2>8. Recorded(q)'
    BY <1>3, <1>4, <1>6, Zenon DEF Recorded, Live
  <2>9. Unasked(q)'
    BY <1>1, <2>1, <2>4, Zenon DEF Good, Unasked
  <2> QED BY <2>6, <2>7, <2>8, <2>9, Zenon DEF Good
<1> QED BY <1>8, <1>9, <1>11, Zenon DEF IInv
\* SpawnChild of an id that is taken.
LEMMA SpawnRefused ==
  ASSUME IInv, NEW q \in Procs, NEW c \in p[q].todo, p[q].pc = "receive",
         UNCHANGED <<registry, client, done>>,
         p' = [p EXCEPT ![q].pc = "record", ![q].cur = <<c, 0>>]
  PROVE  IInv'
<1> DEFINE f == [p[q] EXCEPT !.pc = "record", !.cur = <<c, 0>>]
<1>1. p[q] \in ProcessType /\ "record" \in PCs /\ c \in Kids(Id(q)) /\ c \in Actors
  BY Typed, Zenon DEF PCs
<1>2. <<c, 0>> \in Names /\ <<c, 0>> # NoProc /\ Id(<<c, 0>>) = c
  BY <1>1, SupervisionAssumption DEF Names, NoProc, Id
<1>3. f \in ProcessType /\ p' = [p EXCEPT ![q] = f]
  BY <1>1, <1>2, Zenon DEF ProcessType
<1>4. /\ f.pc = "record" /\ f.cur = <<c, 0>> /\ f.todo = p[q].todo /\ f.children = p[q].children
      /\ f.up = p[q].up /\ f.cleanups = p[q].cleanups /\ f.stopped = p[q].stopped
      /\ f.snap = p[q].snap /\ f.inbox = p[q].inbox /\ f.batch = p[q].batch /\ f.rest = p[q].rest
      /\ f.pill = p[q].pill /\ f.open = p[q].open /\ f.ret = p[q].ret
  BY <1>1, Zenon DEF ProcessType
<1> HIDE DEF f
<1>5. f.todo \cup f.children \subseteq Kids(Id(q))
  BY <1>4, Typed, Zenon
<1>6. Progress(q) /\ p[q].stopped => f.open
  BY <1>4, Zenon DEF Progress, At
<1>7. f.ret = "drain" => f.pill \in Mail /\ IsPill(f.pill)
  BY <1>4, Typed, Zenon DEF Ready
<1>8. \A m \in Elems(f.inbox) \cup Elems(f.batch) \cup Elems(f.rest) \cup {f.pill} : m \in Held(q)
  BY <1>4, Typed, Zenon
<1>9. f.cur # NoProc /\ Id(f.cur) \in Kids(Id(q))
  BY <1>1, <1>2, <1>4, Zenon
<1>10. /\ p[q].pc \in {"receive", "record", "inbox", "loop", "next", "drain"}
       /\ f.pc \in {"receive", "record", "inbox", "loop", "next", "drain", "detach"}
       /\ p[q].children \subseteq f.children
       /\ p[q].pc = "record" => Id(p[q].cur) \in f.children
       /\ p[q].open => f.open
  BY <1>4, Zenon
<1>11. \/ f.pc \in {"drain", "detach"}
       \/ f.pc \in {"receive", "record"} /\ f.ret = "drain"
       => f.pill \in Mail /\ IsPill(f.pill)
  BY <1>4, <1>7, Zenon
<1>12. Progress(q) /\ p[q].stopped /\ ~f.open =>
         f.pc \in {"loop", "inbox"} \/ (f.pc = "next" /\ f.batch = <<>>)
  BY <1>6, Zenon
<1>13. /\ f.up = p[q].up /\ f.cleanups = p[q].cleanups /\ f.stopped = p[q].stopped
       /\ f.snap = p[q].snap
  BY <1>4, Zenon
<1> QED BY <1>3, <1>5, <1>8, <1>9, <1>10, <1>11, <1>12, <1>13, Working, ZenonT(40)

\* SpawnChild of an id that is free.
LEMMA SpawnAccepted ==
  ASSUME IInv, NEW q \in Procs, NEW c \in p[q].todo, p[q].pc = "receive", registry[c] = 0,
         NEW new \in Procs, Id(new) = c, p[new].pc = "none",
         registry' = [registry EXCEPT ![c] = new[2]],
         p' = [p EXCEPT ![new] = Process(q, Kids(c)), ![q].pc = "record", ![q].cur = new],
         UNCHANGED <<client, done>>
  PROVE  IInv'
<1> DEFINE e == Process(q, Kids(c))
           f == [p[q] EXCEPT !.pc = "record", !.cur = new]
<1>1. /\ p \in [Procs -> ProcessType] /\ p[q] \in ProcessType /\ c \in Kids(Id(q)) /\ c \in Actors
      /\ \A r \in Procs : p[r] \in ProcessType
      /\ "record" \in PCs /\ new \in Names /\ new # NoProc /\ q # NoProc /\ new # q
      /\ registry \in [Actors -> 0..MaxInc] /\ <<c, new[2]>> = new
      /\ new[2] \in 0..MaxInc /\ new[2] # 0
  <2>1. /\ new \in Names /\ new # NoProc /\ q # NoProc /\ <<Id(new), new[2]>> = new
        /\ new[2] \in 0..MaxInc /\ new[2] # 0
    BY SupervisionAssumption DEF Procs, Names, NoProc, Id
  <2>2. new # q
    BY Zenon
  <2> QED BY <2>1, <2>2, Typed, Zenon DEF IInv, TypeOK, PCs
<1>2. /\ f \in ProcessType /\ f.pc = "record" /\ f.cur = new /\ f.open = p[q].open
      /\ f.inbox = p[q].inbox /\ f.batch = p[q].batch /\ f.rest = p[q].rest /\ f.todo = p[q].todo
      /\ f.ret = p[q].ret /\ f.up = p[q].up /\ f.children = p[q].children /\ f.snap = p[q].snap
      /\ f.pill = p[q].pill /\ f.cleanups = p[q].cleanups /\ f.stopped = p[q].stopped
  BY <1>1, Zenon DEF ProcessType
<1>3. /\ e \in ProcessType
      /\ e.pc = "receive" /\ ~e.open /\ e.inbox = <<>> /\ e.batch = <<>> /\ e.rest = <<>>
      /\ e.todo = Kids(c) /\ e.ret = "inbox" /\ e.up = q /\ e.children = {} /\ e.cur = NoProc
      /\ e.snap = {} /\ e.pill = NoPill /\ e.cleanups = 0 /\ ~e.stopped
  <2>1. <<>> \in Mails /\ 0 \in Nat
    BY DEF Mails
  <2>2. /\ "receive" \in PCs /\ Kids(c) \in Ids /\ {} \in Ids /\ "inbox" \in Returns /\ q \in Refs
        /\ NoProc \in Names /\ NoPill \in Pills
    BY Zenon DEF PCs, Kids, Ids, Returns, Refs, Names, Pills
  <2> QED BY <2>1, <2>2, Zenon DEF Process, ProcessType
<1>4. /\ Unborn.pc = "none" /\ ~Unborn.stopped /\ Unborn.cleanups = 0 /\ Unborn.up = NoProc
      /\ p[new] = Unborn
  BY Zenon DEF Unborn, Process, IInv, Unstarted, At
<1> HIDE DEF e
<1>5. /\ p' \in [Procs -> ProcessType] /\ p'[new] = e /\ p'[q] = f
      /\ \A r \in Procs : r # new /\ r # q => p'[r] = p[r]
  <2>1. p' = [[p EXCEPT ![new] = e] EXCEPT ![q] = f]
    BY <1>1, Zenon DEF e
  <2> HIDE DEF f
  <2>2. /\ [p EXCEPT ![new] = e] \in [Procs -> ProcessType]
        /\ [p EXCEPT ![new] = e][new] = e
        /\ \A r \in Procs \ {new} : [p EXCEPT ![new] = e][r] = p[r]
    BY <1>1, <1>3, Zenon
  <2> DEFINE g == [p EXCEPT ![new] = e]
  <2>3. g \in [Procs -> ProcessType] /\ g[new] = e /\ p' = [g EXCEPT ![q] = f]
        /\ \A r \in Procs \ {new} : g[r] = p[r]
    BY <2>1, <2>2, Zenon
  <2> HIDE DEF g
  <2>4. p' \in [Procs -> ProcessType] /\ p'[q] = f
    BY <1>2, <2>3, ZenonT(40)
  <2>5. \A r \in Procs \ {q} : p'[r] = g[r]
    BY <2>3, Zenon
  <2> QED BY <1>1, <2>3, <2>4, <2>5, Zenon
<1> HIDE DEF f
<1>6. ASSUME NEW r \in Procs, r # new, r # q PROVE Still(r) /\ Held(r)' = Held(r)
  BY <1>5, <1>6, Zenon DEF Still, Held
<1>7. /\ registry' \in [Actors -> 0..MaxInc] /\ registry'[c] = new[2]
      /\ \A a \in Actors : a # c => registry'[a] = registry[a]
  BY <1>1, Zenon
<1>8. TypeOK'
  <2>1. \A r \in Procs : p'[r].todo \cup p'[r].children \cup p'[r].snap \subseteq Kids(Id(r))
    <3>1. \A r \in Procs : p[r].todo \cup p[r].children \cup p[r].snap \subseteq Kids(Id(r))
      BY Zenon DEF IInv, TypeOK
    <3>2. f.todo \cup f.children \cup f.snap \subseteq Kids(Id(q))
      BY <1>2, <3>1, Zenon
    <3>3. e.todo \cup e.children \cup e.snap \subseteq Kids(Id(new))
      BY <1>3, Zenon
    <3> QED BY <1>5, <3>1, <3>2, <3>3, Zenon
  <2> QED BY <1>5, <1>7, <2>1, Zenon DEF IInv, TypeOK
<1>9. Unstarted' /\ Known'
  <2>1. /\ p'[new].pc # "none" /\ p'[q].pc # "none"
        /\ \A r \in Procs : p[r].pc # "none" => p'[r].pc # "none"
    <3>1. p'[new].pc # "none" /\ p'[q].pc # "none"
      BY <1>2, <1>3, <1>5, Zenon
    <3> QED BY <1>5, <3>1, Zenon
  <2>2. Unstarted'
    BY <1>5, <2>1, Zenon DEF IInv, Unstarted, At
  <2>3. \A a \in Actors : registry'[a] # 0 => p'[<<a, registry'[a]>>].pc # "none"
    <3>1. ASSUME NEW a \in Actors, a # c, registry[a] # 0 PROVE <<a, registry[a]>> \in Procs
      BY <1>1, <3>1 DEF Procs
    <3> QED BY <1>1, <1>7, <2>1, <3>1, ZenonT(40) DEF IInv, Known, At
  <2>4. ASSUME NEW r \in Procs, r # new, r # q PROVE Ready(r)'
    <3>1. Ready(r) /\ p[r].up \in Procs \cup {NoProc} /\ p'[r] = p[r]
      BY <1>1, <1>5, <2>4, Typed, Zenon DEF ProcessType, Refs
    <3> QED BY <2>1, <3>1, Zenon DEF Ready, At
  <2>5. Ready(q)'
    <3>1. Ready(q) /\ p[q].up \in Procs \cup {NoProc}
      BY <1>1, Typed, Zenon DEF ProcessType, Refs
    <3>2. f.ret = "drain" => f.pill \in Mail /\ IsPill(f.pill)
      BY <1>2, <3>1, Zenon DEF Ready
    <3>3. "record" \notin Cleaning \cup {"drain", "detach", "cancel"}
      BY Zenon DEF Cleaning
    <3>4. /\ p'[q].up = p[q].up /\ p'[q].pc = "record" /\ p'[q].cur = new
          /\ p'[q].ret = f.ret /\ p'[q].pill = f.pill
      BY <1>2, <1>5, Zenon
    <3>5. p[q].up # NoProc => p'[p[q].up].pc # "none"
      BY <2>1, <3>1, Zenon DEF Ready, At
    <3> QED BY <1>1, <3>2, <3>3, <3>4, <3>5, Zenon DEF Ready, At
  <2>6. Ready(new)'
    <3>1. "receive" \notin Cleaning \cup {"drain", "detach", "cancel"}
      BY Zenon DEF Cleaning
    <3> QED BY <1>3, <1>5, <2>1, <3>1, Zenon DEF Ready, At
  <2>7. ASSUME NEW x \in Clients PROVE Calling(x)'
    BY <2>1, Zenon DEF IInv, Known, Calling, At
  <2> QED BY <2>2, <2>3, <2>4, <2>5, <2>6, <2>7, Zenon DEF Known, At
<1>10. CleanedOnce' => CleanedOnce
  <2>1. p[new].cleanups <= 1
    BY <1>4
  <2> QED BY <1>2, <1>5, <2>1, Zenon DEF CleanedOnce
<1>11. ASSUME CleanedOnce' PROVE \A s \in Procs : Good(s)'
  <2>1. CleanedOnce /\ \A s \in Procs : Good(s)
    BY <1>10, <1>11, Zenon DEF IInv
  <2>2. NoPill.by = NoProc /\ NoProc \notin Procs
    BY SupervisionAssumption, Zenon DEF NoPill, Msg, NoProc, Procs
  <2>3. ASSUME NEW s \in Procs, NEW r \in Procs, NEW m \in Held(r)', m.by = s PROVE m \in Held(r)
    <3>1. CASE r = new
      <4>1. m = NoPill
        BY <1>3, <1>5, <2>3, <3>1, ElemsEmpty, Zenon DEF Held
      <4> QED BY <2>2, <2>3, <4>1, Zenon
    <3>2. CASE r = q
      BY <1>2, <1>5, <2>3, <3>2, ZenonT(40) DEF Held
    <3>3. CASE r # new /\ r # q
      BY <1>6, <2>3, <3>3, Zenon
    <3> QED BY <3>1, <3>2, <3>3, Zenon
  <2>4. ASSUME NEW s \in Procs, NEW r \in Procs, Over(s, r) PROVE Over(s, r)'
    <3>1. ~Over(s, new)
      BY <1>4 DEF Over
    <3>2. r # new
      BY <2>4, <3>1, Zenon
    <3>3. CASE r = q
      BY <1>2, <1>5, <2>4, <3>3, ZenonT(40) DEF Over
    <3>4. CASE r # q
      BY <1>5, <2>4, <3>2, <3>4, Zenon DEF Over
    <3> QED BY <3>3, <3>4, Zenon
  <2>5. ASSUME NEW s \in Procs, s # new PROVE Registered(s)'
    <3>1. ~At(s, "none") /\ (p[s].cleanups = 0 \/ p[s].pc \in Cleaning \ {"stopped"}) => Id(s) # c
      <4>1. s[2] # 0
        BY DEF Procs
      <4> QED BY <2>1, <4>1, Zenon DEF Good, Registered
    <3>2. Id(s) # c => registry'[Id(s)] = registry[Id(s)]
      BY <1>7, Zenon DEF Procs, Id
    <3>3. CASE s = q
      <4>1. p'[q].pc \notin Cleaning /\ p'[q].cleanups = p[q].cleanups /\ p[q].pc # "none"
        BY <1>2, <1>5, Zenon DEF Cleaning
      <4> QED BY <2>1, <3>1, <3>2, <3>3, <4>1, Zenon DEF Good, Registered, At
    <3>4. CASE s # q
      BY <1>5, <2>1, <2>5, <3>1, <3>2, <3>4, Zenon DEF Good, Registered, At
    <3> QED BY <3>3, <3>4, Zenon
  <2>6. ASSUME NEW s \in Procs, s # new PROVE Recorded(s)'
    <3>1. p'[s].up = p[s].up /\ (Live(s)' => Live(s))
      <4>1. CASE s = q
        BY <1>2, <1>5, <4>1, ZenonT(40) DEF Live
      <4>2. CASE s # q
        BY <1>5, <2>6, <4>2, Zenon DEF Live
      <4> QED BY <4>1, <4>2, Zenon
    <3> SUFFICES ASSUME Live(s), p[s].up # NoProc
                 PROVE  \/ Id(s) \in p'[p[s].up].children
                        \/ p'[p[s].up].pc = "record" /\ p'[p[s].up].cur = s
      BY <3>1, Zenon DEF Recorded, At
    <3>2. p[s].up \in Procs /\ p[s].up # new
      BY <1>1, Typed, Zenon DEF ProcessType, Refs, Ready, At
    <3>3. \/ Id(s) \in p[p[s].up].children
          \/ p[p[s].up].pc = "record" /\ p[p[s].up].cur = s
      BY <2>1, Zenon DEF Good, Recorded, At
    <3>4. CASE p[s].up = q
      BY <1>2, <1>5, <3>3, <3>4, ZenonT(40)
    <3>5. CASE p[s].up # q
      BY <1>5, <3>2, <3>3, <3>5, Zenon
    <3> QED BY <3>4, <3>5, Zenon
  <2>7. ASSUME NEW s \in Procs, s # new, s # q PROVE Good(s)'
    <3>1. \A r \in Procs : p'[r].up = s => p[r].up = s
      <4>1. p'[new].up # s /\ p'[q].up = p[q].up
        BY <1>2, <1>3, <1>5, <2>7, ZenonT(40)
      <4> QED BY <1>5, <4>1, Zenon
    <3>2. Evolves(s)
      BY <2>3, <2>4, <3>1, Zenon DEF Evolves
    <3> QED BY <1>6, <2>1, <2>5, <2>6, <2>7, <3>2, Others, Zenon
  <2>8. Good(q)'
    <3>1. Progress(q) /\ (p[q].stopped => p[q].open) /\ "record" \notin Cleaning /\ "receive" \notin Cleaning
      BY <2>1, Zenon DEF Good, Progress, At, Cleaning
    <3>5. /\ p'[q].pc = "record" /\ p'[q].open = p[q].open /\ p'[q].stopped = p[q].stopped
          /\ p'[q].cleanups = p[q].cleanups
      BY <1>2, <1>5, Zenon
    <3>2. Progress(q)'
      <4>1. p[q].stopped <=> p[q].cleanups = 1
        BY <3>1, Zenon DEF Progress
      <4> QED BY <3>1, <3>5, <4>1, Zenon DEF Progress, At
    <3>3. Finished(q)' /\ Sweeping(q)'
      BY <1>2, <1>5, <3>1, ZenonT(40) DEF Finished, Sweeping, Sweep
    <3>4. Unasked(q)'
      BY <2>1, <2>3, <3>5, Zenon DEF Good, Unasked, At
    <3> QED BY <1>1, <2>5, <2>6, <3>2, <3>3, <3>4, Zenon DEF Good
  <2>9. Good(new)'
    <3>1. "receive" \notin Cleaning /\ 0 # 1
      BY DEF Cleaning
    <3>2. Progress(new)'
      BY <1>3, <1>5, <3>1, ZenonT(40) DEF Progress, At
    <3>3. Finished(new)' /\ Sweeping(new)'
      BY <1>3, <1>5, <3>1, Zenon DEF Finished, Sweeping, Sweep
    <3>4. Unasked(new)'
      <4>1. Unasked(new) /\ p[new].cleanups = 0
        BY <1>4, <2>1, Zenon DEF Good
      <4> QED BY <2>3, <4>1, Zenon DEF Unasked
    <3>5. Registered(new)'
      BY <1>7, Zenon DEF Registered
    <3>6. Recorded(new)'
      BY <1>2, <1>3, <1>5, Zenon DEF Recorded, At
    <3> QED BY <3>2, <3>3, <3>4, <3>5, <3>6, Zenon DEF Good
  <2> QED BY <2>7, <2>8, <2>9, Zenon
<1> QED BY <1>8, <1>9, <1>11, Zenon DEF IInv

LEMMA SpawnChildStep ==
  ASSUME IInv, NEW q \in Procs, NEW c \in Actors, SpawnChild(q, c)
  PROVE  IInv'
<1>1. p[q].pc = "receive" /\ c \in p[q].todo /\ UNCHANGED <<client, done>>
  BY Zenon DEF SpawnChild, At
<1>2. CASE registry[c] = 0
  <2>1. PICK new \in Unused(c) :
          /\ registry' = [registry EXCEPT ![c] = new[2]]
          /\ p' = [p EXCEPT ![new] = Process(q, Kids(c)), ![q].pc = "record", ![q].cur = new]
    BY <1>2, Zenon DEF SpawnChild
  <2>2. new \in Procs /\ Id(new) = c /\ p[new].pc = "none"
    BY Zenon DEF Unused, At
  <2> QED BY <1>1, <1>2, <2>1, <2>2, SpawnAccepted, Zenon
<1>3. CASE registry[c] # 0
  <2>1. p' = [p EXCEPT ![q].pc = "record", ![q].cur = <<c, 0>>] /\ UNCHANGED registry
    BY <1>3, Zenon DEF SpawnChild
  <2> QED BY <1>1, <2>1, SpawnRefused, Zenon
<1> QED BY <1>2, <1>3, Zenon
LEMMA InitIInv ==
  ASSUME Init
  PROVE  IInv
<1> DEFINE root(q) == Parent[Id(q)] = None /\ q[2] = 1
<1>1. ASSUME NEW q \in Procs
      PROVE  /\ root(q) => p[q] = Process(NoProc, Kids(Id(q))) /\ p[q].todo = Kids(Id(q)) /\ p[q].pc = "receive"
             /\ ~root(q) => p[q] = Unborn /\ p[q].todo = {} /\ p[q].pc = "none"
             /\ ~p[q].open /\ p[q].inbox = <<>> /\ p[q].batch = <<>> /\ p[q].rest = <<>>
             /\ p[q].ret = "inbox" /\ p[q].up = NoProc /\ p[q].children = {} /\ p[q].cur = NoProc
             /\ p[q].snap = {} /\ p[q].pill = NoPill /\ p[q].cleanups = 0 /\ ~p[q].stopped
             /\ p[q] \in ProcessType
  <2>1. /\ <<>> \in Mails /\ 0 \in Nat /\ Kids(Id(q)) \in Ids /\ {} \in Ids /\ "inbox" \in Returns
        /\ NoProc \in Refs /\ NoProc \in Names /\ NoPill \in Pills /\ "receive" \in PCs /\ "none" \in PCs
    BY DEF Mails, Kids, Ids, Returns, Refs, Names, Pills, PCs
  <2>2. p[q] = IF root(q) THEN Process(NoProc, Kids(Id(q))) ELSE Unborn
    BY Zenon DEF Init
  <2> HIDE DEF root
  <2>3. CASE root(q)
    <3>1. p[q] = Process(NoProc, Kids(Id(q)))
      BY <2>2, <2>3, Zenon
    <3>2. Process(NoProc, Kids(Id(q))) \in ProcessType
      BY <2>1, Zenon DEF Process, ProcessType
    <3>3. /\ p[q].todo = Kids(Id(q)) /\ p[q].pc = "receive" /\ ~p[q].begun /\ ~p[q].nested
          /\ ~p[q].open /\ p[q].inbox = <<>> /\ p[q].batch = <<>> /\ p[q].rest = <<>>
          /\ p[q].ret = "inbox" /\ p[q].up = NoProc /\ p[q].children = {} /\ p[q].cur = NoProc
          /\ p[q].snap = {} /\ p[q].pill = NoPill /\ p[q].cleanups = 0 /\ ~p[q].stopped
      BY <3>1 DEF Process
    <3> QED BY <2>1, <2>3, <3>1, <3>2, <3>3, Zenon
  <2>4. CASE ~root(q)
    <3>1. p[q] = Unborn
      BY <2>2, <2>4, Zenon
    <3> QED BY <2>1, <2>4, <3>1, ZenonT(40) DEF Unborn, Process, ProcessType
  <2> QED BY <2>3, <2>4, Zenon
<1>2. /\ registry \in [Actors -> 0..MaxInc]
      /\ \A a \in Actors : registry[a] = IF Parent[a] = None THEN 1 ELSE 0
  BY SupervisionAssumption DEF Init
<1>3. ASSUME NEW q \in Procs PROVE q[2] # 0 /\ Id(q) \in Actors /\ q # NoProc
  BY SupervisionAssumption DEF Procs, Id, NoProc
<1>4. ASSUME NEW a \in Actors PROVE <<a, 1>> \in Procs /\ Id(<<a, 1>>) = a /\ <<a, 1>>[2] = 1
  BY SupervisionAssumption DEF Procs, Id
<1>5. TypeOK
  <2>1. p \in [Procs -> ProcessType]
    <3>1. p = [q \in Procs |-> p[q]]
      BY Zenon DEF Init
    <3> QED BY <1>1, <3>1, Zenon
  <2>2. client \in [Clients -> CallType]
    BY Zenon DEF Init, CallType
  <2>3. done \subseteq Mail /\ \A m \in done : IsPill(m)
    BY Zenon DEF Init
  <2>4. \A q \in Procs : p[q].todo \cup p[q].children \cup p[q].snap \subseteq Kids(Id(q))
    BY <1>1, Zenon
  <2> QED BY <1>2, <2>1, <2>2, <2>3, <2>4, Zenon DEF TypeOK
<1>6. Unstarted
  BY <1>1, Zenon DEF Unstarted, At
<1>7. Known
  <2>1. ASSUME NEW a \in Actors, registry[a] # 0 PROVE ~At(<<a, registry[a]>>, "none")
    <3>1. registry[a] = 1 /\ Parent[a] = None
      BY <1>2, <2>1, Zenon
    <3>2. root(<<a, 1>>)
      BY <1>4, <3>1, Zenon
    <3> HIDE DEF root
    <3> QED BY <1>1, <1>4, <3>1, <3>2, Zenon DEF At
  <2>2. ASSUME NEW q \in Procs PROVE Ready(q)
    <3>1. p[q].pc \in {"receive", "none"} /\ p[q].up = NoProc /\ p[q].ret = "inbox"
      BY <1>1, Zenon
    <3> QED BY <3>1, Zenon DEF Ready, Cleaning, At
  <2>3. ASSUME NEW x \in Clients PROVE Calling(x)
    BY Zenon DEF Init, Calling
  <2> QED BY <2>1, <2>2, <2>3, Zenon DEF Known
<1>8. ASSUME NEW q \in Procs PROVE Good(q)
  <2>1. p[q].pc \in {"receive", "none"} /\ p[q].pc \notin Cleaning /\ 0 # 1
    <3>1. p[q].pc = "receive" \/ p[q].pc = "none"
      BY <1>1, Zenon
    <3> QED BY <3>1 DEF Cleaning
  <2>2. Recorded(q) /\ Sweeping(q) /\ Finished(q)
    BY <1>1, <2>1, Zenon DEF Recorded, Sweeping, Sweep, Finished, At
  <2>5. Progress(q)
    <3>1. /\ ~p[q].stopped /\ p[q].cleanups = 0 /\ p[q].snap = {}
          /\ p[q].pc \notin {"remove", "stopped", "cancel", "lookup", "push", "wait"}
      BY <1>1, <2>1, Zenon
    <3> QED BY <2>1, <3>1, Zenon DEF Progress, At
  <2>3. Registered(q)
    <3>1. root(q) => registry[Id(q)] = q[2]
      BY <1>2, <1>3, Zenon
    <3> HIDE DEF root
    <3> QED BY <1>1, <3>1, Zenon DEF Registered, At
  <2>4. Unasked(q)
    <3>1. NoPill.by = NoProc
      BY Zenon DEF NoPill, Msg
    <3>2. ASSUME NEW r \in Procs, NEW m \in Held(r) PROVE m.by # q
      BY <1>1, <1>3, <3>1, <3>2, ElemsEmpty, ZenonT(40) DEF Held
    <3> QED BY <3>2, Zenon DEF Unasked, Init
  <2> QED BY <2>2, <2>3, <2>4, <2>5, Zenon DEF Good
<1> QED BY <1>5, <1>6, <1>7, <1>8, Zenon DEF IInv

LEMMA StutterIInv ==
  ASSUME IInv, UNCHANGED vars
  PROVE  IInv'
<1>1. registry' = registry /\ p' = p /\ client' = client /\ done' = done
  BY Zenon DEF vars
<1>2. TypeOK' /\ Unstarted'
  BY <1>1, Zenon DEF IInv, TypeOK, Unstarted, At
<1>3. Known'
  BY <1>1, Zenon DEF IInv, Known, Ready, Calling, At
<1>4. CleanedOnce' => CleanedOnce
  BY <1>1, Zenon DEF CleanedOnce
<1>5. ASSUME NEW q \in Procs, Good(q) PROVE Good(q)'
  <2>1. Progress(q)' /\ Registered(q)' /\ Recorded(q)'
    BY <1>1, <1>5, Zenon DEF Good, Progress, Registered, Recorded, Live, At
  <2>2. Unasked(q)' /\ Finished(q)'
    BY <1>1, <1>5, Zenon DEF Good, Unasked, Held, Finished, Over, At
  <2>3. Sweeping(q)'
    BY <1>1, <1>5, ZenonT(40) DEF Good, Sweeping, Turn, Asked, Answered, Last, Over, Held, At
  <2> QED BY <2>1, <2>2, <2>3, Zenon DEF Good
<1> QED BY <1>2, <1>3, <1>4, <1>5, Zenon DEF IInv

LEMMA NextIInv ==
  ASSUME IInv, [Next]_vars
  PROVE  IInv'
<1>1. ASSUME NEW q \in Procs, Start(q) PROVE IInv'
  BY <1>1, SpawnChildStep, RecordChildStep, ReceiveReturnsStep, StartInboxStep, Zenon DEF Start
<1>2. ASSUME NEW q \in Procs, Work(q) PROVE IInv'
  BY <1>2, RunStep, InvokeStep, InvokeReturnsStep, InvokeDrainStep, Zenon DEF Work
<1>3. ASSUME NEW q \in Procs, Cleanup(q) PROVE IInv'
  BY <1>3, CleanupDetachStep, CleanupChildrenStep, PoisonChildStep, PoisonLookupStep, PoisonPushStep,
     PoisonDoneStep, CleanupStopInboxStep, CleanupRemoveStep, CleanupStoppedStep, CleanupCancelStep,
     Zenon DEF Cleanup
<1>4. ASSUME NEW x \in Clients, Send(x) PROVE IInv'
  BY <1>4, SendLocalStep, DeliverStep, Zenon DEF Send
<1>5. ASSUME NEW x \in Clients, NEW kind \in Kinds, NEW a \in Actors, Call(x, kind, a) PROVE IInv'
  BY <1>5, CallStep, Zenon
<1>6. CASE UNCHANGED vars
  BY <1>6, StutterIInv, Zenon
<1> QED BY <1>1, <1>2, <1>3, <1>4, <1>5, <1>6, Zenon DEF Next, Step

\* The inductive invariant of spawning and stopping, for every tree of actors,
\* every number of callers and every number of incarnations of an id.
THEOREM Invariance == Spec => []IInv
<1>1. Init => IInv
  BY InitIInv, Zenon
<1>2. IInv /\ [Next]_vars => IInv'
  BY NextIInv, Zenon
<1> QED BY <1>1, <1>2, PTL DEF Spec

\* Every variable of the model holds a value of its type, and a process only
\* ever records, spawns or stops ids that are children of its own.
THEOREM TypeCorrect == Spec => []TypeOK
<1>1. IInv => TypeOK
  BY Zenon DEF IInv
<1> QED BY <1>1, Invariance, PTL

\* A process that is not being stopped is the one its id stands for in the
\* registry: add refuses duplicates, and Remove, which goes by id alone, never
\* takes out a successor.
THEOREM LiveRegistered == Spec => []LiveIsRegistered
<1>1. IInv => LiveIsRegistered
  BY Zenon DEF IInv, Good, Registered, LiveIsRegistered, Live, At
<1> QED BY <1>1, Invariance, PTL

\* Every live child is in the table of its parent, or is about to be recorded
\* by the SpawnChild that started it.
THEOREM LiveRecorded == Spec => []ChildRecorded
<1>1. IInv => ChildRecorded
  BY Zenon DEF IInv, Good, Recorded, ChildRecorded
<1> QED BY <1>1, Invariance, PTL

\* When a process is sent Stopped, each child it ever spawned has been sent
\* Stopped before it, or is in a cleanup somebody else asked for.
THEOREM ChildrenBefore == Spec => []ChildrenFirst
<1>1. IInv => ChildrenFirst
  BY Zenon DEF IInv, Good, Finished, ChildrenFirst, Over
<1> QED BY <1>1, Invariance, PTL
=============================================================================
