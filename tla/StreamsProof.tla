---------------------------- MODULE StreamsProof ----------------------------
(***************************************************************************)
(* Proofs about Envelope and Streams, for any messages, with any types,     *)
(* senders and targets, and any number of faults.                           *)
(***************************************************************************)
EXTENDS Streams, FiniteSetTheorems, WellFoundedInduction, TLAPS

-----------------------------------------------------------------------------
(* Envelope: what the tables hold and what the indices point at *)

\* A set of naturals that is not empty has a least element: the intervals 1..n
\* are well-founded under strict inclusion.
LEMMA Least ==
  ASSUME NEW S \in SUBSET Nat, S # {}
  PROVE  \E m \in S : \A k \in S : m <= k
<1> DEFINE T == {1..n : n \in S}
<1>1. T \subseteq FiniteSubsetsOf(Nat) /\ T # {}
  <2>1. \A n \in Nat : IsFiniteSet(1..n) /\ 1..n \subseteq Nat
    BY FS_Interval
  <2> QED BY <2>1, Zenon DEF FiniteSubsetsOf
<1> HIDE DEF T
<1>2. \E x \in T : \A y \in T : <<y, x>> \notin StrictSubsetOrdering(Nat)
  BY <1>1, FS_StrictSubsetOrderingWellFounded, WFMin, Zenon
<1>3. PICK m \in S : \A k \in S : <<1..k, 1..m>> \notin StrictSubsetOrdering(Nat)
  BY <1>2, Zenon DEF T
<1>4. ASSUME NEW k \in S PROVE m <= k
  <2>1. ASSUME k < m PROVE FALSE
    <3>1. 1..k \subseteq 1..m /\ 1..k # 1..m /\ 1..k \subseteq Nat /\ 1..m \subseteq Nat
      <4>1. k \in Nat /\ m \in Nat /\ m \in 1..m /\ m \notin 1..k
        BY <2>1
      <4> QED BY <2>1, <4>1
    <3> QED BY <1>3, <3>1, Zenon DEF StrictSubsetOrdering
  <2> QED BY <2>1
<1> QED BY <1>4, Zenon

\* The place holds the element that is looked for.
LEMMA PlaceHolds ==
  ASSUME NEW S, NEW s \in Seq(S), NEW i \in 1..Len(s)
  PROVE  Place(s, s[i]) \in 1..Len(s) /\ s[Place(s, s[i])] = s[i]
<1> DEFINE I == {j \in 1..Len(s) : s[j] = s[i]}
<1>1. I \in SUBSET Nat /\ I # {} /\ DOMAIN s = 1..Len(s)
  OBVIOUS
<1>2. Place(s, s[i]) = Min(I)
  BY <1>1, Zenon DEF Place
<1> HIDE DEF I
<1>3. \E m \in I : \A k \in I : m <= k
  BY <1>1, Least, Zenon
<1>4. Min(I) \in I
  BY <1>3, Zenon DEF Min
<1> QED BY <1>2, <1>4, Zenon DEF I

\* It is that of the only occurrence, when there is one.
LEMMA PlaceOfOnly ==
  ASSUME NEW S, NEW s \in Seq(S), NEW i \in 1..Len(s),
         \A j \in 1..Len(s) : s[j] = s[i] => j = i
  PROVE  Place(s, s[i]) = i
BY PlaceHolds, Zenon

Contains(s, x) == x \in Range(s)

\* The keys of the first n messages of a batch, looked up one by one.
Lookups(t, f, msgs, n) ==
  \A k \in 0..n : t[k] = IF k = 0 THEN <<>> ELSE AddKey(t[k - 1], f[msgs[k]])

\* AddKey keeps what a table holds and adds a key that is not nil.
LEMMA AddsKey ==
  ASSUME NEW K, NEW table \in Seq(K), NEW key \in K
  PROVE  /\ AddKey(table, key) \in Seq(K)
         /\ \A k : Contains(table, k) => Contains(AddKey(table, key), k)
         /\ key # NoPID => Contains(AddKey(table, key), key)
<1>1. CASE key = NoPID \/ Contains(table, key)
  <2>1. AddKey(table, key) = table
    BY <1>1, Zenon DEF AddKey, Contains
  <2> QED BY <1>1, <2>1, Zenon
<1>2. CASE ~(key = NoPID \/ Contains(table, key))
  <2>1. AddKey(table, key) = Append(table, key)
    BY <1>2, Zenon DEF AddKey, Contains
  <2> QED BY <2>1 DEF Contains, Range
<1> QED BY <1>1, <1>2, Zenon

\* The tables of a batch exist: the loop of Invoke has a table for every prefix.
LEMMA TablesExist ==
  ASSUME NEW f, NEW K, NEW msgs, Len(msgs) \in Nat,
         \A k \in 1..Len(msgs) : f[msgs[k]] \in K
  PROVE  \E t \in [0..Len(msgs) -> Seq(K)] : Lookups(t, f, msgs, Len(msgs))
<1> DEFINE L == Len(msgs)
           Has(n) == \E t \in [0..n -> Seq(K)] : Lookups(t, f, msgs, n)
           G == {n \in Nat : n <= L /\ ~Has(n)}
<1>1. SUFFICES ASSUME G # {} PROVE FALSE
  <2>1. L \in Nat /\ L <= L
    OBVIOUS
  <2> HIDE DEF L
  <2>2. L \in G \/ Has(L)
    BY <2>1, Zenon
  <2> QED BY <1>1, <2>2, Zenon DEF L
<1>2. PICK m \in G : \A k \in G : m <= k
  <2>1. G \in SUBSET Nat
    BY Zenon
  <2> HIDE DEF G
  <2> QED BY <2>1, <1>1, Least, Zenon
<1>3. CASE m = 0
  <2> DEFINE t == [k \in 0..0 |-> <<>>]
  <2>1. t \in [0..0 -> Seq(K)] /\ \A k \in 0..0 : k = 0 /\ t[k] = <<>>
    OBVIOUS
  <2>2. Lookups(t, f, msgs, 0)
    BY <2>1, Zenon DEF Lookups
  <2> QED BY <1>3, <2>1, <2>2, Zenon
<1>4. CASE m # 0
  <2>1. m \in Nat /\ m <= L /\ L \in Nat /\ m - 1 \in Nat /\ m - 1 <= L /\ ~(m <= m - 1)
    BY <1>4
  <2>2. m - 1 \notin G
    BY <2>1, <1>2, Zenon
  <2>3. Has(m - 1)
    BY <2>1, <2>2, Zenon
  <2>4. PICK t \in [0..(m - 1) -> Seq(K)] : Lookups(t, f, msgs, m - 1)
    BY <2>3, Zenon
  <2> DEFINE last == AddKey(t[m - 1], f[msgs[m]])
             u == [k \in 0..m |-> IF k = m THEN last ELSE t[k]]
  <2>5. m \in 1..Len(msgs) /\ m - 1 \in 0..(m - 1)
    BY <2>1
  <2>6. last \in Seq(K)
    BY <2>4, <2>5, AddsKey, Zenon
  <2>7. \A k \in 0..m : k = m \/ (k \in 0..(m - 1) /\ k # m)
    BY <2>1
  <2>8. \A k \in 0..(m - 1) : k \in 0..m /\ k # m /\ (k # 0 => k - 1 \in 0..(m - 1))
    BY <2>1
  <2>9. 0 \in 0..m /\ m \in 0..m
    BY <2>1
  <2> HIDE DEF last
  <2>10. u \in [0..m -> Seq(K)]
    BY <2>4, <2>6, <2>7, Zenon
  <2>11. u[m] = last /\ \A k \in 0..(m - 1) : u[k] = t[k]
    BY <2>8, <2>9, Zenon
  <2> HIDE DEF u
  <2>12. ASSUME NEW k \in 0..m
         PROVE  u[k] = IF k = 0 THEN <<>> ELSE AddKey(u[k - 1], f[msgs[k]])
    <3>1. CASE k = m
      BY <3>1, <1>4, <2>5, <2>11, Zenon DEF last
    <3>2. CASE k \in 0..(m - 1)
      <4>1. t[k] = IF k = 0 THEN <<>> ELSE AddKey(t[k - 1], f[msgs[k]])
        BY <2>4, <3>2, Zenon DEF Lookups
      <4> QED BY <4>1, <3>2, <2>8, <2>11, Zenon
    <3> QED BY <3>1, <3>2, <2>7, Zenon
  <2>13. Has(m)
    BY <2>10, <2>12, Zenon DEF Lookups
  <2> QED BY <2>13, Zenon
<1> QED BY <1>3, <1>4, Zenon

\* Table is the last of them.
LEMMA TableIsLast ==
  ASSUME NEW f, NEW K, NEW msgs, Len(msgs) \in Nat,
         \A k \in 1..Len(msgs) : f[msgs[k]] \in K
  PROVE  \E t : Lookups(t, f, msgs, Len(msgs)) /\ Table(f, msgs) = t[Len(msgs)]
<1>1. PICK g \in [0..Len(msgs) -> Seq(K)] : Lookups(g, f, msgs, Len(msgs))
  BY TablesExist, Zenon
<1>2. g = [n \in 0..Len(msgs) |->
             IF n = 0 THEN <<>> ELSE AddKey(g[n - 1], f[msgs[n]])]
  BY <1>1, Zenon DEF Lookups
<1>3. PICK t : /\ t = [n \in 0..Len(msgs) |->
                         IF n = 0 THEN <<>> ELSE AddKey(t[n - 1], f[msgs[n]])]
               /\ Table(f, msgs) = t[Len(msgs)]
  BY <1>2, Zenon DEF Table
<1> QED BY <1>3, Zenon DEF Lookups

\* The table of a batch has the key of every message of it that is not nil.
LEMMA TableHolds ==
  ASSUME NEW f, NEW K, NEW msgs, Len(msgs) \in Nat,
         \A k \in 1..Len(msgs) : f[msgs[k]] \in K
  PROVE  /\ Table(f, msgs) \in Seq(K)
         /\ \A k \in 1..Len(msgs) : f[msgs[k]] # NoPID =>
              Contains(Table(f, msgs), f[msgs[k]])
<1> DEFINE L == Len(msgs)
<1>1. PICK t : Lookups(t, f, msgs, L) /\ Table(f, msgs) = t[L]
  BY TableIsLast, Zenon
<1> DEFINE Holds(n) == /\ t[n] \in Seq(K)
                       /\ \A k \in 1..n : f[msgs[k]] # NoPID =>
                            Contains(t[n], f[msgs[k]])
           G == {n \in Nat : n <= L /\ ~Holds(n)}
<1>2. SUFFICES ASSUME G # {} PROVE FALSE
  <2>1. L \in Nat /\ L <= L
    OBVIOUS
  <2> HIDE DEF L
  <2>2. L \in G \/ Holds(L)
    BY <2>1, Zenon
  <2> QED BY <1>1, <1>2, <2>2, Zenon DEF L
<1>3. PICK m \in G : \A k \in G : m <= k
  <2>1. G \in SUBSET Nat
    BY Zenon
  <2> HIDE DEF G
  <2> QED BY <2>1, <1>2, Least, Zenon
<1>4. CASE m = 0
  <2>1. 0 \in 0..L
    OBVIOUS
  <2>2. t[0] = <<>>
    BY <1>1, <2>1, Zenon DEF Lookups
  <2>3. t[0] \in Seq(K) /\ 1..0 = {}
    BY <2>2
  <2> QED BY <1>4, <2>3, Zenon
<1>5. CASE m # 0
  <2>1. /\ m \in Nat /\ m <= L /\ L \in Nat /\ m - 1 \in Nat /\ m - 1 <= L
        /\ ~(m <= m - 1) /\ m \in 0..L /\ m \in 1..L
    BY <1>5
  <2>2. m - 1 \notin G
    BY <2>1, <1>3, Zenon
  <2>3. Holds(m - 1)
    BY <2>1, <2>2, Zenon
  <2>4. t[m] = AddKey(t[m - 1], f[msgs[m]])
    BY <1>1, <1>5, <2>1, Zenon DEF Lookups
  <2>5. /\ t[m] \in Seq(K)
        /\ \A k : Contains(t[m - 1], k) => Contains(t[m], k)
        /\ f[msgs[m]] # NoPID => Contains(t[m], f[msgs[m]])
    <3>1. t[m - 1] \in Seq(K) /\ f[msgs[m]] \in K
      BY <2>1, <2>3, Zenon
    <3>2. \A table \in Seq(K) : \A key \in K :
             /\ AddKey(table, key) \in Seq(K)
             /\ \A k : Contains(table, k) => Contains(AddKey(table, key), k)
             /\ key # NoPID => Contains(AddKey(table, key), key)
      BY AddsKey, Zenon
    <3> QED BY <3>1, <3>2, <2>4, ZenonT(40)
  <2>6. \A k \in 1..m : k = m \/ k \in 1..(m - 1)
    BY <2>1
  <2>7. ASSUME NEW k \in 1..m, f[msgs[k]] # NoPID
        PROVE  Contains(t[m], f[msgs[k]])
    BY <2>3, <2>5, <2>6, <2>7, Zenon
  <2> QED BY <2>5, <2>7, Zenon
<1> QED BY <1>4, <1>5, Zenon

\* The index of the key of a message leads back to the key.
LEMMA IndexLeadsBack ==
  ASSUME NEW f, NEW K, NEW msgs, Len(msgs) \in Nat,
         \A k \in 1..Len(msgs) : f[msgs[k]] \in K,
         NEW i \in 1..Len(msgs), f[msgs[i]] # NoPID
  PROVE  /\ Table(f, msgs)[IndexOf(Table(f, msgs), f[msgs[i]]) + 1] = f[msgs[i]]
         /\ Table(f, msgs) # <<>>
<1> DEFINE table == Table(f, msgs)
<1>1. table \in Seq(K) /\ Contains(table, f[msgs[i]])
  BY TableHolds, Zenon
<1>2. PICK j \in 1..Len(table) : table[j] = f[msgs[i]]
  BY <1>1 DEF Contains, Range
<1>3. IndexOf(table, f[msgs[i]]) = Place(table, table[j]) - 1
  BY <1>2, Zenon DEF IndexOf
<1>4. Place(table, table[j]) \in 1..Len(table) /\ table[Place(table, table[j])] = table[j]
  BY <1>1, PlaceHolds, Zenon
<1> HIDE DEF table
<1>5. (Place(table, table[j]) - 1) + 1 = Place(table, table[j]) /\ table # <<>>
  BY <1>1, <1>4
<1> QED BY <1>2, <1>3, <1>4, <1>5, Zenon DEF table

\* What is delivered for one message carries its own type, target and sender.
Attributed(r) ==
  r.data # Empty.data =>
    /\ r.type = Type[r.data] /\ r.target = Target[r.data]
    /\ Sender[r.data] # NoPID => r.sender = Sender[r.data]

\* Unpacking what Invoke packs gives one message for each of the batch, with
\* the same data or, where Serialize failed, with none, and attributed to it.
LEMMA Unpacks ==
  ASSUME NEW msgs \in Seq(Msgs)
  PROVE  /\ Decode(Encode(msgs)) = [k \in 1..Len(msgs) |-> Decode(Encode(msgs))[k]]
         /\ \A k \in 1..Len(msgs) :
              /\ Attributed(Decode(Encode(msgs))[k])
              /\ Decode(Encode(msgs))[k].data \in {msgs[k], Empty.data}
<1> DEFINE env == Encode(msgs)
           K(f) == {f[m] : m \in Msgs}
<1>1. Len(msgs) \in Nat /\ DOMAIN msgs = 1..Len(msgs) /\ \A k \in 1..Len(msgs) : msgs[k] \in Msgs
  OBVIOUS
<1>2. DOMAIN env.messages = 1..Len(msgs)
  BY <1>1, Zenon DEF Encode
<1>3. /\ env.types = Table(Type, msgs) /\ env.senders = Table(Sender, msgs)
      /\ env.targets = Table(Target, msgs)
  BY Zenon DEF Encode
<1>4. ASSUME NEW k \in 1..Len(msgs)
      PROVE  env.messages[k] = IF msgs[k] \in Unmarshalable THEN Empty
                ELSE [data |-> msgs[k],
                      type |-> IndexOf(env.types, Type[msgs[k]]),
                      sender |-> IndexOf(env.senders, Sender[msgs[k]]),
                      target |-> IndexOf(env.targets, Target[msgs[k]])]
  BY <1>1, Zenon DEF Encode
<1> HIDE DEF env
<1> DEFINE dec == Decode(env)
<1>5. /\ dec = [k \in 1..Len(msgs) |-> dec[k]]
      /\ \A k \in 1..Len(msgs) :
           /\ dec[k].data = env.messages[k].data
           /\ dec[k].type = env.types[env.messages[k].type + 1]
           /\ dec[k].target = env.targets[env.messages[k].target + 1]
           /\ dec[k].sender = IF env.senders # <<>>
                THEN env.senders[env.messages[k].sender + 1] ELSE NoPID
  BY <1>2, Zenon DEF Decode
<1> HIDE DEF dec
<1>6. ASSUME NEW k \in 1..Len(msgs), msgs[k] \in Unmarshalable
      PROVE  dec[k].data = Empty.data
  BY <1>4, <1>5, <1>6, Zenon
<1>7. ASSUME NEW k \in 1..Len(msgs), msgs[k] \notin Unmarshalable
      PROVE  dec[k].data = msgs[k] /\ Attributed(dec[k])
  <2>1. /\ env.messages[k].data = msgs[k]
        /\ env.messages[k].type = IndexOf(env.types, Type[msgs[k]])
        /\ env.messages[k].sender = IndexOf(env.senders, Sender[msgs[k]])
        /\ env.messages[k].target = IndexOf(env.targets, Target[msgs[k]])
    <3> DEFINE t == IndexOf(env.types, Type[msgs[k]])
               s == IndexOf(env.senders, Sender[msgs[k]])
               g == IndexOf(env.targets, Target[msgs[k]])
    <3>1. env.messages[k] = [data |-> msgs[k], type |-> t, sender |-> s, target |-> g]
      BY <1>4, <1>7, Zenon
    <3> HIDE DEF t, s, g
    <3>2. /\ env.messages[k].data = msgs[k] /\ env.messages[k].type = t
          /\ env.messages[k].sender = s /\ env.messages[k].target = g
      BY <3>1
    <3> QED BY <3>2, Zenon DEF t, s, g
  <2>2. Type[msgs[k]] # NoPID /\ Target[msgs[k]] # NoPID
    BY <1>1, EnvelopeAssumption, Zenon
  <2>3. env.types[IndexOf(env.types, Type[msgs[k]]) + 1] = Type[msgs[k]]
    <3>1. \A l \in 1..Len(msgs) : Type[msgs[l]] \in K(Type)
      BY <1>1, Zenon
    <3> HIDE DEF K
    <3>2. /\ Table(Type, msgs)[IndexOf(Table(Type, msgs), Type[msgs[k]]) + 1] = Type[msgs[k]]
          /\ Table(Type, msgs) # <<>>
      BY <3>1, <1>1, <2>2, IndexLeadsBack, Zenon
    <3> QED BY <3>2, <1>3, Zenon
  <2>4. env.targets[IndexOf(env.targets, Target[msgs[k]]) + 1] = Target[msgs[k]]
    <3>1. \A l \in 1..Len(msgs) : Target[msgs[l]] \in K(Target)
      BY <1>1, Zenon
    <3> HIDE DEF K
    <3>2. /\ Table(Target, msgs)[IndexOf(Table(Target, msgs), Target[msgs[k]]) + 1] = Target[msgs[k]]
          /\ Table(Target, msgs) # <<>>
      BY <3>1, <1>1, <2>2, IndexLeadsBack, Zenon
    <3> QED BY <3>2, <1>3, Zenon
  <2>5. Sender[msgs[k]] # NoPID =>
          /\ env.senders[IndexOf(env.senders, Sender[msgs[k]]) + 1] = Sender[msgs[k]]
          /\ env.senders # <<>>
    <3>1. \A l \in 1..Len(msgs) : Sender[msgs[l]] \in K(Sender)
      BY <1>1, Zenon
    <3> HIDE DEF K
    <3>2. ASSUME Sender[msgs[k]] # NoPID
          PROVE  /\ Table(Sender, msgs)[IndexOf(Table(Sender, msgs), Sender[msgs[k]]) + 1]
                      = Sender[msgs[k]]
                 /\ Table(Sender, msgs) # <<>>
      BY <3>1, <3>2, <1>1, IndexLeadsBack, Zenon
    <3> QED BY <3>2, <1>3, Zenon
  <2>6. /\ dec[k].data = msgs[k]
        /\ dec[k].type = Type[msgs[k]] /\ dec[k].target = Target[msgs[k]]
    BY <1>5, <2>1, <2>3, <2>4, Zenon
  <2>7. Sender[msgs[k]] # NoPID => dec[k].sender = Sender[msgs[k]]
    BY <1>5, <2>1, <2>5, Zenon
  <2> QED BY <2>6, <2>7, Zenon DEF Attributed
<1>8. ASSUME NEW k \in 1..Len(msgs)
      PROVE  Attributed(dec[k]) /\ dec[k].data \in {msgs[k], Empty.data}
  BY <1>6, <1>7, Zenon DEF Attributed
<1> QED BY <1>5, <1>8, Zenon DEF env, dec

-----------------------------------------------------------------------------
(* The types of the state *)

Inboxes == {"open", "stopped"}
Conns == {"none", "up", "ended", "closed", "no deadline"}
Shuts == {"none", "notify", "stop", "remove", "done"}
Pcs == {"idle", "spawn", "dial", "shutdown", "record", "lookup", "push"}

\* Everything that is written is a batch, packed ...
Envelopes == {Encode(b) : b \in Seq(Msgs)}

\* ... and everything that is handed over is a message of one, unpacked.
Contents(env) == {Decode(env)[k] : k \in DOMAIN Decode(env)}
Items == UNION {Contents(env) : env \in Envelopes}
Handed == [msg : Items, by : Nat]

Writer == [inbox : Inboxes, queue : Seq(Msgs), conn : Conns,
           wire : Seq(Envelopes), shut : Shuts]
RouterState == [inbox : Seq(Msgs \cup {Unreachable}), msg : Msgs \cup {Unreachable},
                pc : Pcs, found : Nat]

\* Every variable has its type; who is registered and who was looked up exist.
Typed ==
  /\ router \in RouterState /\ router.found \in 0..Newest
  /\ entry \in BOOLEAN /\ crashed \in BOOLEAN
  /\ writers \in Seq(Writer) /\ reg \in 0..Newest
  /\ unsent \subseteq Msgs /\ routed \in Seq(Msgs) /\ dead \subseteq Msgs
  /\ lost \subseteq Msgs /\ faults \in 0..MaxFaults
  /\ received \in Seq(Handed)
  /\ router.pc # "idle" => router.msg \in Msgs
  /\ router.pc = "push" => router.found \in 1..Newest
  /\ router.pc \in {"dial", "shutdown"} => Newest >= 1

\* Who holds the PID: a writer whose inbox is open, or whose Shutdown is under
\* way, is the one in the registry; one that dials has not been shut down.
Holder ==
  /\ \A i \in 1..Newest :
       /\ writers[i].inbox = "open" => reg = i
       /\ writers[i].shut \in {"notify", "stop", "remove"} => reg = i
       /\ writers[i].shut = "remove" => writers[i].inbox = "stopped"
       /\ writers[i].conn # "none" /\ writers[i].shut = "none" =>
            writers[i].inbox = "open"
       /\ writers[i].wire # <<>> => writers[i].conn # "none"
  /\ router.pc = "dial" =>
       /\ writers[Newest].inbox = "open" /\ writers[Newest].shut = "none"
       /\ writers[Newest].conn = "none"

\* A step that replaces the record of one writer.
LEMMA SetWriter ==
  ASSUME Typed, NEW i \in 1..Newest, NEW w \in Writer,
         writers' = [writers EXCEPT ![i] = w]
  PROVE  /\ writers' \in Seq(Writer) /\ Newest' = Newest /\ writers'[i] = w
         /\ \A j \in 1..Newest : j # i => writers'[j] = writers[j]
<1>1. writers \in Seq(Writer)
  BY Zenon DEF Typed
<1> QED BY <1>1 DEF Newest

\* The indices of the writers.
LEMMA WriterIndices ==
  ASSUME Typed
  PROVE  /\ Newest \in Nat /\ DOMAIN writers = 1..Newest
         /\ \A i \in 1..Newest : i \in Nat /\ i # 0 /\ writers[i] \in Writer
<1>1. writers \in Seq(Writer)
  BY Zenon DEF Typed
<1> QED BY <1>1 DEF Newest

\* One more fault, within the bound.
LEMMA FaultCounted ==
  ASSUME Typed, faults < MaxFaults, faults' = faults + 1
  PROVE  faults' \in 0..MaxFaults
<1>1. faults \in 0..MaxFaults
  BY Zenon DEF Typed
<1> QED BY <1>1, FaultAssumption

\* The state in which nothing has been sent.
LEMMA InitTyped == Init => Typed /\ Holder
<1> SUFFICES ASSUME Init PROVE Typed /\ Holder
  BY Zenon
<1>1. /\ writers \in Seq(Writer) /\ Newest = 0 /\ routed \in Seq(Msgs)
      /\ received \in Seq(Handed) /\ router.inbox \in Seq(Msgs \cup {Unreachable})
      /\ 0 \in 0..Newest /\ 0 \in Nat /\ 1..Newest = {} /\ faults \in 0..MaxFaults
  BY FaultAssumption DEF Init, Newest
<1>2. router \in RouterState
  BY <1>1, Zenon DEF Init, RouterState, Pcs
<1>3. router.pc = "idle" /\ router.found = 0
  BY Zenon DEF Init
<1>4. Typed
  BY <1>1, <1>2, <1>3, Zenon DEF Init, Typed
<1>5. Holder
  BY <1>1, <1>3, Zenon DEF Holder
<1> QED BY <1>4, <1>5, Zenon

\* Remote.Send.
LEMMA SendTyped ==
  ASSUME Typed, Holder, NEW m \in Msgs, Send(m)
  PROVE  Typed' /\ Holder'
<1>1. /\ unsent' = unsent \ {m}
      /\ router' = [router EXCEPT !.inbox = Append(router.inbox, m)]
      /\ routed' = Append(routed, m)
      /\ UNCHANGED <<entry, reg, writers, received, dead, lost, crashed, faults>>
  BY Zenon DEF Send
<1>2. router.inbox \in Seq(Msgs \cup {Unreachable}) /\ routed \in Seq(Msgs)
  BY Zenon DEF Typed, RouterState
<1>3. Append(router.inbox, m) \in Seq(Msgs \cup {Unreachable}) /\ Append(routed, m) \in Seq(Msgs)
  BY <1>2
<1>4. /\ router' \in RouterState /\ router'.pc = router.pc /\ router'.msg = router.msg
      /\ router'.found = router.found
  BY <1>1, <1>3, Zenon DEF Typed, RouterState
<1>5. Newest' = Newest
  BY <1>1, Zenon DEF Newest
<1>6. Typed'
  BY <1>1, <1>3, <1>4, <1>5, Zenon DEF Typed
<1>7. Holder'
  BY <1>1, <1>4, <1>5, Zenon DEF Holder
<1> QED BY <1>6, <1>7, Zenon

\* The router takes a message.
LEMMA RouterReceiveTyped ==
  ASSUME Typed, Holder, RouterReceive
  PROVE  Typed' /\ Holder'
<1> DEFINE msg == Head(router.inbox)
<1>1. /\ router.pc = "idle" /\ router.inbox # <<>>
      /\ \/ /\ msg = Unreachable
            /\ router' = [router EXCEPT !.inbox = Tail(router.inbox)]
            /\ entry' = FALSE
         \/ /\ msg # Unreachable
            /\ router' = [router EXCEPT !.inbox = Tail(router.inbox), !.msg = msg,
                                        !.pc = IF entry THEN "lookup" ELSE "spawn"]
            /\ UNCHANGED entry
      /\ UNCHANGED <<reg, writers, unsent, routed, received, dead, lost, crashed, faults>>
  BY Zenon DEF RouterReceive
<1>2. router.inbox \in Seq(Msgs \cup {Unreachable})
  BY Zenon DEF Typed, RouterState
<1>3. /\ Tail(router.inbox) \in Seq(Msgs \cup {Unreachable})
      /\ msg \in Msgs \cup {Unreachable}
  BY <1>1, <1>2
<1> HIDE DEF msg
<1>4. Newest' = Newest
  BY <1>1, Zenon DEF Newest
<1>5. CASE msg = Unreachable
  <2>1. router' = [router EXCEPT !.inbox = Tail(router.inbox)] /\ entry' = FALSE
    BY <1>1, <1>5, Zenon
  <2>2. /\ router' \in RouterState /\ router'.pc = router.pc /\ router'.msg = router.msg
        /\ router'.found = router.found
    BY <2>1, <1>3, Zenon DEF Typed, RouterState
  <2>3. Typed'
    BY <1>1, <2>1, <2>2, <1>4, Zenon DEF Typed
  <2>4. Holder'
    BY <1>1, <2>2, <1>4, Zenon DEF Holder
  <2> QED BY <2>3, <2>4, Zenon
<1>6. CASE msg # Unreachable
  <2> DEFINE pc == IF entry THEN "lookup" ELSE "spawn"
  <2>1. /\ router' = [router EXCEPT !.inbox = Tail(router.inbox), !.msg = msg, !.pc = pc]
        /\ entry' = entry /\ msg \in Msgs
    BY <1>1, <1>3, <1>6, Zenon
  <2>2. pc \in Pcs /\ pc \in {"lookup", "spawn"}
    BY Zenon DEF Pcs
  <2> HIDE DEF pc
  <2>3. /\ router' \in RouterState /\ router'.pc = pc /\ router'.msg = msg
        /\ router'.found = router.found
    BY <2>1, <2>2, <1>3, Zenon DEF Typed, RouterState
  <2>4. router'.pc # "idle" /\ router'.pc # "push" /\ router'.pc # "dial" /\ router'.pc # "shutdown"
    BY <2>2, <2>3, Zenon
  <2>5. Typed'
    BY <1>1, <2>1, <2>3, <2>4, <1>4, Zenon DEF Typed
  <2>6. Holder'
    BY <1>1, <2>4, <1>4, Zenon DEF Holder
  <2> QED BY <2>5, <2>6, Zenon
<1> QED BY <1>5, <1>6, Zenon

\* A step of the router that only moves on, to a place other than the dial.
LEMMA RouterMoves ==
  ASSUME Typed, Holder, NEW pc \in {"record", "lookup", "idle"},
         router' = [router EXCEPT !.pc = pc], router.pc # "idle",
         entry' \in BOOLEAN, dead' \subseteq Msgs,
         UNCHANGED <<reg, writers, unsent, routed, received, lost, crashed, faults>>
  PROVE  Typed' /\ Holder'
<1>1. Newest' = Newest
  BY Zenon DEF Newest
<1>2. pc \in Pcs /\ pc # "push" /\ pc # "dial" /\ pc # "shutdown"
  BY Zenon DEF Pcs
<1>3. /\ router' \in RouterState /\ router'.pc = pc /\ router'.msg = router.msg
      /\ router'.found = router.found
  BY <1>2, Zenon DEF Typed, RouterState
<1>4. Typed'
  BY <1>1, <1>2, <1>3, Zenon DEF Typed
<1>5. Holder'
  BY <1>1, <1>2, <1>3, Zenon DEF Holder
<1> QED BY <1>4, <1>5, Zenon
\* A writer is created: with the PID, and dials, or refused.
LEMMA RouterSpawnTyped ==
  ASSUME Typed, Holder, RouterSpawn
  PROVE  Typed' /\ Holder'
<1> DEFINE n == Newest
<1>1. /\ router.pc = "spawn"
      /\ \/ /\ reg = 0 /\ reg' = n + 1
            /\ writers' = Append(writers, [NewWriter EXCEPT !.inbox = "open"])
            /\ router' = [router EXCEPT !.pc = "dial"]
         \/ /\ reg # 0 /\ reg' = reg
            /\ writers' = Append(writers, NewWriter)
            /\ router' = [router EXCEPT !.pc = "record"]
      /\ UNCHANGED <<entry, unsent, routed, received, dead, lost, crashed, faults>>
  BY Zenon DEF RouterSpawn
<1>2. PICK w : /\ writers' = Append(writers, w) /\ w.conn = "none" /\ w.shut = "none"
               /\ w \in Writer /\ w.wire = <<>>
               /\ \/ reg = 0 /\ reg' = n + 1 /\ w.inbox = "open"
                     /\ router' = [router EXCEPT !.pc = "dial"]
                  \/ reg # 0 /\ reg' = reg /\ w.inbox = "stopped"
                     /\ router' = [router EXCEPT !.pc = "record"]
  <2>1. <<>> \in Seq(Msgs) /\ <<>> \in Seq(Envelopes)
    OBVIOUS
  <2>2. /\ NewWriter \in Writer /\ NewWriter.conn = "none" /\ NewWriter.shut = "none"
        /\ NewWriter.inbox = "stopped" /\ NewWriter.wire = <<>>
    BY <2>1, Zenon DEF NewWriter, Writer, Inboxes, Conns, Shuts
  <2> DEFINE open == [NewWriter EXCEPT !.inbox = "open"]
  <2>3. /\ open \in Writer /\ open.conn = "none" /\ open.shut = "none"
        /\ open.inbox = "open" /\ open.wire = <<>>
    BY <2>1, Zenon DEF NewWriter, Writer, Inboxes, Conns, Shuts
  <2> HIDE DEF open
  <2> QED BY <1>1, <2>2, <2>3, Zenon DEF open
<1>3. /\ writers' \in Seq(Writer) /\ Newest' = n + 1 /\ n \in Nat /\ writers'[n + 1] = w
      /\ \A j \in 1..n : writers'[j] = writers[j] /\ j # n + 1
      /\ \A j \in 1..(n + 1) : j \in 1..n \/ j = n + 1
      /\ 0..n \subseteq 0..(n + 1) /\ n + 1 \in 0..(n + 1) /\ n + 1 # 0
      /\ n + 1 >= 1 /\ 1..n \subseteq 1..(n + 1)
  <2>1. writers \in Seq(Writer)
    BY Zenon DEF Typed
  <2> QED BY <2>1, <1>2 DEF Newest
<1>4. /\ router' \in RouterState /\ router'.pc \in {"dial", "record"} /\ router'.msg = router.msg
      /\ router'.found = router.found /\ (router'.pc = "dial" => w.inbox = "open")
  BY <1>2, Zenon DEF Typed, RouterState, Pcs
<1>5. router'.pc # "idle" /\ router'.pc # "push"
  BY <1>4, Zenon
<1> HIDE DEF n
<1>6. router.pc # "idle"
  BY <1>1, Zenon
<1>7. reg \in 0..n /\ router.found \in 0..n
  BY Zenon DEF Typed, n
<1>8. Typed'
  BY <1>1, <1>2, <1>3, <1>4, <1>5, <1>6, <1>7, Zenon DEF Typed
<1>9. ASSUME NEW i \in 1..(n + 1)
      PROVE  /\ writers'[i].inbox = "open" => reg' = i
             /\ writers'[i].shut \in {"notify", "stop", "remove"} => reg' = i
             /\ writers'[i].shut = "remove" => writers'[i].inbox = "stopped"
             /\ writers'[i].conn # "none" /\ writers'[i].shut = "none" =>
                  writers'[i].inbox = "open"
             /\ writers'[i].wire # <<>> => writers'[i].conn # "none"
  <2>1. CASE i = n + 1
    <3>1. "none" \notin {"notify", "stop", "remove"} /\ "none" # "remove" /\ "stopped" # "open"
      BY Zenon
    <3> QED BY <3>1, <2>1, <1>2, <1>3, Zenon
  <2>2. CASE i \in 1..n
    <3>1. /\ writers[i].inbox = "open" => reg = i
          /\ writers[i].shut \in {"notify", "stop", "remove"} => reg = i
          /\ writers[i].shut = "remove" => writers[i].inbox = "stopped"
          /\ writers[i].conn # "none" /\ writers[i].shut = "none" =>
               writers[i].inbox = "open"
          /\ writers[i].wire # <<>> => writers[i].conn # "none"
      BY <2>2, Zenon DEF Holder, n
    <3>2. i # 0
      BY <2>2, <1>3
    <3>3. writers'[i] = writers[i]
      BY <2>2, <1>3, Zenon
    <3>4. reg = i => reg' = i
      BY <3>2, <1>2, Zenon
    <3> QED BY <3>1, <3>3, <3>4, Zenon
  <2> QED BY <2>1, <2>2, <1>3, Zenon
<1>10. Holder'
  BY <1>2, <1>3, <1>4, <1>9, Zenon DEF Holder
<1> QED BY <1>8, <1>10, Zenon

\* init() connects, or not.
LEMMA RouterDialTyped ==
  ASSUME Typed, Holder, RouterDial
  PROVE  Typed' /\ Holder'
<1> DEFINE n == Newest
<1>1. router.pc = "dial" /\ writers[n].inbox = "open" /\ writers[n].shut = "none"
  BY Zenon DEF RouterDial, Holder
<1>2. n \in 1..n /\ n \in Nat /\ writers[n] \in Writer
  <2>1. n >= 1
    BY <1>1, Zenon DEF Typed
  <2>2. n \in Nat
    BY WriterIndices, Zenon
  <2>3. n \in 1..n
    BY <2>1, <2>2
  <2> QED BY <2>2, <2>3, WriterIndices, Zenon
<1>3. /\ faults' \in 0..MaxFaults
      /\ \E w \in Writer : \E pc \in {"record", "shutdown"} :
           /\ writers' = [writers EXCEPT ![n] = w] /\ router' = [router EXCEPT !.pc = pc]
           /\ w.inbox = "open" /\ w.shut \in {"none", "notify"}
           /\ w.wire # <<>> => w.conn # "none"
      /\ UNCHANGED <<entry, reg, unsent, routed, received, dead, lost, crashed>>
  <2>0. /\ UNCHANGED <<entry, reg, unsent, routed, received, dead, lost, crashed>>
        /\ faults \in 0..MaxFaults
    BY Zenon DEF RouterDial, Typed
  <2>1. CASE /\ writers' = [writers EXCEPT ![n].conn = "up"]
             /\ router' = [router EXCEPT !.pc = "record"]
             /\ UNCHANGED faults
    <3> DEFINE w == [writers[n] EXCEPT !.conn = "up"]
    <3>1. w \in Writer /\ w.inbox = "open" /\ w.shut = "none" /\ w.conn = "up"
      BY <1>1, <1>2, Zenon DEF Writer, Conns
    <3>2. writers' = [writers EXCEPT ![n] = w]
      BY <2>1, Zenon
    <3>3. "up" # "none"
      BY Zenon
    <3> HIDE DEF w
    <3> QED BY <2>0, <2>1, <3>1, <3>2, <3>3, Zenon
  <2>2. CASE /\ faults < MaxFaults /\ faults' = faults + 1
             /\ writers' = [writers EXCEPT ![n].shut = "notify"]
             /\ router' = [router EXCEPT !.pc = "shutdown"]
    <3> DEFINE w == [writers[n] EXCEPT !.shut = "notify"]
    <3>1. /\ w \in Writer /\ w.inbox = "open" /\ w.shut = "notify"
          /\ w.conn = writers[n].conn /\ w.wire = writers[n].wire
      BY <1>1, <1>2, Zenon DEF Writer, Shuts
    <3>4. writers[n].wire # <<>> => writers[n].conn # "none"
      BY <1>2, Zenon DEF Holder
    <3>2. writers' = [writers EXCEPT ![n] = w]
      BY <2>2, Zenon
    <3>3. faults' \in 0..MaxFaults
      BY <2>2, FaultCounted, Zenon
    <3> HIDE DEF w
    <3> QED BY <2>0, <2>2, <3>1, <3>2, <3>3, <3>4, Zenon
  <2>3. CASE /\ faults < MaxFaults /\ faults' = faults + 1
             /\ writers' = [writers EXCEPT ![n].conn = "no deadline"]
             /\ router' = [router EXCEPT !.pc = "record"]
    <3> DEFINE w == [writers[n] EXCEPT !.conn = "no deadline"]
    <3>1. w \in Writer /\ w.inbox = "open" /\ w.shut = "none" /\ w.conn = "no deadline"
      BY <1>1, <1>2, Zenon DEF Writer, Conns
    <3>2. writers' = [writers EXCEPT ![n] = w]
      BY <2>3, Zenon
    <3>4. "no deadline" # "none"
      BY Zenon
    <3>3. faults' \in 0..MaxFaults
      BY <2>3, FaultCounted, Zenon
    <3> HIDE DEF w
    <3> QED BY <2>0, <2>3, <3>1, <3>2, <3>3, <3>4, Zenon
  <2> QED BY <2>1, <2>2, <2>3, Zenon DEF RouterDial
<1>4. PICK w \in Writer : \E pc \in {"record", "shutdown"} :
           /\ writers' = [writers EXCEPT ![n] = w] /\ router' = [router EXCEPT !.pc = pc]
           /\ w.inbox = "open" /\ w.shut \in {"none", "notify"}
           /\ w.wire # <<>> => w.conn # "none"
  BY <1>3, Zenon
<1>5. PICK pc \in {"record", "shutdown"} : router' = [router EXCEPT !.pc = pc]
  BY <1>4, Zenon
<1>6. /\ writers' \in Seq(Writer) /\ Newest' = n /\ writers'[n] = w
      /\ \A j \in 1..n : j # n => writers'[j] = writers[j]
  BY <1>2, <1>4, SetWriter, ZenonT(40)
<1>7. pc \in Pcs /\ pc # "push" /\ pc # "dial" /\ w.shut # "remove"
  BY <1>4, Zenon DEF Pcs
<1>8. /\ router' \in RouterState /\ router'.pc = pc /\ router'.msg = router.msg
      /\ router'.found = router.found
  BY <1>5, <1>7, Zenon DEF Typed, RouterState
<1>9. router.pc # "idle"
  BY <1>1, Zenon
<1>10. Typed'
  BY <1>1, <1>3, <1>6, <1>7, <1>8, <1>9, Zenon DEF Typed
<1>11. Holder'
  <2>1. reg = n
    BY <1>1, <1>2, Zenon DEF Holder
  <2>2. reg' = n
    BY <2>1, <1>3, Zenon
  <2>3. ASSUME NEW i \in 1..n
        PROVE  /\ writers'[i].inbox = "open" => reg' = i
               /\ writers'[i].shut \in {"notify", "stop", "remove"} => reg' = i
               /\ writers'[i].shut = "remove" => writers'[i].inbox = "stopped"
               /\ writers'[i].conn # "none" /\ writers'[i].shut = "none" =>
                    writers'[i].inbox = "open"
               /\ writers'[i].wire # <<>> => writers'[i].conn # "none"
    <3>1. CASE i = n
      BY <3>1, <2>2, <1>4, <1>6, <1>7, Zenon
    <3>2. CASE i # n
      BY <3>2, <2>1, <2>2, <1>6, Zenon DEF Holder
    <3> QED BY <3>1, <3>2, Zenon
  <2> QED BY <2>3, <1>6, <1>7, <1>8, Zenon DEF Holder
<1> QED BY <1>10, <1>11, Zenon
\* Registry lookup and push.
LEMMA RouterLookupTyped ==
  ASSUME Typed, Holder, RouterLookup
  PROVE  Typed' /\ Holder'
<1>1. CASE reg = 0
  <2>1. router.pc = "lookup" /\ router' = [router EXCEPT !.pc = "idle"] /\ dead' = dead \cup {router.msg}
        /\ UNCHANGED <<entry, reg, writers, unsent, routed, received, lost, crashed, faults>>
    BY <1>1, Zenon DEF RouterLookup
  <2>2. router.pc # "idle"
    BY <2>1, Zenon
  <2>3. dead' \subseteq Msgs /\ entry' \in BOOLEAN
    BY <2>1, <2>2, Zenon DEF Typed
  <2> QED BY <2>1, <2>2, <2>3, RouterMoves, Zenon
<1>2. CASE reg # 0
  <2>1. router.pc = "lookup" /\ router' = [router EXCEPT !.pc = "push", !.found = reg]
        /\ UNCHANGED <<entry, reg, writers, unsent, routed, received, dead, lost, crashed, faults>>
    BY <1>2, Zenon DEF RouterLookup
  <2>2. router.pc # "idle"
    BY <2>1, Zenon
  <2>3. reg \in 1..Newest /\ reg \in Nat /\ reg \in 0..Newest
    <3>1. reg \in 0..Newest /\ Newest \in Nat
      BY WriterIndices, Zenon DEF Typed
    <3> QED BY <3>1, <1>2
  <2>4. /\ router' \in RouterState /\ router'.pc = "push" /\ router'.msg = router.msg
        /\ router'.found = reg
    BY <2>1, <2>3, Zenon DEF Typed, RouterState, Pcs
  <2>5. Newest' = Newest
    BY <2>1, Zenon DEF Newest
  <2>6. "push" # "dial" /\ "push" # "idle" /\ "push" # "shutdown"
    BY Zenon
  <2>7. Typed'
    BY <2>1, <2>2, <2>3, <2>4, <2>5, <2>6, Zenon DEF Typed
  <2>8. Holder'
    BY <2>1, <2>4, <2>5, <2>6, Zenon DEF Holder
  <2> QED BY <2>7, <2>8, Zenon
<1> QED BY <1>1, <1>2, Zenon

\* A step that changes one writer, not its inbox nor where its Shutdown is, and
\* its connection at most from one that is made.
LEMMA WriterChanges ==
  ASSUME Typed, Holder, NEW i \in 1..Newest, NEW w \in Writer,
         writers' = [writers EXCEPT ![i] = w],
         w.inbox = writers[i].inbox, w.shut = writers[i].shut,
         w.conn = writers[i].conn \/ (w.conn # "none" /\ writers[i].conn # "none"),
         w.wire # <<>> => writers[i].wire # <<>> \/ writers[i].conn # "none",
         router' \in RouterState, router'.found = router.found, router'.msg = router.msg,
         router'.pc = router.pc \/ router'.pc = "idle",
         lost' \subseteq Msgs, faults' \in 0..MaxFaults, received' \in Seq(Handed),
         crashed' \in BOOLEAN,
         UNCHANGED <<entry, reg, unsent, routed, dead>>
  PROVE  Typed' /\ Holder'
<1>1. /\ writers' \in Seq(Writer) /\ Newest' = Newest /\ writers'[i] = w
      /\ \A j \in 1..Newest : j # i => writers'[j] = writers[j]
  BY SetWriter, Zenon
<1>2. "idle" # "push" /\ "idle" # "dial" /\ "idle" # "shutdown" /\ "closed" # "none"
  BY Zenon
<1>3. Typed'
  BY <1>1, <1>2, Zenon DEF Typed
<1>4. ASSUME NEW j \in 1..Newest
      PROVE  /\ writers'[j].inbox = writers[j].inbox /\ writers'[j].shut = writers[j].shut
             /\ writers'[j].conn # "none" <=> writers[j].conn # "none"
             /\ writers'[j].wire # <<>> => writers[j].wire # <<>> \/ writers[j].conn # "none"
  BY <1>1, <1>2, Zenon
<1>5. ASSUME router.pc = "dial" PROVE Newest \in 1..Newest
  <2>1. Newest \in Nat /\ Newest >= 1
    BY <1>5, WriterIndices, Zenon DEF Typed
  <2> QED BY <2>1
<1>6. ASSUME NEW j \in 1..Newest
      PROVE  /\ writers'[j].inbox = "open" => reg' = j
             /\ writers'[j].shut \in {"notify", "stop", "remove"} => reg' = j
             /\ writers'[j].shut = "remove" => writers'[j].inbox = "stopped"
             /\ writers'[j].conn # "none" /\ writers'[j].shut = "none" =>
                  writers'[j].inbox = "open"
             /\ writers'[j].wire # <<>> => writers'[j].conn # "none"
  BY <1>4, ZenonT(40) DEF Holder
<1>7. router'.pc = "dial" => /\ writers'[Newest].inbox = "open" /\ writers'[Newest].shut = "none"
                             /\ writers'[Newest].conn = "none"
  <2>1. SUFFICES ASSUME router'.pc = "dial"
                 PROVE  /\ writers'[Newest].inbox = "open" /\ writers'[Newest].shut = "none"
                        /\ writers'[Newest].conn = "none"
    BY Zenon
  <2>2. router.pc = "dial"
    BY <2>1, <1>2, Zenon
  <2> QED BY <2>2, <1>4, <1>5, Zenon DEF Holder
<1>8. Holder'
  BY <1>1, <1>6, <1>7, Zenon DEF Holder
<1> QED BY <1>3, <1>8, Zenon

LEMMA RouterPushTyped ==
  ASSUME Typed, Holder, RouterPush
  PROVE  Typed' /\ Holder'
<1> DEFINE i == router.found
           w == [writers[i] EXCEPT !.queue = Append(writers[i].queue, router.msg)]
<1>1. /\ router.pc = "push" /\ router' = [router EXCEPT !.pc = "idle"]
      /\ writers' = [writers EXCEPT ![i] = w]
      /\ UNCHANGED <<entry, reg, unsent, routed, received, dead, lost, crashed, faults>>
  BY Zenon DEF RouterPush
<1>2. i \in 1..Newest /\ router.msg \in Msgs
  <2>1. router.pc # "idle"
    BY <1>1, Zenon
  <2> QED BY <1>1, <2>1, Zenon DEF Typed
<1>3. writers[i] \in Writer
  BY <1>2, WriterIndices, Zenon
<1>4. Append(writers[i].queue, router.msg) \in Seq(Msgs)
  <2>1. writers[i].queue \in Seq(Msgs)
    BY <1>3, Zenon DEF Writer
  <2> QED BY <2>1, <1>2
<1>5. /\ w \in Writer /\ w.inbox = writers[i].inbox /\ w.shut = writers[i].shut
      /\ w.conn = writers[i].conn /\ w.wire = writers[i].wire
  BY <1>3, <1>4, Zenon DEF Writer
<1>6. /\ router' \in RouterState /\ router'.pc = "idle" /\ router'.msg = router.msg
      /\ router'.found = router.found
  BY <1>1, Zenon DEF Typed, RouterState, Pcs
<1>7. lost' \subseteq Msgs /\ faults' \in 0..MaxFaults /\ received' \in Seq(Handed) /\ crashed' \in BOOLEAN
  BY <1>1, Zenon DEF Typed
<1> HIDE DEF w, i
<1> QED BY <1>1, <1>2, <1>5, <1>6, <1>7, WriterChanges, Zenon DEF i

\* A batch is written, fails, or makes the writer panic.
LEMMA WriterInvokeTyped ==
  ASSUME Typed, Holder, NEW i \in 1..Newest, WriterInvoke(i)
  PROVE  Typed' /\ Holder'
<1> DEFINE batch == writers[i].queue
<1>1. /\ writers[i] \in Writer /\ batch \in Seq(Msgs) /\ writers[i].wire \in Seq(Envelopes)
      /\ writers[i].conn \in Conns
  BY WriterIndices, Zenon DEF Writer
<1>2. /\ UNCHANGED <<router, entry, reg, unsent, routed, received, dead>>
      /\ router' \in RouterState /\ router'.found = router.found /\ router'.msg = router.msg
      /\ router'.pc = router.pc /\ received' \in Seq(Handed)
  BY Zenon DEF WriterInvoke, Typed
<1>3. /\ <<>> \in Seq(Msgs) /\ Append(writers[i].wire, Encode(batch)) \in Seq(Envelopes)
      /\ Range(batch) \subseteq Msgs
  <2>1. Encode(batch) \in Envelopes
    BY <1>1, Zenon DEF Envelopes
  <2>2. Append(writers[i].wire, Encode(batch)) \in Seq(Envelopes)
    BY <2>1, <1>1
  <2>3. Range(batch) \subseteq Msgs
    BY <1>1 DEF Range
  <2> QED BY <2>2, <2>3
<1>4. lost \subseteq Msgs /\ crashed \in BOOLEAN /\ faults \in 0..MaxFaults
  BY Zenon DEF Typed
<1> HIDE DEF batch
<1>5. CASE /\ writers[i].conn = "up"
           /\ writers' = [writers EXCEPT ![i].queue = <<>>,
                                         ![i].wire = Append(@, Encode(batch))]
           /\ UNCHANGED <<lost, crashed, faults>>
  <2> DEFINE v == [writers[i] EXCEPT !.queue = <<>>]
             w == [v EXCEPT !.wire = Append(writers[i].wire, Encode(batch))]
  <2>1. /\ v \in Writer /\ v.inbox = writers[i].inbox /\ v.shut = writers[i].shut
        /\ v.conn = writers[i].conn /\ v.wire = writers[i].wire
    BY <1>1, <1>3, Zenon DEF Writer
  <2>2. writers' = [writers EXCEPT ![i] = w]
    <3>1. i \in DOMAIN writers
      BY WriterIndices, Zenon
    <3> QED BY <1>5, <3>1, <1>1, Zenon DEF Writer
  <2> HIDE DEF v
  <2>3. /\ w \in Writer /\ w.inbox = writers[i].inbox /\ w.shut = writers[i].shut
        /\ w.conn = writers[i].conn
    BY <2>1, <1>3, Zenon DEF Writer
  <2>4. "up" # "none"
    BY Zenon
  <2> HIDE DEF w
  <2> QED BY <2>2, <2>3, <2>4, <1>2, <1>4, <1>5, WriterChanges, Zenon
<1>6. ASSUME NEW c \in {"up", "closed"}, writers[i].conn = "up",
             writers' = [writers EXCEPT ![i].queue = <<>>, ![i].conn = c],
             faults < MaxFaults, faults' = faults + 1,
             lost' = lost \cup Range(batch), crashed' = crashed
      PROVE  Typed' /\ Holder'
  <2> DEFINE v == [writers[i] EXCEPT !.queue = <<>>]
             w == [v EXCEPT !.conn = c]
  <2>1. /\ v \in Writer /\ v.inbox = writers[i].inbox /\ v.shut = writers[i].shut
        /\ v.wire = writers[i].wire
    BY <1>1, <1>3, Zenon DEF Writer
  <2>2. writers' = [writers EXCEPT ![i] = w]
    <3>1. i \in DOMAIN writers
      BY WriterIndices, Zenon
    <3> QED BY <1>6, <3>1, <1>1, Zenon DEF Writer
  <2> HIDE DEF v
  <2>3. c \in Conns /\ (c = writers[i].conn \/ (c # "none" /\ writers[i].conn # "none"))
    <3>1. "up" # "none" /\ "closed" # "none"
      BY Zenon
    <3> QED BY <3>1, <1>6, Zenon DEF Conns
  <2>4. /\ w \in Writer /\ w.inbox = writers[i].inbox /\ w.shut = writers[i].shut /\ w.conn = c
        /\ w.wire = writers[i].wire
    BY <2>1, <2>3, Zenon DEF Writer
  <2>5. faults' \in 0..MaxFaults /\ lost' \subseteq Msgs /\ crashed' \in BOOLEAN
    BY <1>3, <1>4, <1>6, FaultCounted, Zenon
  <2> HIDE DEF w
  <2> QED BY <2>2, <2>3, <2>4, <2>5, <1>2, WriterChanges, Zenon
<1>7. ASSUME NEW c \in {writers[i].conn, "closed"}, writers[i].conn \in {"ended", "closed"},
             writers' = [writers EXCEPT ![i].queue = <<>>, ![i].conn = c],
             lost' = lost \cup Range(batch), UNCHANGED <<crashed, faults>>
      PROVE  Typed' /\ Holder'
  <2> DEFINE v == [writers[i] EXCEPT !.queue = <<>>]
             w == [v EXCEPT !.conn = c]
  <2>1. /\ v \in Writer /\ v.inbox = writers[i].inbox /\ v.shut = writers[i].shut
        /\ v.wire = writers[i].wire
    BY <1>1, <1>3, Zenon DEF Writer
  <2>2. writers' = [writers EXCEPT ![i] = w]
    <3>1. i \in DOMAIN writers
      BY WriterIndices, Zenon
    <3> QED BY <1>7, <3>1, <1>1, Zenon DEF Writer
  <2> HIDE DEF v
  <2>3. c \in Conns /\ (c = writers[i].conn \/ (c # "none" /\ writers[i].conn # "none"))
    <3>1. "ended" # "none" /\ "closed" # "none"
      BY Zenon
    <3> QED BY <3>1, <1>1, <1>7, Zenon DEF Conns
  <2>4. /\ w \in Writer /\ w.inbox = writers[i].inbox /\ w.shut = writers[i].shut /\ w.conn = c
        /\ w.wire = writers[i].wire
    BY <2>1, <2>3, Zenon DEF Writer
  <2>5. faults' \in 0..MaxFaults /\ lost' \subseteq Msgs /\ crashed' \in BOOLEAN
    BY <1>3, <1>4, <1>7, Zenon
  <2> HIDE DEF w
  <2> QED BY <2>2, <2>3, <2>4, <2>5, <1>2, WriterChanges, Zenon
<1>8. CASE crashed' = TRUE /\ UNCHANGED <<writers, lost, faults>>
  <2>1. Newest' = Newest /\ crashed' \in BOOLEAN
    BY <1>8, Zenon DEF Newest
  <2>2. Typed'
    BY <1>2, <1>8, <2>1, Zenon DEF Typed
  <2>3. Holder'
    BY <1>2, <1>8, <2>1, Zenon DEF Holder
  <2> QED BY <2>2, <2>3, Zenon
<1> QED BY <1>5, <1>6, <1>7, <1>8, Zenon DEF WriterInvoke, batch

\* A connection ends.
LEMMA ConnLostTyped ==
  ASSUME Typed, Holder, NEW i \in 1..Newest, ConnLost(i)
  PROVE  Typed' /\ Holder'
<1>1. writers[i] \in Writer
  BY WriterIndices, Zenon
<1>2. PICK x \in {writers[i].wire, <<>>} :
        writers' = [writers EXCEPT ![i].conn = "closed", ![i].wire = x]
  BY Zenon DEF ConnLost
<1>3. /\ UNCHANGED <<router, entry, reg, unsent, routed, received, dead, lost, crashed>>
      /\ writers[i].conn \in {"up", "ended"} /\ faults < MaxFaults /\ faults' = faults + 1
  BY Zenon DEF ConnLost
<1>4. /\ router' \in RouterState /\ router'.found = router.found /\ router'.msg = router.msg
      /\ router'.pc = router.pc /\ received' \in Seq(Handed)
      /\ lost' \subseteq Msgs /\ crashed' \in BOOLEAN /\ faults' \in 0..MaxFaults
  BY <1>3, FaultCounted, Zenon DEF Typed
<1> DEFINE v == [writers[i] EXCEPT !.conn = "closed"]
           w == [v EXCEPT !.wire = x]
<1>5. v \in Writer /\ v.inbox = writers[i].inbox /\ v.shut = writers[i].shut /\ v.conn = "closed"
  BY <1>1, Zenon DEF Writer, Conns
<1>6. writers' = [writers EXCEPT ![i] = w]
  <2>1. i \in DOMAIN writers
    BY WriterIndices, Zenon
  <2> QED BY <1>2, <2>1, <1>1, Zenon DEF Writer
<1> HIDE DEF v
<1>7. x \in Seq(Envelopes) /\ writers[i].conn # "none" /\ "closed" # "none"
  <2>1. writers[i].wire \in Seq(Envelopes)
    BY <1>1, Zenon DEF Writer
  <2>2. <<>> \in Seq(Envelopes) /\ "up" # "none" /\ "ended" # "none" /\ "closed" # "none"
    OBVIOUS
  <2> QED BY <2>1, <2>2, <1>2, <1>3, Zenon
<1>8. w \in Writer /\ w.inbox = writers[i].inbox /\ w.shut = writers[i].shut /\ w.conn = "closed"
  BY <1>5, <1>7, Zenon DEF Writer
<1> HIDE DEF w
<1> QED BY <1>3, <1>4, <1>6, <1>7, <1>8, WriterChanges, Zenon

\* What the reader hands over for an envelope.
Via(env, i) == [k \in DOMAIN Decode(env) |-> [msg |-> Decode(env)[k], by |-> i]]

\* It is a sequence, of the messages of the envelope.
LEMMA ViaIsHanded ==
  ASSUME NEW env \in Envelopes, NEW i \in Nat
  PROVE  /\ Via(env, i) \in Seq(Handed) /\ DOMAIN Decode(env) = 1..Len(Via(env, i))
         /\ \A k \in 1..Len(Via(env, i)) :
              Via(env, i)[k].msg = Decode(env)[k] /\ Via(env, i)[k].by = i
<1>1. PICK b \in Seq(Msgs) : env = Encode(b)
  BY Zenon DEF Envelopes
<1>2. DOMAIN Decode(env) = 1..Len(b) /\ Len(b) \in Nat
  <2>1. Decode(env) = [k \in 1..Len(b) |-> Decode(env)[k]]
    BY <1>1, Unpacks, Zenon
  <2>2. DOMAIN Decode(env) = 1..Len(b)
    BY <2>1, Zenon
  <2> QED BY <2>2, <1>1
<1> DEFINE E(k) == [msg |-> Decode(env)[k], by |-> i]
<1>3. ASSUME NEW k \in 1..Len(b)
      PROVE  E(k) \in Handed /\ E(k).msg = Decode(env)[k] /\ E(k).by = i
  <2>1. Decode(env)[k] \in Items
    <3>1. Decode(env)[k] \in Contents(env)
      BY <1>2, Zenon DEF Contents
    <3> QED BY <3>1, Zenon DEF Items
  <2> QED BY <2>1, Zenon DEF Handed
<1>4. Via(env, i) = [k \in 1..Len(b) |-> E(k)]
  BY <1>2, Zenon DEF Via
<1> HIDE DEF E
<1>5. Via(env, i) \in Seq(Handed) /\ Len(Via(env, i)) = Len(b) /\ \A k \in 1..Len(b) : Via(env, i)[k] = E(k)
  BY <1>2, <1>3, <1>4
<1> QED BY <1>2, <1>3, <1>5, Zenon

\* n messages of the envelope that is read are handed over; w is the writer
\* with what is left.
Reads(i, n, w) ==
  LET env == Head(writers[i].wire) IN
  /\ writers[i].wire # <<>> /\ env \in Envelopes /\ n <= Len(Via(env, i))
  /\ received' = received \o SubSeq(Via(env, i), 1, n)
  /\ writers' = [writers EXCEPT ![i] = w]
  /\ w.inbox = writers[i].inbox /\ w.shut = writers[i].shut
  /\ w.queue = writers[i].queue
  /\ w.wire = Tail(writers[i].wire) \/ w.wire = <<>>
  /\ w.conn = writers[i].conn \/ w.conn # "none"
  /\ faults' \in 0..MaxFaults
  /\ UNCHANGED <<router, entry, reg, unsent, routed, dead, lost, crashed>>

\* An envelope is read, to its end or to the message that ends the stream.
LEMMA ReaderReceiveEffect ==
  ASSUME Typed, NEW i \in 1..Newest, ReaderReceive(i)
  PROVE  \E n \in Nat, w \in Writer : Reads(i, n, w)
<1> DEFINE env == Head(writers[i].wire)
           via == Via(env, i)
<1>1. writers[i] \in Writer /\ writers[i].wire \in Seq(Envelopes) /\ i \in Nat /\ i \in DOMAIN writers
  BY WriterIndices, Zenon DEF Writer
<1>2. /\ writers[i].wire # <<>>
      /\ \/ /\ received' = received \o via
            /\ writers' = [writers EXCEPT ![i].wire = Tail(@)]
            /\ UNCHANGED faults
         \/ /\ faults < MaxFaults /\ faults' = faults + 1
            /\ \E k \in DOMAIN Decode(env) : received' = received \o SubSeq(via, 1, k - 1)
            /\ writers' = [writers EXCEPT ![i].wire = <<>>, ![i].conn = Ended(writers[i].conn)]
      /\ UNCHANGED <<router, entry, reg, unsent, routed, dead, lost, crashed>>
  BY Zenon DEF ReaderReceive, Via
<1>3. env \in Envelopes /\ Tail(writers[i].wire) \in Seq(Envelopes) /\ <<>> \in Seq(Envelopes)
  BY <1>1, <1>2
<1> HIDE DEF env
<1>4. via \in Seq(Handed) /\ DOMAIN Decode(env) = 1..Len(via)
  BY <1>1, <1>3, ViaIsHanded, Zenon
<1> HIDE DEF via
<1>5. Len(via) \in Nat /\ Len(via) <= Len(via) /\ SubSeq(via, 1, Len(via)) = via
  BY <1>4
<1>6. CASE /\ received' = received \o via
           /\ writers' = [writers EXCEPT ![i].wire = Tail(@)]
           /\ UNCHANGED faults
  <2> DEFINE w == [writers[i] EXCEPT !.wire = Tail(writers[i].wire)]
  <2>1. writers' = [writers EXCEPT ![i] = w]
    BY <1>6, Zenon
  <2>2. /\ w \in Writer /\ w.inbox = writers[i].inbox /\ w.shut = writers[i].shut
        /\ w.conn = writers[i].conn /\ w.queue = writers[i].queue
        /\ w.wire = Tail(writers[i].wire)
    BY <1>1, <1>3, Zenon DEF Writer
  <2>3. faults' \in 0..MaxFaults
    BY <1>6, Zenon DEF Typed
  <2> HIDE DEF w
  <2>4. received' = received \o SubSeq(via, 1, Len(via))
    BY <1>5, <1>6, Zenon
  <2>5. Reads(i, Len(via), w)
    BY <2>1, <2>2, <2>3, <2>4, <1>2, <1>3, <1>5, Zenon DEF env, via, Reads
  <2> QED BY <2>2, <2>5, <1>5, Zenon
<1>7. ASSUME faults < MaxFaults, faults' = faults + 1, NEW k \in DOMAIN Decode(env),
             received' = received \o SubSeq(via, 1, k - 1),
             NEW c \in Conns, c = writers[i].conn \/ c # "none",
             writers' = [writers EXCEPT ![i].wire = <<>>, ![i].conn = c]
      PROVE  \E n \in Nat, w \in Writer : Reads(i, n, w)
  <2> DEFINE v == [writers[i] EXCEPT !.wire = <<>>]
             w == [v EXCEPT !.conn = c]
  <2>1. writers' = [writers EXCEPT ![i] = w]
    BY <1>7, <1>1, Zenon DEF Writer
  <2>2. /\ v \in Writer /\ v.inbox = writers[i].inbox /\ v.shut = writers[i].shut
        /\ v.queue = writers[i].queue /\ v.wire = <<>>
    BY <1>1, <1>3, Zenon DEF Writer
  <2> HIDE DEF v
  <2>3. /\ w \in Writer /\ w.inbox = writers[i].inbox /\ w.shut = writers[i].shut
        /\ w.queue = writers[i].queue /\ w.wire = <<>> /\ w.conn = c
    BY <2>2, <1>7, Zenon DEF Writer
  <2> HIDE DEF w
  <2>4. k - 1 \in Nat /\ k - 1 <= Len(via)
    BY <1>4, <1>5
  <2>5. faults' \in 0..MaxFaults
    BY <1>7, FaultCounted, Zenon
  <2>6. Reads(i, k - 1, w)
    BY <2>1, <2>3, <2>4, <2>5, <1>2, <1>3, <1>7, Zenon DEF env, via, Reads
  <2> QED BY <2>3, <2>4, <2>6, Zenon
<1>8. /\ Ended(writers[i].conn) \in Conns
      /\ Ended(writers[i].conn) = writers[i].conn \/ Ended(writers[i].conn) # "none"
  <2>1. "ended" \in Conns /\ "ended" # "none" /\ writers[i].conn \in Conns
    BY <1>1, Zenon DEF Conns, Writer
  <2> QED BY <2>1, Zenon DEF Ended
<1> QED BY <1>2, <1>6, <1>7, <1>8, Zenon

\* Reading keeps the types, and who holds the PID.
LEMMA ReaderReceiveTyped ==
  ASSUME Typed, Holder, NEW i \in 1..Newest, ReaderReceive(i)
  PROVE  Typed' /\ Holder'
<1>1. PICK n \in Nat, w \in Writer : Reads(i, n, w)
  BY ReaderReceiveEffect, Zenon
<1> DEFINE env == Head(writers[i].wire)
           part == SubSeq(Via(env, i), 1, n)
<1>2. /\ writers[i].wire # <<>> /\ env \in Envelopes /\ n <= Len(Via(env, i))
      /\ received' = received \o part
      /\ writers' = [writers EXCEPT ![i] = w]
      /\ w.inbox = writers[i].inbox /\ w.shut = writers[i].shut
      /\ w.conn = writers[i].conn \/ w.conn # "none"
      /\ faults' \in 0..MaxFaults
      /\ UNCHANGED <<router, entry, reg, unsent, routed, dead, lost, crashed>>
  BY <1>1, Zenon DEF Reads
<1>3. received' \in Seq(Handed)
  <2>1. Via(env, i) \in Seq(Handed) /\ received \in Seq(Handed)
    BY <1>2, ViaIsHanded, WriterIndices, Zenon DEF Typed
  <2> HIDE DEF env
  <2>2. part \in Seq(Handed)
    BY <2>1, <1>2
  <2> HIDE DEF part
  <2> QED BY <2>1, <2>2, <1>2
<1>4. /\ router' \in RouterState /\ router'.found = router.found /\ router'.msg = router.msg
      /\ router'.pc = router.pc /\ lost' \subseteq Msgs /\ crashed' \in BOOLEAN
  BY <1>2, Zenon DEF Typed
<1>5. writers[i].conn # "none"
  BY <1>2, Zenon DEF Holder
<1> HIDE DEF env, part
<1> QED BY <1>2, <1>3, <1>4, <1>5, WriterChanges, Zenon

\* The steps of Shutdown: only the writer that has the PID goes through them.
LEMMA ShutdownTyped ==
  ASSUME Typed, Holder, NEW i \in 1..Newest, Shutdown(i)
  PROVE  Typed' /\ Holder'
<1>1. writers[i] \in Writer /\ i \in Nat /\ i # 0 /\ Newest \in Nat
  BY WriterIndices, Zenon
<1>2. /\ UNCHANGED <<entry, unsent, routed, received, dead, lost, crashed, faults>>
      /\ router' = router \/ router' = [router EXCEPT !.inbox = Append(@, Unreachable)]
  BY Zenon DEF Shutdown, WatchClosed, ShutdownNotify, ShutdownStop, ShutdownRemove
<1>3. /\ router' \in RouterState /\ router'.pc = router.pc /\ router'.msg = router.msg
      /\ router'.found = router.found
  <2>1. router.inbox \in Seq(Msgs \cup {Unreachable}) /\ router \in RouterState
    BY Zenon DEF Typed, RouterState
  <2>2. Append(router.inbox, Unreachable) \in Seq(Msgs \cup {Unreachable})
    BY <2>1
  <2> QED BY <2>1, <2>2, <1>2, Zenon DEF RouterState
<1>4. reg = i
  <2>1. CASE WatchClosed(i)
    <3>1. writers[i].conn = "closed" /\ writers[i].shut = "none"
      BY <2>1, Zenon DEF WatchClosed
    <3>2. writers[i].conn # "none"
      BY <3>1, Zenon
    <3> QED BY <3>1, <3>2, Zenon DEF Holder
  <2>2. CASE ShutdownNotify(i) \/ ShutdownStop(i) \/ ShutdownRemove(i)
    BY <2>2, Zenon DEF Holder, ShutdownNotify, ShutdownStop, ShutdownRemove
  <2> QED BY <2>1, <2>2, Zenon DEF Shutdown
<1>5. router.pc = "dial" => Newest # i
  <2>1. SUFFICES ASSUME router.pc = "dial", Newest = i PROVE FALSE
    BY Zenon
  <2>2. writers[i].conn = "none" /\ writers[i].shut = "none"
    BY <2>1, Zenon DEF Holder
  <2>3. "none" # "closed" /\ "none" # "notify" /\ "none" # "stop" /\ "none" # "remove"
    BY Zenon
  <2> QED BY <2>2, <2>3, Zenon DEF Shutdown, WatchClosed, ShutdownNotify, ShutdownStop,
                                   ShutdownRemove
<1>6. PICK w \in Writer :
        /\ writers' = [writers EXCEPT ![i] = w] /\ w.conn = writers[i].conn
        /\ w.wire = writers[i].wire
        /\ \/ reg' = i /\ w.shut # "none"
              /\ (w.shut = "remove" => w.inbox = "stopped")
           \/ reg' = 0 /\ w.inbox = "stopped" /\ w.shut = "done"
  <2>1. ASSUME NEW t \in {"notify", "stop"}, writers' = [writers EXCEPT ![i].shut = t], reg' = reg
        PROVE  \E w \in Writer :
        /\ writers' = [writers EXCEPT ![i] = w] /\ w.conn = writers[i].conn
        /\ w.wire = writers[i].wire /\ reg' = i /\ w.shut # "none"
        /\ (w.shut = "remove" => w.inbox = "stopped")
    <3> DEFINE w == [writers[i] EXCEPT !.shut = t]
    <3>1. t \in Shuts /\ t # "none" /\ t # "remove"
      BY Zenon DEF Shuts
    <3>2. /\ w \in Writer /\ w.conn = writers[i].conn /\ w.wire = writers[i].wire
          /\ w.shut = t
      BY <1>1, <3>1, Zenon DEF Writer
    <3>3. writers' = [writers EXCEPT ![i] = w]
      BY <2>1, Zenon
    <3> HIDE DEF w
    <3> QED BY <3>1, <3>2, <3>3, <1>4, <2>1, Zenon
  <2>2. CASE ShutdownStop(i)
    <3> DEFINE v == [writers[i] EXCEPT !.inbox = "stopped"]
               w == [v EXCEPT !.shut = "remove"]
    <3>1. /\ v \in Writer /\ v.conn = writers[i].conn /\ v.wire = writers[i].wire
          /\ v.inbox = "stopped"
      BY <1>1, Zenon DEF Writer, Inboxes
    <3>2. writers' = [writers EXCEPT ![i] = w] /\ reg' = reg
      <4>1. i \in DOMAIN writers
        BY WriterIndices, Zenon
      <4> QED BY <4>1, <2>2, <1>1, Zenon DEF Writer, ShutdownStop
    <3> HIDE DEF v
    <3>3. /\ w \in Writer /\ w.conn = writers[i].conn /\ w.wire = writers[i].wire
          /\ w.inbox = "stopped" /\ w.shut = "remove"
      BY <3>1, Zenon DEF Writer, Shuts
    <3> HIDE DEF w
    <3>4. "remove" # "none"
      BY Zenon
    <3> QED BY <3>2, <3>3, <3>4, <1>4, Zenon
  <2>3. CASE ShutdownRemove(i)
    <3> DEFINE w == [writers[i] EXCEPT !.shut = "done"]
    <3>1. writers[i].inbox = "stopped"
      BY <2>3, Zenon DEF ShutdownRemove, Holder
    <3>2. /\ w \in Writer /\ w.conn = writers[i].conn /\ w.wire = writers[i].wire
          /\ w.inbox = "stopped" /\ w.shut = "done"
      BY <1>1, <3>1, Zenon DEF Writer, Shuts
    <3>3. writers' = [writers EXCEPT ![i] = w] /\ reg' = 0
      BY <2>3, Zenon DEF ShutdownRemove
    <3> HIDE DEF w
    <3> QED BY <3>2, <3>3, Zenon
  <2>4. CASE WatchClosed(i)
    BY <2>1, <2>4, Zenon DEF WatchClosed
  <2>5. CASE ShutdownNotify(i)
    BY <2>1, <2>5, Zenon DEF ShutdownNotify
  <2> QED BY <2>2, <2>3, <2>4, <2>5, Zenon DEF Shutdown
<1>7. /\ writers' \in Seq(Writer) /\ Newest' = Newest /\ writers'[i] = w
      /\ \A j \in 1..Newest : j # i => writers'[j] = writers[j]
  BY <1>6, SetWriter, Zenon
<1>8. reg' \in 0..Newest
  <2>1. i \in 0..Newest /\ 0 \in 0..Newest
    BY <1>1
  <2> QED BY <2>1, <1>6, Zenon
<1>9. Typed'
  BY <1>2, <1>3, <1>7, <1>8, Zenon DEF Typed
<1>10. ASSUME NEW j \in 1..Newest
       PROVE  /\ writers'[j].inbox = "open" => reg' = j
              /\ writers'[j].shut \in {"notify", "stop", "remove"} => reg' = j
              /\ writers'[j].shut = "remove" => writers'[j].inbox = "stopped"
              /\ writers'[j].conn # "none" /\ writers'[j].shut = "none" =>
                   writers'[j].inbox = "open"
              /\ writers'[j].wire # <<>> => writers'[j].conn # "none"
  <2>1. CASE j # i
    BY <2>1, <1>4, <1>7, Zenon DEF Holder
  <2>2. CASE j = i
    <3>1. writers'[j] = w /\ (w.wire # <<>> => w.conn # "none")
      BY <2>2, <1>6, <1>7, Zenon DEF Holder
    <3>2. "done" \notin {"notify", "stop", "remove"} /\ "done" # "none" /\ "done" # "remove"
          /\ "stopped" # "open"
      BY Zenon
    <3> QED BY <3>1, <3>2, <2>2, <1>6, Zenon
  <2> QED BY <2>1, <2>2, Zenon
<1>11. Holder'
  <2>1. router.pc = "dial" => Newest \in 1..Newest
    <3>1. router.pc = "dial" => Newest >= 1
      BY Zenon DEF Typed
    <3> QED BY <3>1, <1>1
  <2>2. router'.pc = "dial" => /\ writers'[Newest].inbox = "open" /\ writers'[Newest].shut = "none"
                              /\ writers'[Newest].conn = "none"
    BY <2>1, <1>3, <1>5, <1>7, Zenon DEF Holder
  <2> QED BY <2>2, <1>7, <1>10, Zenon DEF Holder
<1> QED BY <1>9, <1>11, Zenon
-----------------------------------------------------------------------------
(* The order of messages *)

\* x was accepted by Remote.Send; x was accepted before y was.
Sent(x) == \E i \in 1..Len(routed) : routed[i] = x
Before(x, y) ==
  \E i, j \in 1..Len(routed) : i < j /\ routed[i] = x /\ routed[j] = y

\* Where a message can be: in the router's inbox, in its hands, in the inbox of
\* a writer, on its wire, or handed over by its reader.
Waits(x) == x # Unreachable /\ \E k \in 1..Len(router.inbox) : router.inbox[k] = x
Busy == router.pc # "idle"
Queued(i, x) == \E k \in 1..Len(writers[i].queue) : writers[i].queue[k] = x
Carries(env, x) == x # Empty.data /\ \E k \in DOMAIN Decode(env) : Decode(env)[k].data = x
Wired(i, x) == \E k \in 1..Len(writers[i].wire) : Carries(writers[i].wire[k], x)
Got(i, x) == x # Empty.data /\ \E k \in 1..Len(received) :
                                 received[k].by = i /\ Arrived(k) = x
Held(i, x) == Queued(i, x) \/ Wired(i, x) \/ Got(i, x)

\* The messages of an envelope are in order.
Sorted(env) ==
  \A k, l \in DOMAIN Decode(env) :
    k < l /\ Decode(env)[k].data # Empty.data /\ Decode(env)[l].data # Empty.data =>
      Before(Decode(env)[k].data, Decode(env)[l].data)

\* Remote.Send is called once with a message.
SentOnce ==
  /\ \A i, j \in 1..Len(routed) : routed[i] = routed[j] => i = j
  /\ \A i \in 1..Len(routed) : routed[i] \notin unsent

\* The router has the messages in order.
RouterOrder ==
  /\ \A x \in Msgs : Waits(x) => Sent(x)
  /\ \A k, l \in 1..Len(router.inbox) :
       k < l /\ router.inbox[k] # Unreachable /\ router.inbox[l] # Unreachable =>
         Before(router.inbox[k], router.inbox[l])
  /\ Busy => Sent(router.msg) /\ \A y \in Msgs : Waits(y) => Before(router.msg, y)

\* What a writer has, no other has, and the router passed it on before what it
\* still has.
HeldOrder ==
  /\ \A i \in 1..Newest, x \in Msgs : Held(i, x) =>
       /\ Sent(x) /\ (Busy => Before(x, router.msg))
       /\ \A y \in Msgs : Waits(y) => Before(x, y)
  /\ \A i, j \in 1..Newest, x \in Msgs : Held(i, x) /\ Held(j, x) => i = j

\* What a writer has is in order, from what was handed over to its inbox.
InOrder(i) ==
  /\ \A x, y \in Msgs :
       /\ Got(i, x) /\ (Wired(i, y) \/ Queued(i, y)) => Before(x, y)
       /\ Wired(i, x) /\ Queued(i, y) => Before(x, y)
  /\ \A k, l \in 1..Len(writers[i].queue) : k < l =>
       Before(writers[i].queue[k], writers[i].queue[l])
  /\ \A k \in 1..Len(writers[i].wire) : Sorted(writers[i].wire[k])
  /\ \A k, l \in 1..Len(writers[i].wire) : k < l =>
       \A x, y \in Msgs : Carries(writers[i].wire[k], x) /\ Carries(writers[i].wire[l], y) =>
         Before(x, y)

WriterOrder == \A i \in 1..Newest : InOrder(i)

\* What a reader handed over is in order.
ReaderOrder ==
  /\ \A k \in 1..Len(received) : received[k].by \in 1..Newest
  /\ \A k, l \in 1..Len(received) :
       /\ k < l /\ received[k].by = received[l].by
       /\ Arrived(k) # Empty.data /\ Arrived(l) # Empty.data
       => Before(Arrived(k), Arrived(l))

Order == SentOnce /\ RouterOrder /\ HeldOrder /\ WriterOrder /\ ReaderOrder
\* Nothing is sent: the order of Remote.Send is as it was.
LEMMA SameOrder ==
  ASSUME routed' = routed
  PROVE  /\ \A x, y : Before(x, y)' <=> Before(x, y)
         /\ \A x : Sent(x)' <=> Sent(x)
         /\ \A env : Sorted(env)' <=> Sorted(env)
<1>1. \A x, y : Before(x, y)' <=> Before(x, y)
  BY Zenon DEF Before
<1>2. \A x : Sent(x)' <=> Sent(x)
  BY Zenon DEF Sent
<1>3. \A env : Sorted(env)' <=> Sorted(env)
  BY <1>1, Zenon DEF Sorted
<1> QED BY <1>1, <1>2, <1>3, Zenon

\* A message is not before itself.
LEMMA NotBeforeItself ==
  ASSUME SentOnce, NEW x, Before(x, x)
  PROVE  FALSE
<1>1. PICK i, j \in 1..Len(routed) : i < j /\ routed[i] = x /\ routed[j] = x
  BY Zenon DEF Before
<1>2. i = j
  BY <1>1, Zenon DEF SentOnce
<1> QED BY <1>1, <1>2

\* A step that leaves a writer's inbox and wire, and what was handed over.
LEMMA SameWriter ==
  ASSUME routed' = routed, received' = received, NEW i,
         writers'[i].queue = writers[i].queue, writers'[i].wire = writers[i].wire
  PROVE  /\ \A x : Queued(i, x)' <=> Queued(i, x)
         /\ \A x : Wired(i, x)' <=> Wired(i, x)
         /\ \A x : Got(i, x)' <=> Got(i, x)
         /\ \A x : Held(i, x)' <=> Held(i, x)
         /\ InOrder(i) => InOrder(i)'
<1>1. \A x : Queued(i, x)' <=> Queued(i, x)
  BY Zenon DEF Queued
<1>2. \A x : Wired(i, x)' <=> Wired(i, x)
  BY Zenon DEF Wired, Carries
<1>3. \A x : Got(i, x)' <=> Got(i, x)
  BY Zenon DEF Got, Arrived
<1>4. \A x : Held(i, x)' <=> Held(i, x)
  BY <1>1, <1>2, <1>3, Zenon DEF Held
<1>5. ASSUME InOrder(i) PROVE InOrder(i)'
  <2>1. \A x, y \in Msgs :
       /\ Got(i, x)' /\ (Wired(i, y)' \/ Queued(i, y)') => Before(x, y)'
       /\ Wired(i, x)' /\ Queued(i, y)' => Before(x, y)'
    BY <1>1, <1>2, <1>3, <1>5, SameOrder, Zenon DEF InOrder
  <2>2. \A k, l \in 1..Len(writers[i].queue) : k < l =>
          Before(writers'[i].queue[k], writers'[i].queue[l])
    BY <1>5, Zenon DEF InOrder
  <2>3. \A k \in 1..Len(writers[i].wire) : Sorted(writers'[i].wire[k])
    BY <1>5, Zenon DEF InOrder
  <2>4. \A k, l \in 1..Len(writers[i].wire) : k < l =>
          \A x, y \in Msgs : Carries(writers'[i].wire[k], x) /\ Carries(writers'[i].wire[l], y) =>
            Before(x, y)
    BY <1>5, Zenon DEF InOrder
  <2>5. \A k, l \in 1..Len(writers'[i].queue) : k < l =>
          (Before(writers[i].queue[k], writers[i].queue[l]))'
    BY <2>2, SameOrder, Zenon
  <2>6. \A k \in 1..Len(writers'[i].wire) : (Sorted(writers[i].wire[k]))'
    BY <2>3, SameOrder, Zenon
  <2>7. \A k, l \in 1..Len(writers'[i].wire) : k < l =>
          \A x, y \in Msgs : (Carries(writers[i].wire[k], x) /\ Carries(writers[i].wire[l], y))' =>
            Before(x, y)'
    BY <2>4, SameOrder, ZenonT(40) DEF Carries
  <2> QED BY <2>1, <2>5, <2>6, <2>7, Zenon DEF InOrder
<1> QED BY <1>1, <1>2, <1>3, <1>4, <1>5, Zenon

\* What was handed over stays in order as long as nothing is.
LEMMA SameReader ==
  ASSUME Order, routed' = routed, received' = received, 1..Newest \subseteq (1..Newest)'
  PROVE  ReaderOrder'
BY SameOrder, Zenon DEF Order, ReaderOrder, Arrived

\* A step that leaves the messages where they are, but for one the router may
\* have given up.
LEMMA Stays ==
  ASSUME Order, routed' = routed, received' = received, unsent' = unsent,
         router'.inbox = router.inbox, router'.msg = router.msg, Busy' => Busy,
         Newest' = Newest,
         \A i \in 1..Newest : /\ writers'[i].queue = writers[i].queue
                              /\ writers'[i].wire = writers[i].wire
  PROVE  Order'
<1>1. SentOnce'
  BY Zenon DEF Order, SentOnce
<1>2. \A x : Waits(x)' <=> Waits(x)
  BY Zenon DEF Waits
<1>3. RouterOrder'
  BY <1>2, SameOrder, Zenon DEF Order, RouterOrder
<1>4. \A i \in 1..Newest : (\A x : Held(i, x)' <=> Held(i, x)) /\ (InOrder(i) => InOrder(i)')
  BY SameWriter, Zenon
<1>5. HeldOrder'
  BY <1>2, <1>4, SameOrder, Zenon DEF Order, HeldOrder
<1>6. WriterOrder'
  BY <1>4, Zenon DEF Order, WriterOrder
<1>7. ReaderOrder'
  BY SameReader, Zenon
<1> QED BY <1>1, <1>3, <1>5, <1>6, <1>7, Zenon DEF Order

\* Nothing is sent or held.
LEMMA InitOrder == Init => Order
<1> SUFFICES ASSUME Init PROVE Order
  BY Zenon
<1>1. Len(routed) = 0 /\ Len(received) = 0 /\ Newest = 0 /\ Len(router.inbox) = 0 /\ 1..0 = {}
  BY DEF Init, Newest
<1>2. ~Busy
  BY Zenon DEF Init, Busy
<1> QED BY <1>1, <1>2, Zenon DEF Order, SentOnce, RouterOrder, HeldOrder, WriterOrder, ReaderOrder, Waits

\* Remote.Send: the message is behind all others.
LEMMA SendOrder ==
  ASSUME Typed, Order, NEW m \in Msgs, Send(m)
  PROVE  Order'
<1>1. /\ m \in unsent /\ unsent' = unsent \ {m}
      /\ router' = [router EXCEPT !.inbox = Append(router.inbox, m)]
      /\ routed' = Append(routed, m)
      /\ writers' = writers /\ received' = received
  BY Zenon DEF Send
<1>2. router \in RouterState /\ router.inbox \in Seq(Msgs \cup {Unreachable}) /\ routed \in Seq(Msgs)
  BY Zenon DEF Typed, RouterState
<1>3. /\ router'.inbox = Append(router.inbox, m) /\ router'.msg = router.msg
      /\ router'.pc = router.pc
  BY <1>1, <1>2, Zenon DEF RouterState
<1> DEFINE n == Len(routed)
           q == router.inbox
           e == Len(q)
<1>4. /\ n \in Nat /\ Len(routed') = n + 1 /\ routed'[n + 1] = m
      /\ \A i \in 1..n : routed'[i] = routed[i] /\ i \in 1..(n + 1) /\ i < n + 1 /\ i # n + 1
      /\ \A i \in 1..(n + 1) : i \in 1..n \/ i = n + 1
      /\ n + 1 \in 1..(n + 1)
  BY <1>1, <1>2
<1>5. /\ e \in Nat /\ Len(router'.inbox) = e + 1 /\ router'.inbox[e + 1] = m
      /\ \A i \in 1..e : router'.inbox[i] = q[i] /\ i \in 1..(e + 1)
      /\ \A i \in 1..(e + 1) : i \in 1..e \/ i = e + 1
      /\ e + 1 \in 1..(e + 1) /\ \A i \in 1..e : ~(e + 1 < i)
      /\ ~(e + 1 < e + 1)
  BY <1>2, <1>3
<1> HIDE DEF n, q, e
<1>6. /\ \A x, y : Before(x, y) => Before(x, y)'
      /\ \A x : Sent(x) => Sent(x)' /\ Before(x, m)'
      /\ Sent(m)'
  <2>1. \A x, y : Before(x, y) => Before(x, y)'
    BY <1>4, Zenon DEF Before, n
  <2>2. \A x : Sent(x) => Sent(x)'
    BY <1>4, Zenon DEF Sent, n
  <2>3. \A x : Sent(x) => Before(x, m)'
    BY <1>4, Zenon DEF Sent, Before, n
  <2>4. Sent(m)'
    BY <1>4, Zenon DEF Sent
  <2> QED BY <2>1, <2>2, <2>3, <2>4, Zenon
<1>7. \A env : Sorted(env) => Sorted(env)'
  BY <1>6, Zenon DEF Sorted
<1>8. \A x : Waits(x)' => Waits(x) \/ x = m
  BY <1>5, Zenon DEF Waits, q, e
<1>9. SentOnce'
  <2>1. \A i \in 1..n : routed[i] \notin unsent
    BY Zenon DEF Order, SentOnce, n
  <2>2. \A i \in 1..n : routed[i] # m
    BY <2>1, <1>1, Zenon
  <2>3. \A i \in 1..(n + 1) : routed'[i] \notin unsent'
    BY <2>1, <1>1, <1>4, Zenon
  <2>4. \A i, j \in 1..n : routed[i] = routed[j] => i = j
    BY Zenon DEF Order, SentOnce, n
  <2>5. \A i, j \in 1..(n + 1) : routed'[i] = routed'[j] => i = j
    BY <2>2, <2>4, <1>4, Zenon
  <2> QED BY <2>3, <2>5, <1>4, Zenon DEF SentOnce
<1>10. RouterOrder'
  <2>1. \A x \in Msgs : Waits(x)' => Sent(x)'
    BY <1>6, <1>8, Zenon DEF Order, RouterOrder
  <2>2. ASSUME NEW k \in 1..(e + 1), NEW l \in 1..(e + 1), k < l,
               router'.inbox[k] # Unreachable, router'.inbox[l] # Unreachable
        PROVE  (Before(router.inbox[k], router.inbox[l]))'
    <3>1. k \in 1..e
      BY <2>2, <1>5, Zenon
    <3>2. q[k] = router'.inbox[k] /\ q[k] # Unreachable
      BY <2>2, <3>1, <1>5, Zenon
    <3>3. CASE l \in 1..e
      <4>1. q[l] = router'.inbox[l] /\ q[l] # Unreachable
        BY <2>2, <3>3, <1>5, Zenon
      <4>2. Before(q[k], q[l])
        BY <2>2, <3>1, <3>2, <3>3, <4>1, Zenon DEF Order, RouterOrder, q, e
      <4>3. \A x, y : x = router'.inbox[k] /\ y = router'.inbox[l] /\ Before(x, y) => Before(x, y)'
        BY <1>6, Zenon
      <4> QED BY <3>2, <4>1, <4>2, <4>3, Zenon
    <3>4. CASE l = e + 1
      <4>1. q[k] \in Msgs
        BY <3>1, <3>2, <1>2 DEF q, e
      <4>2. Waits(q[k])
        BY <3>1, <3>2, Zenon DEF Waits, q, e
      <4>3. Sent(q[k])
        BY <4>1, <4>2, Zenon DEF Order, RouterOrder
      <4> QED BY <4>3, <3>2, <3>4, <1>5, <1>6, Zenon
    <3> QED BY <3>3, <3>4, <1>5, Zenon
  <2>3. Busy' => Sent(router.msg)' /\ \A y \in Msgs : Waits(y)' => Before(router.msg, y)'
    <3>1. Busy' <=> Busy
      BY <1>3, Zenon DEF Busy
    <3>2. Busy => Sent(router.msg) /\ \A y \in Msgs : Waits(y) => Before(router.msg, y)
      BY Zenon DEF Order, RouterOrder
    <3> QED BY <3>1, <3>2, <1>3, <1>6, <1>8, Zenon
  <2> QED BY <2>1, <2>2, <2>3, <1>5, Zenon DEF RouterOrder
<1>11. Newest' = Newest
  BY <1>1, Zenon DEF Newest
<1>12. \A i, x : /\ Queued(i, x)' <=> Queued(i, x)
                 /\ Wired(i, x)' <=> Wired(i, x)
                 /\ Got(i, x)' <=> Got(i, x)
                 /\ Held(i, x)' <=> Held(i, x)
  BY <1>1, ZenonT(40) DEF Held, Queued, Wired, Got, Carries, Arrived
<1>13. HeldOrder'
  <2>1. Busy' <=> Busy
    BY <1>3, Zenon DEF Busy
  <2>2. ASSUME NEW i \in 1..Newest, NEW x \in Msgs, Held(i, x)
        PROVE  /\ Sent(x)' /\ (Busy' => Before(x, router.msg)')
               /\ \A y \in Msgs : Waits(y)' => Before(x, y)'
    <3>1. /\ Sent(x) /\ (Busy => Before(x, router.msg))
          /\ \A y \in Msgs : Waits(y) => Before(x, y)
      BY <2>2, Zenon DEF Order, HeldOrder
    <3> QED BY <3>1, <2>1, <1>3, <1>6, <1>8, Zenon
  <2> QED BY <2>2, <1>11, <1>12, Zenon DEF Order, HeldOrder
<1>14. WriterOrder'
  <2>1. ASSUME NEW i \in 1..Newest PROVE InOrder(i)'
    <3>1. InOrder(i)
      BY Zenon DEF Order, WriterOrder
    <3>2. \A x, y \in Msgs :
            /\ Got(i, x)' /\ (Wired(i, y)' \/ Queued(i, y)') => Before(x, y)'
            /\ Wired(i, x)' /\ Queued(i, y)' => Before(x, y)'
      BY <3>1, <1>6, <1>12, Zenon DEF InOrder
    <3>3. /\ \A k, l \in 1..Len(writers[i].queue) : k < l =>
               (Before(writers[i].queue[k], writers[i].queue[l]))'
          /\ \A k \in 1..Len(writers[i].wire) : (Sorted(writers[i].wire[k]))'
      BY <3>1, <1>1, <1>6, <1>7, Zenon DEF InOrder
    <3>4. \A k, l \in 1..Len(writers[i].wire) : k < l =>
            \A x, y \in Msgs : (Carries(writers[i].wire[k], x) /\ Carries(writers[i].wire[l], y))' =>
              Before(x, y)'
      <4>1. \A k, l \in 1..Len(writers[i].wire) : k < l =>
              \A x, y \in Msgs : Carries(writers'[i].wire[k], x) /\ Carries(writers'[i].wire[l], y) =>
                Before(x, y)
        BY <3>1, <1>1, Zenon DEF InOrder
      <4> QED BY <4>1, <1>6, Zenon DEF Carries
    <3> QED BY <3>2, <3>3, <3>4, <1>1, Zenon DEF InOrder
  <2> QED BY <2>1, <1>11, Zenon DEF WriterOrder
<1>15. ReaderOrder'
  BY <1>1, <1>6, <1>11, Zenon DEF Order, ReaderOrder, Arrived
<1> QED BY <1>9, <1>10, <1>13, <1>14, <1>15, Zenon DEF Order
\* The router takes the message at the head of its inbox.
LEMMA RouterReceiveOrder ==
  ASSUME Typed, Order, RouterReceive
  PROVE  Order'
<1> DEFINE q == router.inbox
           e == Len(q)
<1>1. /\ router.pc = "idle" /\ q # <<>>
      /\ \/ /\ q[1] = Unreachable
            /\ router' = [router EXCEPT !.inbox = Tail(q)]
         \/ /\ q[1] # Unreachable
            /\ router' = [router EXCEPT !.inbox = Tail(q), !.msg = q[1],
                                        !.pc = IF entry THEN "lookup" ELSE "spawn"]
      /\ UNCHANGED <<writers, unsent, routed, received>>
  <2>1. Head(q) = q[1]
    OBVIOUS
  <2> QED BY <2>1, Zenon DEF RouterReceive
<1>2. router \in RouterState /\ q \in Seq(Msgs \cup {Unreachable})
  BY Zenon DEF Typed, RouterState
<1> HIDE DEF q
<1>3. /\ router'.inbox = Tail(q)
      /\ \/ q[1] = Unreachable /\ router'.pc = "idle"
         \/ q[1] # Unreachable /\ router'.msg = q[1]
  BY <1>1, <1>2, Zenon DEF RouterState
<1>4. /\ e \in Nat /\ 1 \in 1..e /\ Len(Tail(q)) = e - 1 /\ q[1] \in Msgs \cup {Unreachable}
      /\ \A k \in 1..(e - 1) : Tail(q)[k] = q[k + 1] /\ k + 1 \in 1..e /\ 1 < k + 1
      /\ \A k, l \in 1..(e - 1) : k < l => k + 1 < l + 1
      /\ \A k \in 1..e : q[k] \in Msgs \cup {Unreachable}
  BY <1>1, <1>2
<1> HIDE DEF e
<1>5. \A x : Waits(x)' => Waits(x) /\ \E k \in 1..e : 1 < k /\ q[k] = x
  BY <1>3, <1>4, Zenon DEF Waits, q, e
<1>6. Newest' = Newest /\ routed' = routed /\ received' = received /\ writers' = writers
  BY <1>1, Zenon DEF Newest
<1>7. ~Busy
  BY <1>1, Zenon DEF Busy
<1>8. SentOnce'
  BY <1>1, Zenon DEF Order, SentOnce
<1>9. ASSUME Busy'
      PROVE  q[1] # Unreachable /\ router'.msg = q[1] /\ q[1] \in Msgs /\ Waits(q[1])
  <2>1. q[1] # Unreachable /\ router'.msg = q[1]
    BY <1>3, <1>9, Zenon DEF Busy
  <2> QED BY <2>1, <1>4, Zenon DEF Waits, q, e
<1>10. RouterOrder'
  <2>1. \A x \in Msgs : Waits(x)' => Sent(x)'
    BY <1>5, <1>6, SameOrder, Zenon DEF Order, RouterOrder
  <2>2. ASSUME NEW k \in 1..(e - 1), NEW l \in 1..(e - 1), k < l,
               Tail(q)[k] # Unreachable, Tail(q)[l] # Unreachable
        PROVE  Before(Tail(q)[k], Tail(q)[l])
    <3>1. /\ Tail(q)[k] = q[k + 1] /\ Tail(q)[l] = q[l + 1] /\ k + 1 < l + 1
          /\ k + 1 \in 1..e /\ l + 1 \in 1..e
      BY <1>4, <2>2, Zenon
    <3>2. Before(q[k + 1], q[l + 1])
      BY <3>1, <2>2, Zenon DEF Order, RouterOrder, q, e
    <3> QED BY <3>1, <3>2, Zenon
  <2>3. \A k, l \in 1..Len(router'.inbox) :
          k < l /\ router'.inbox[k] # Unreachable /\ router'.inbox[l] # Unreachable =>
            (Before(router.inbox[k], router.inbox[l]))'
    BY <2>2, <1>3, <1>4, <1>6, SameOrder, Zenon
  <2>4. ASSUME Busy' PROVE Sent(router.msg)' /\ \A y \in Msgs : Waits(y)' => Before(router.msg, y)'
    <3>1. q[1] # Unreachable /\ router'.msg = q[1] /\ Sent(q[1])
      BY <1>9, <2>4, Zenon DEF Order, RouterOrder
    <3>2. ASSUME NEW y \in Msgs, Waits(y)' PROVE Before(q[1], y)
      <4>1. PICK k \in 1..e : 1 < k /\ q[k] = y
        BY <1>5, <3>2, Zenon
      <4>2. y # Unreachable
        BY <3>2, Zenon DEF Waits
      <4>3. Before(q[1], q[k])
        BY <4>1, <4>2, <3>1, <1>4, Zenon DEF Order, RouterOrder, q, e
      <4> QED BY <4>1, <4>3, Zenon
    <3> QED BY <3>1, <3>2, <1>6, SameOrder, Zenon
  <2> QED BY <2>1, <2>3, <2>4, Zenon DEF RouterOrder
<1>11. \A i \in 1..Newest : (\A x : Held(i, x)' <=> Held(i, x)) /\ (InOrder(i) => InOrder(i)')
  BY <1>6, SameWriter, Zenon
<1>12. HeldOrder'
  <2>1. ASSUME NEW i \in 1..Newest, NEW x \in Msgs, Held(i, x)
        PROVE  /\ Sent(x)' /\ (Busy' => Before(x, router.msg)')
               /\ \A y \in Msgs : Waits(y)' => Before(x, y)'
    <3>1. Sent(x) /\ \A y \in Msgs : Waits(y) => Before(x, y)
      BY <2>1, Zenon DEF Order, HeldOrder
    <3>2. Busy' => Before(x, q[1]) /\ router'.msg = q[1]
      BY <3>1, <1>9, Zenon
    <3> QED BY <3>1, <3>2, <1>5, <1>6, SameOrder, Zenon
  <2> QED BY <2>1, <1>6, <1>11, Zenon DEF Order, HeldOrder
<1>13. WriterOrder'
  BY <1>6, <1>11, Zenon DEF Order, WriterOrder
<1>14. ReaderOrder'
  BY <1>6, SameReader, Zenon
<1> QED BY <1>8, <1>10, <1>12, <1>13, <1>14, Zenon DEF Order

\* The notice of a Shutdown is no message.
LEMMA ShutdownNotifyOrder ==
  ASSUME Typed, Order, NEW i \in 1..Newest, ShutdownNotify(i)
  PROVE  Order'
<1> DEFINE q == router.inbox
           e == Len(q)
<1>1. /\ router' = [router EXCEPT !.inbox = Append(q, Unreachable)]
      /\ writers' = [writers EXCEPT ![i].shut = "stop"]
      /\ UNCHANGED <<unsent, routed, received>>
  BY Zenon DEF ShutdownNotify
<1>2. router \in RouterState /\ q \in Seq(Msgs \cup {Unreachable})
  BY Zenon DEF Typed, RouterState
<1> HIDE DEF q
<1>3. /\ router'.inbox = Append(q, Unreachable) /\ router'.msg = router.msg
      /\ router'.pc = router.pc
  BY <1>1, <1>2, Zenon DEF RouterState
<1>4. /\ Len(router'.inbox) = e + 1 /\ router'.inbox[e + 1] = Unreachable
      /\ \A k \in 1..e : router'.inbox[k] = q[k]
      /\ \A k \in 1..(e + 1) : k \in 1..e \/ k = e + 1
  BY <1>2, <1>3
<1> HIDE DEF e
<1>5. \A x : Waits(x)' => Waits(x)
  BY <1>4, Zenon DEF Waits, q, e
<1>6. /\ Newest' = Newest
      /\ \A j \in 1..Newest : /\ writers'[j].queue = writers[j].queue
                              /\ writers'[j].wire = writers[j].wire
  <2> DEFINE w == [writers[i] EXCEPT !.shut = "stop"]
  <2>1. writers[i] \in Writer
    BY WriterIndices, Zenon
  <2>2. w \in Writer /\ w.queue = writers[i].queue /\ w.wire = writers[i].wire
    BY <2>1, Zenon DEF Writer, Shuts
  <2>3. writers' = [writers EXCEPT ![i] = w]
    BY <1>1, Zenon
  <2> HIDE DEF w
  <2> QED BY <2>2, <2>3, SetWriter, Zenon
<1>7. RouterOrder'
  <2>1. \A x \in Msgs : Waits(x)' => Sent(x)'
    BY <1>1, <1>5, SameOrder, Zenon DEF Order, RouterOrder
  <2>2. ASSUME NEW k \in 1..(e + 1), NEW l \in 1..(e + 1), k < l,
               router'.inbox[k] # Unreachable, router'.inbox[l] # Unreachable
        PROVE  (Before(router.inbox[k], router.inbox[l]))'
    <3>1. /\ k \in 1..e /\ l \in 1..e /\ router'.inbox[k] = q[k] /\ router'.inbox[l] = q[l]
      BY <1>4, <2>2, Zenon
    <3>2. Before(q[k], q[l])
      BY <3>1, <2>2, Zenon DEF Order, RouterOrder, q, e
    <3> QED BY <3>1, <3>2, <1>1, SameOrder, Zenon
  <2>3. Busy' => Sent(router.msg)' /\ \A y \in Msgs : Waits(y)' => Before(router.msg, y)'
    <3>1. Busy' <=> Busy
      BY <1>3, Zenon DEF Busy
    <3>2. Busy => Sent(router.msg) /\ \A y \in Msgs : Waits(y) => Before(router.msg, y)
      BY Zenon DEF Order, RouterOrder
    <3> QED BY <3>1, <3>2, <1>1, <1>3, <1>5, SameOrder, Zenon
  <2> QED BY <2>1, <2>2, <2>3, <1>4, Zenon DEF RouterOrder
<1>8. \A j \in 1..Newest : (\A x : Held(j, x)' <=> Held(j, x)) /\ (InOrder(j) => InOrder(j)')
  BY <1>1, <1>6, SameWriter, Zenon
<1>9. HeldOrder'
  <2>1. Busy' <=> Busy
    BY <1>3, Zenon DEF Busy
  <2> QED BY <2>1, <1>1, <1>3, <1>5, <1>6, <1>8, SameOrder, Zenon DEF Order, HeldOrder
<1>10. WriterOrder'
  BY <1>6, <1>8, Zenon DEF Order, WriterOrder
<1>11. ReaderOrder'
  BY <1>1, <1>6, SameReader, Zenon
<1>12. SentOnce'
  BY <1>1, Zenon DEF Order, SentOnce
<1> QED BY <1>7, <1>9, <1>10, <1>11, <1>12, Zenon DEF Order
\* A new writer has nothing.
LEMMA RouterSpawnOrder ==
  ASSUME Typed, Order, RouterSpawn
  PROVE  Order'
<1>0. PICK n : n = Newest
  BY Zenon
<1>1. PICK w : writers' = Append(writers, w) /\ w.queue = <<>> /\ w.wire = <<>> /\ w \in Writer
  <2>1. <<>> \in Seq(Msgs) /\ <<>> \in Seq(Envelopes)
    OBVIOUS
  <2>2. NewWriter \in Writer /\ NewWriter.queue = <<>> /\ NewWriter.wire = <<>>
    BY <2>1, Zenon DEF NewWriter, Writer, Inboxes, Conns, Shuts
  <2> DEFINE open == [NewWriter EXCEPT !.inbox = "open"]
  <2>3. open \in Writer /\ open.queue = <<>> /\ open.wire = <<>>
    BY <2>1, Zenon DEF NewWriter, Writer, Inboxes, Conns, Shuts
  <2> HIDE DEF open
  <2> QED BY <2>2, <2>3, Zenon DEF RouterSpawn, open
<1>2. /\ UNCHANGED <<unsent, routed, received>> /\ router.pc = "spawn"
      /\ \/ router' = [router EXCEPT !.pc = "dial"]
         \/ router' = [router EXCEPT !.pc = "record"]
  BY Zenon DEF RouterSpawn
<1>3. router'.inbox = router.inbox /\ router'.msg = router.msg
  BY <1>2, Zenon DEF Typed, RouterState
<1>4. /\ Newest' = n + 1 /\ n \in Nat /\ writers'[n + 1] = w /\ 1..n \subseteq 1..(n + 1)
      /\ \A j \in 1..n : writers'[j] = writers[j] /\ j # n + 1
      /\ \A j \in 1..(n + 1) : j \in 1..n \/ j = n + 1
      /\ n + 1 \notin 1..n /\ 1..0 = {} /\ Len(w.queue) = 0 /\ Len(w.wire) = 0
  <2>1. writers \in Seq(Writer)
    BY Zenon DEF Typed
  <2> QED BY <2>1, <1>0, <1>1 DEF Newest
<1>5. Busy
  <2>1. "spawn" # "idle"
    BY Zenon
  <2> QED BY <2>1, <1>2, Zenon DEF Busy
<1>6. \A x : Waits(x)' <=> Waits(x)
  BY <1>3, Zenon DEF Waits
<1>7. \A i \in 1..n : (\A x : Held(i, x)' <=> Held(i, x)) /\ (InOrder(i) => InOrder(i)')
  BY <1>0, <1>2, <1>4, SameWriter, Zenon
<1>8. \A x : ~Queued(n + 1, x)' /\ ~Wired(n + 1, x)' /\ ~Got(n + 1, x)' /\ ~Held(n + 1, x)'
  <2>1. \A x : ~Queued(n + 1, x)'
    BY <1>4, Zenon DEF Queued
  <2>2. \A x : ~Wired(n + 1, x)'
    BY <1>4, Zenon DEF Wired
  <2>3. \A k \in 1..Len(received) : received[k].by # n + 1
    BY <1>0, <1>4, Zenon DEF Order, ReaderOrder
  <2>4. \A x : ~Got(n + 1, x)'
    BY <2>3, <1>2, Zenon DEF Got
  <2> QED BY <2>1, <2>2, <2>4, Zenon DEF Held
<1>9. SentOnce'
  BY <1>2, Zenon DEF Order, SentOnce
<1>10. RouterOrder'
  BY <1>2, <1>3, <1>5, <1>6, SameOrder, Zenon DEF Order, RouterOrder
<1>11. HeldOrder'
  <2>1. ASSUME NEW i \in 1..(n + 1), NEW x \in Msgs, Held(i, x)'
        PROVE  i \in 1..n /\ Held(i, x)
    BY <2>1, <1>4, <1>7, <1>8, Zenon
  <2>2. ASSUME NEW i \in 1..n, NEW x \in Msgs, Held(i, x)
        PROVE  Sent(x)' /\ (Busy' => Before(x, router.msg)') /\ \A y \in Msgs : Waits(y)' => Before(x, y)'
    <3>1. Sent(x) /\ Before(x, router.msg) /\ \A y \in Msgs : Waits(y) => Before(x, y)
      BY <2>2, <1>0, <1>5, Zenon DEF Order, HeldOrder
    <3> QED BY <3>1, <1>2, <1>3, <1>6, SameOrder, Zenon
  <2>3. \A i, j \in 1..n, x \in Msgs : Held(i, x) /\ Held(j, x) => i = j
    BY <1>0, Zenon DEF Order, HeldOrder
  <2> QED BY <2>1, <2>2, <2>3, <1>4, Zenon DEF HeldOrder
<1>12. WriterOrder'
  <2>1. InOrder(n + 1)'
    BY <1>4, <1>8, Zenon DEF InOrder
  <2> QED BY <2>1, <1>0, <1>4, <1>7, Zenon DEF Order, WriterOrder
<1>13. ReaderOrder'
  BY <1>0, <1>2, <1>4, SameReader, Zenon
<1> QED BY <1>9, <1>10, <1>11, <1>12, <1>13, Zenon DEF Order

\* The order of what the writer i has after a step that sends nothing.
LEMMA OneInOrder ==
  ASSUME NEW i, NEW w, routed' = routed, writers'[i] = w,
         \A x, y \in Msgs :
           /\ Got(i, x)' /\ (Wired(i, y)' \/ Queued(i, y)') => Before(x, y)
           /\ Wired(i, x)' /\ Queued(i, y)' => Before(x, y),
         \A k, l \in 1..Len(w.queue) : k < l => Before(w.queue[k], w.queue[l]),
         \A k \in 1..Len(w.wire) : Sorted(w.wire[k]),
         \A k, l \in 1..Len(w.wire) : k < l =>
           \A x, y \in Msgs : Carries(w.wire[k], x) /\ Carries(w.wire[l], y) => Before(x, y)
  PROVE  InOrder(i)'
<1>1. \A x, y \in Msgs :
           /\ Got(i, x)' /\ (Wired(i, y)' \/ Queued(i, y)') => Before(x, y)'
           /\ Wired(i, x)' /\ Queued(i, y)' => Before(x, y)'
  BY SameOrder, Zenon
<1>2. \A k, l \in 1..Len(writers'[i].queue) : k < l =>
        (Before(writers[i].queue[k], writers[i].queue[l]))'
  BY SameOrder, Zenon
<1>3. \A k \in 1..Len(writers'[i].wire) : (Sorted(writers[i].wire[k]))'
  BY SameOrder, Zenon
<1>4. \A k, l \in 1..Len(writers'[i].wire) : k < l =>
        \A x, y \in Msgs : (Carries(writers[i].wire[k], x) /\ Carries(writers[i].wire[l], y))' =>
          Before(x, y)'
  BY SameOrder, ZenonT(40) DEF Carries
<1> QED BY <1>1, <1>2, <1>3, <1>4, Zenon DEF InOrder

\* The router passes a message on: it is behind all that writers have.
LEMMA RouterPushOrder ==
  ASSUME Typed, Order, RouterPush
  PROVE  Order'
<1>0. PICK i, m : i = router.found /\ m = router.msg
  BY Zenon
<1> DEFINE q == writers[i].queue
           w == [writers[i] EXCEPT !.queue = Append(q, m)]
<1>1. /\ router.pc = "push" /\ router' = [router EXCEPT !.pc = "idle"]
      /\ writers' = [writers EXCEPT ![i] = w]
      /\ UNCHANGED <<unsent, routed, received>>
  BY <1>0, Zenon DEF RouterPush
<1>2. i \in 1..Newest /\ m \in Msgs /\ Busy
  <2>1. router.pc # "idle"
    BY <1>1, Zenon
  <2> QED BY <1>0, <1>1, <2>1, Zenon DEF Typed, Busy
<1>3. writers[i] \in Writer /\ q \in Seq(Msgs)
  BY <1>2, WriterIndices, Zenon DEF Writer
<1>4. Append(q, m) \in Seq(Msgs)
  BY <1>2, <1>3
<1>5. w \in Writer /\ w.queue = Append(q, m) /\ w.wire = writers[i].wire
  BY <1>3, <1>4, Zenon DEF Writer
<1> HIDE DEF w
<1>6. /\ Newest' = Newest /\ writers'[i] = w
      /\ \A j \in 1..Newest : j # i => writers'[j] = writers[j]
  BY <1>1, <1>2, <1>5, SetWriter, Zenon
<1>7. router'.inbox = router.inbox /\ router'.msg = router.msg /\ ~Busy'
  BY <1>1, Zenon DEF Typed, RouterState, Busy
<1>8. \A x : Waits(x)' <=> Waits(x)
  BY <1>7, Zenon DEF Waits
<1> DEFINE e == Len(q)
<1> HIDE DEF q
<1>9. /\ Len(w.queue) = e + 1 /\ w.queue[e + 1] = m /\ e \in Nat
      /\ \A k \in 1..e : w.queue[k] = q[k] /\ q[k] \in Msgs
      /\ \A k \in 1..(e + 1) : k \in 1..e \/ k = e + 1
      /\ \A k \in 1..e : ~(e + 1 < k)
      /\ ~(e + 1 < e + 1)
  BY <1>2, <1>3, <1>5
<1> HIDE DEF e
<1>10. \A j \in 1..Newest : j # i =>
         (\A x : Held(j, x)' <=> Held(j, x)) /\ (InOrder(j) => InOrder(j)')
  BY <1>1, <1>6, SameWriter, Zenon
<1>11. /\ \A x : Queued(i, x)' => Queued(i, x) \/ x = m
       /\ \A x : Wired(i, x)' <=> Wired(i, x)
       /\ \A x : Got(i, x)' <=> Got(i, x)
       /\ \A x : Held(i, x)' => Held(i, x) \/ x = m
  <2>1. \A x : Queued(i, x)' => Queued(i, x) \/ x = m
    BY <1>6, <1>9, Zenon DEF Queued, q, e
  <2>2. \A x : Wired(i, x)' <=> Wired(i, x)
    BY <1>5, <1>6, Zenon DEF Wired, Carries
  <2>3. \A x : Got(i, x)' <=> Got(i, x)
    BY <1>1, Zenon DEF Got, Arrived
  <2> QED BY <2>1, <2>2, <2>3, Zenon DEF Held
<1>12. \A j \in 1..Newest, x \in Msgs : Held(j, x) =>
         /\ Sent(x) /\ Before(x, m) /\ x # m
         /\ \A y \in Msgs : Waits(y) => Before(x, y)
  <2>1. ASSUME NEW j \in 1..Newest, NEW x \in Msgs, Held(j, x)
        PROVE  /\ Sent(x) /\ Before(x, m)
               /\ \A y \in Msgs : Waits(y) => Before(x, y)
    BY <2>1, <1>0, <1>2, Zenon DEF Order, HeldOrder
  <2> QED BY <2>1, NotBeforeItself, Zenon DEF Order
<1>13. Sent(m) /\ \A y \in Msgs : Waits(y) => Before(m, y)
  BY <1>0, <1>2, Zenon DEF Order, RouterOrder
<1>14. SentOnce'
  BY <1>1, Zenon DEF Order, SentOnce
<1>15. RouterOrder'
  BY <1>1, <1>7, <1>8, SameOrder, Zenon DEF Order, RouterOrder
<1>16. HeldOrder'
  <2>1. ASSUME NEW j \in 1..Newest, NEW x \in Msgs, Held(j, x)'
        PROVE  Held(j, x) \/ (j = i /\ x = m)
    BY <2>1, <1>10, <1>11, Zenon
  <2>2. ASSUME NEW j \in 1..Newest, NEW x \in Msgs, Held(j, x)'
        PROVE  Sent(x)' /\ \A y \in Msgs : Waits(y)' => Before(x, y)'
    <3>1. Sent(x) /\ \A y \in Msgs : Waits(y) => Before(x, y)
      BY <2>1, <2>2, <1>12, <1>13, Zenon
    <3> QED BY <3>1, <1>1, <1>8, SameOrder, Zenon
  <2>3. \A j, l \in 1..Newest, x \in Msgs : Held(j, x) /\ Held(l, x) => j = l
    BY Zenon DEF Order, HeldOrder
  <2>4. \A j, l \in 1..Newest, x \in Msgs : Held(j, x)' /\ Held(l, x)' => j = l
    BY <2>1, <2>3, <1>12, Zenon
  <2> QED BY <2>2, <2>4, <1>6, <1>7, Zenon DEF HeldOrder
<1>17. InOrder(i)'
  <2>1. InOrder(i)
    BY <1>2, Zenon DEF Order, WriterOrder
  <2>2. \A x \in Msgs : Held(i, x) => Before(x, m)
    BY <1>2, <1>12, Zenon
  <2>3. \A x, y \in Msgs :
          /\ Got(i, x)' /\ (Wired(i, y)' \/ Queued(i, y)') => Before(x, y)
          /\ Wired(i, x)' /\ Queued(i, y)' => Before(x, y)
    BY <2>1, <2>2, <1>11, Zenon DEF InOrder, Held
  <2>4. ASSUME NEW k \in 1..(e + 1), NEW l \in 1..(e + 1), k < l
        PROVE  Before(w.queue[k], w.queue[l])
    <3>1. k \in 1..e /\ w.queue[k] = q[k] /\ q[k] \in Msgs
      BY <2>4, <1>9, Zenon
    <3>2. CASE l \in 1..e
      BY <2>1, <2>4, <3>1, <3>2, <1>9, Zenon DEF InOrder, q, e
    <3>3. CASE l = e + 1
      <4>1. Held(i, q[k])
        BY <3>1, Zenon DEF Held, Queued, q, e
      <4> QED BY <4>1, <2>2, <3>1, <3>3, <1>9, Zenon
    <3> QED BY <3>2, <3>3, <1>9, Zenon
  <2>5. \A k \in 1..Len(w.wire) : Sorted(w.wire[k])
    BY <2>1, <1>5, Zenon DEF InOrder
  <2>6. \A k, l \in 1..Len(w.wire) : k < l =>
          \A x, y \in Msgs : Carries(w.wire[k], x) /\ Carries(w.wire[l], y) => Before(x, y)
    BY <2>1, <1>5, Zenon DEF InOrder
  <2> QED BY <2>3, <2>4, <2>5, <2>6, <1>1, <1>6, <1>9, OneInOrder, Zenon
<1>18. WriterOrder'
  BY <1>6, <1>10, <1>17, Zenon DEF Order, WriterOrder
<1>19. ReaderOrder'
  BY <1>1, <1>6, SameReader, Zenon
<1> QED BY <1>14, <1>15, <1>16, <1>18, <1>19, Zenon DEF Order
\* What a batch becomes: in order when the batch is, and nothing but the batch.
LEMMA PacksInOrder ==
  ASSUME NEW b \in Seq(Msgs),
         \A k, l \in 1..Len(b) : k < l => Before(b[k], b[l])
  PROVE  /\ Sorted(Encode(b))
         /\ \A x : Carries(Encode(b), x) => \E k \in 1..Len(b) : b[k] = x
<1> DEFINE dec == Decode(Encode(b))
<1>1. \A k \in 1..Len(b) : dec[k].data \in {b[k], Empty.data}
  BY Unpacks, Zenon
<1>2. DOMAIN dec = 1..Len(b)
  <2>1. dec = [k \in 1..Len(b) |-> dec[k]]
    BY Unpacks, Zenon
  <2> QED BY <2>1, Zenon
<1> HIDE DEF dec
<1>3. \A k \in 1..Len(b) : dec[k].data # Empty.data => dec[k].data = b[k]
  BY <1>1, Zenon
<1>4. Sorted(Encode(b))
  BY <1>2, <1>3, Zenon DEF Sorted, dec
<1>5. \A x : Carries(Encode(b), x) => \E k \in 1..Len(b) : b[k] = x
  BY <1>2, <1>3, Zenon DEF Carries, dec
<1> QED BY <1>4, <1>5, Zenon

\* A step of one writer that moves no message to another place, but along its
\* own way or out of it.
LEMMA WriterMoves ==
  ASSUME Typed, Order, NEW i \in 1..Newest, NEW w \in Writer,
         writers' = [writers EXCEPT ![i] = w],
         UNCHANGED <<router, unsent, routed>>,
         \A x \in Msgs : Held(i, x)' => Held(i, x),
         \A j \in 1..Newest, x \in Msgs : j # i => (Got(j, x)' <=> Got(j, x)),
         InOrder(i)', ReaderOrder'
  PROVE  Order'
<1>1. /\ Newest' = Newest /\ writers'[i] = w
      /\ \A j \in 1..Newest : j # i => writers'[j] = writers[j]
  BY SetWriter, Zenon
<1>2. \A x : Waits(x)' <=> Waits(x)
  BY Zenon DEF Waits
<1>3. Busy' <=> Busy
  BY Zenon DEF Busy
<1>4. SentOnce'
  BY Zenon DEF Order, SentOnce
<1>5. RouterOrder'
  BY <1>2, <1>3, SameOrder, Zenon DEF Order, RouterOrder
<1>6. ASSUME NEW j \in 1..Newest, j # i
      PROVE  /\ \A x : Queued(j, x)' <=> Queued(j, x)
             /\ \A x : Wired(j, x)' <=> Wired(j, x)
  <2>1. writers'[j] = writers[j]
    BY <1>1, <1>6, Zenon
  <2>2. \A x : Queued(j, x)' <=> Queued(j, x)
    BY <2>1, Zenon DEF Queued
  <2>3. \A x : Wired(j, x)' <=> Wired(j, x)
    BY <2>1, Zenon DEF Wired, Carries
  <2> QED BY <2>2, <2>3, Zenon
<1>7. \A j \in 1..Newest, x \in Msgs : Held(j, x)' => Held(j, x)
  BY <1>6, Zenon DEF Held
<1>8. HeldOrder'
  BY <1>1, <1>2, <1>3, <1>7, SameOrder, Zenon DEF Order, HeldOrder
<1>9. ASSUME NEW j \in 1..Newest PROVE InOrder(j)'
  <2>1. CASE j = i
    BY <2>1, Zenon
  <2>2. CASE j # i
    <3>1. InOrder(j)
      BY Zenon DEF Order, WriterOrder
    <3>2. writers'[j] = writers[j]
      BY <2>2, <1>1, Zenon
    <3>3. \A x, y \in Msgs :
            /\ Got(j, x)' /\ (Wired(j, y)' \/ Queued(j, y)') => Before(x, y)
            /\ Wired(j, x)' /\ Queued(j, y)' => Before(x, y)
      BY <2>2, <3>1, <1>6, Zenon DEF InOrder
    <3>4. /\ \A k, l \in 1..Len(writers[j].queue) : k < l =>
               Before(writers[j].queue[k], writers[j].queue[l])
          /\ \A k \in 1..Len(writers[j].wire) : Sorted(writers[j].wire[k])
          /\ \A k, l \in 1..Len(writers[j].wire) : k < l =>
               \A x, y \in Msgs : Carries(writers[j].wire[k], x) /\ Carries(writers[j].wire[l], y)
                 => Before(x, y)
      BY <3>1, Zenon DEF InOrder
    <3>5. PICK u : u = writers[j]
      BY Zenon
    <3> QED BY <3>2, <3>3, <3>4, <3>5, OneInOrder, Zenon
  <2> QED BY <2>1, <2>2, Zenon
<1>10. WriterOrder'
  BY <1>1, <1>9, Zenon DEF WriterOrder
<1> QED BY <1>4, <1>5, <1>8, <1>10, Zenon DEF Order

\* The inbox of a writer, its wire, or both are emptied.
LEMMA WriterDrops ==
  ASSUME Typed, Order, NEW i \in 1..Newest, NEW w \in Writer,
         writers' = [writers EXCEPT ![i] = w],
         UNCHANGED <<router, unsent, routed, received>>,
         w.queue = writers[i].queue \/ w.queue = <<>>,
         w.wire = writers[i].wire \/ w.wire = <<>>
  PROVE  Order'
<1>1. /\ Newest' = Newest /\ writers'[i] = w
  BY SetWriter, Zenon
<1>2. Len(<<>>) = 0 /\ 1..0 = {}
  OBVIOUS
<1>3. /\ \A x : Queued(i, x)' => Queued(i, x)
      /\ \A x : Wired(i, x)' => Wired(i, x)
      /\ \A j, x : Got(j, x)' <=> Got(j, x)
  <2>1. \A x : Queued(i, x)' => Queued(i, x)
    BY <1>1, <1>2, Zenon DEF Queued
  <2>2. \A x : Wired(i, x)' => Wired(i, x)
    BY <1>1, <1>2, Zenon DEF Wired, Carries
  <2>3. \A j, x : Got(j, x)' <=> Got(j, x)
    BY Zenon DEF Got, Arrived
  <2> QED BY <2>1, <2>2, <2>3, Zenon
<1>4. \A x \in Msgs : Held(i, x)' => Held(i, x)
  BY <1>3, Zenon DEF Held
<1>5. InOrder(i)
  BY Zenon DEF Order, WriterOrder
<1>6. \A x, y \in Msgs :
        /\ Got(i, x)' /\ (Wired(i, y)' \/ Queued(i, y)') => Before(x, y)
        /\ Wired(i, x)' /\ Queued(i, y)' => Before(x, y)
  BY <1>3, <1>5, Zenon DEF InOrder
<1>7. \A k, l \in 1..Len(w.queue) : k < l => Before(w.queue[k], w.queue[l])
  BY <1>2, <1>5, Zenon DEF InOrder
<1>8. \A k \in 1..Len(w.wire) : Sorted(w.wire[k])
  BY <1>2, <1>5, Zenon DEF InOrder
<1>9. \A k, l \in 1..Len(w.wire) : k < l =>
        \A x, y \in Msgs : Carries(w.wire[k], x) /\ Carries(w.wire[l], y) => Before(x, y)
  BY <1>2, <1>5, Zenon DEF InOrder
<1>10. InOrder(i)'
  BY <1>1, <1>6, <1>7, <1>8, <1>9, OneInOrder, Zenon
<1>11. ReaderOrder'
  BY <1>1, SameReader, Zenon
<1> QED BY <1>3, <1>4, <1>10, <1>11, WriterMoves, Zenon

\* A batch goes to the wire.
LEMMA WriterWrites ==
  ASSUME Typed, Order, NEW i \in 1..Newest, NEW w \in Writer,
         writers' = [writers EXCEPT ![i] = w],
         UNCHANGED <<router, unsent, routed, received>>,
         w.queue = <<>>, w.wire = Append(writers[i].wire, Encode(writers[i].queue))
  PROVE  Order'
<1>1. PICK b, v : b = writers[i].queue /\ v = writers[i].wire
  BY Zenon
<1>2. b \in Seq(Msgs) /\ v \in Seq(Envelopes)
  BY <1>1, WriterIndices, Zenon DEF Writer
<1>3. /\ Newest' = Newest /\ writers'[i] = w
  BY SetWriter, Zenon
<1>4. InOrder(i)
  BY Zenon DEF Order, WriterOrder
<1>5. \A k, l \in 1..Len(b) : k < l => Before(b[k], b[l])
  BY <1>1, <1>4, Zenon DEF InOrder
<1>6. Sorted(Encode(b)) /\ \A x : Carries(Encode(b), x) => Queued(i, x)
  BY <1>1, <1>2, <1>5, PacksInOrder, Zenon DEF Queued
<1>7. PICK env : env = Encode(b)
  BY Zenon
<1>8. PICK n \in Nat :
        /\ Len(v) = n /\ Len(w.wire) = n + 1 /\ w.wire[n + 1] = env
        /\ \A k \in 1..n : w.wire[k] = v[k]
        /\ \A k \in 1..(n + 1) : k \in 1..n \/ k = n + 1
        /\ \A k \in 1..n : ~(n + 1 < k)
        /\ ~(n + 1 < n + 1)
        /\ Len(w.queue) = 0 /\ 1..0 = {}
  <2>1. w.wire = Append(v, env) /\ w.queue = <<>>
    BY <1>1, <1>7, Zenon
  <2> QED BY <2>1, <1>2
<1>9. /\ \A x : ~Queued(i, x)'
      /\ \A x : Wired(i, x)' => Wired(i, x) \/ Queued(i, x)
      /\ \A j, x : Got(j, x)' <=> Got(j, x)
  <2>1. \A x : ~Queued(i, x)'
    BY <1>3, <1>8, Zenon DEF Queued
  <2>2. ASSUME NEW x, Wired(i, x)' PROVE Wired(i, x) \/ Queued(i, x)
    <3>1. PICK k \in 1..(n + 1) : Carries(w.wire[k], x)
      <4>1. \E k \in 1..Len(writers'[i].wire) : Carries(writers'[i].wire[k], x)
        BY <2>2, Zenon DEF Wired, Carries
      <4> QED BY <4>1, <1>3, <1>8, Zenon
    <3> QED BY <3>1, <1>1, <1>6, <1>7, <1>8, Zenon DEF Wired
  <2>3. \A j, x : Got(j, x)' <=> Got(j, x)
    BY Zenon DEF Got, Arrived
  <2> QED BY <2>1, <2>2, <2>3, Zenon
<1>10. \A x \in Msgs : Held(i, x)' => Held(i, x)
  BY <1>9, Zenon DEF Held
<1>11. \A x, y \in Msgs :
         /\ Got(i, x)' /\ (Wired(i, y)' \/ Queued(i, y)') => Before(x, y)
         /\ Wired(i, x)' /\ Queued(i, y)' => Before(x, y)
  BY <1>4, <1>9, Zenon DEF InOrder
<1>12. \A k, l \in 1..Len(w.queue) : k < l => Before(w.queue[k], w.queue[l])
  BY <1>8, Zenon
<1>13. \A k \in 1..Len(w.wire) : Sorted(w.wire[k])
  BY <1>1, <1>4, <1>6, <1>7, <1>8, Zenon DEF InOrder
<1>14. ASSUME NEW k \in 1..(n + 1), NEW l \in 1..(n + 1), k < l, NEW x \in Msgs, NEW y \in Msgs,
              Carries(w.wire[k], x), Carries(w.wire[l], y)
       PROVE  Before(x, y)
  <2>1. k \in 1..n /\ Carries(v[k], x)
    BY <1>8, <1>14, Zenon
  <2>2. CASE l \in 1..n
    BY <2>1, <2>2, <1>1, <1>4, <1>8, <1>14, Zenon DEF InOrder
  <2>3. CASE l = n + 1
    <3>1. Queued(i, y)
      BY <2>3, <1>6, <1>7, <1>8, <1>14, Zenon
    <3>2. Wired(i, x)
      BY <2>1, <1>1, <1>8, Zenon DEF Wired
    <3> QED BY <3>1, <3>2, <1>4, Zenon DEF InOrder
  <2> QED BY <2>2, <2>3, <1>8, Zenon
<1>15. InOrder(i)'
  BY <1>3, <1>8, <1>11, <1>12, <1>13, <1>14, OneInOrder, ZenonT(40)
<1>16. ReaderOrder'
  BY <1>3, SameReader, Zenon
<1> QED BY <1>9, <1>10, <1>15, <1>16, WriterMoves, Zenon
\* The messages that an envelope, or the remote engine, can have.
LEMMA DataInMsgs ==
  /\ \A env \in Envelopes : \A k \in DOMAIN Decode(env) :
       Decode(env)[k].data # Empty.data => Decode(env)[k].data \in Msgs
  /\ \A r \in Items : Attributed(r) /\ (r.data # Empty.data => r.data \in Msgs)
<1>1. ASSUME NEW env \in Envelopes, NEW k \in DOMAIN Decode(env)
      PROVE  /\ Attributed(Decode(env)[k])
             /\ Decode(env)[k].data # Empty.data => Decode(env)[k].data \in Msgs
  <2>1. PICK b \in Seq(Msgs) : env = Encode(b)
    BY Zenon DEF Envelopes
  <2>2. Decode(env) = [l \in 1..Len(b) |-> Decode(env)[l]]
    BY <2>1, Unpacks, Zenon
  <2>3. k \in 1..Len(b)
    BY <2>2, Zenon
  <2>4. Attributed(Decode(env)[k]) /\ Decode(env)[k].data \in {b[k], Empty.data}
    BY <2>1, <2>3, Unpacks, Zenon
  <2>5. b[k] \in Msgs
    BY <2>3
  <2> QED BY <2>4, <2>5, Zenon
<1> QED BY <1>1, Zenon DEF Items, Contents

\* An envelope is handed over, or the first messages of it.
LEMMA ReaderReceiveOrder ==
  ASSUME Typed, Order, NEW i \in 1..Newest, ReaderReceive(i)
  PROVE  Order'
<1>1. PICK n \in Nat, w \in Writer : Reads(i, n, w)
  BY ReaderReceiveEffect, Zenon
<1>2. PICK v, env : v = writers[i].wire /\ env = Head(v)
  BY Zenon
<1>3. /\ v # <<>> /\ env \in Envelopes /\ n <= Len(Via(env, i))
      /\ received' = received \o SubSeq(Via(env, i), 1, n)
      /\ writers' = [writers EXCEPT ![i] = w]
      /\ w.queue = writers[i].queue
      /\ w.wire = Tail(v) \/ w.wire = <<>>
      /\ UNCHANGED <<router, unsent, routed>>
  BY <1>1, <1>2, Zenon DEF Reads
<1>4. v \in Seq(Envelopes) /\ i \in Nat /\ received \in Seq(Handed)
  BY <1>2, WriterIndices, Zenon DEF Writer, Typed
<1>5. /\ Via(env, i) \in Seq(Handed) /\ DOMAIN Decode(env) = 1..Len(Via(env, i))
      /\ \A k \in 1..Len(Via(env, i)) :
           Via(env, i)[k].msg = Decode(env)[k] /\ Via(env, i)[k].by = i
  BY <1>3, <1>4, ViaIsHanded, Zenon
<1>6. PICK r \in Nat :
        /\ r = Len(received) /\ Len(received') = r + n
        /\ \A k \in 1..r : received'[k] = received[k]
        /\ \A k \in 1..(r + n) : k \in 1..r \/
             (k - r \in 1..Len(Via(env, i)) /\ received'[k] = Via(env, i)[k - r])
        /\ \A k, l \in 1..(r + n) : k < l => k - r < l - r
        /\ \A k, l \in 1..(r + n) : k < l /\ l \in 1..r => k \in 1..r
  <2>1. PICK via, part : via = Via(env, i) /\ part = SubSeq(via, 1, n)
    BY Zenon
  <2>2. via \in Seq(Handed) /\ n <= Len(via)
    BY <2>1, <1>3, <1>5, Zenon
  <2>3. /\ part \in Seq(Handed) /\ Len(part) = n
        /\ \A t \in 1..n : part[t] = via[t] /\ t \in 1..Len(via)
    BY <2>1, <2>2
  <2>4. PICK r \in Nat : r = Len(received)
    BY <1>4
  <2>5. received' = received \o part
    BY <2>1, <1>3, Zenon
  <2>6. /\ Len(received') = r + n
        /\ \A k \in 1..r : received'[k] = received[k]
        /\ \A k \in 1..(r + n) : k \in 1..r \/ (k - r \in 1..n /\ received'[k] = part[k - r])
    <3>0. part \in Seq(Handed) /\ Len(part) = n /\ received \in Seq(Handed)
      BY <2>3, <1>4, Zenon
    <3>1. Len(received') = r + n
      <4>1. Len(received \o part) = Len(received) + Len(part)
        BY <3>0
      <4> QED BY <4>1, <3>0, <2>4, <2>5, Zenon
    <3>2. \A k \in 1..r : received'[k] = received[k]
      BY <2>3, <2>4, <2>5, <1>4
    <3>3. ASSUME NEW k \in 1..(r + n), k \notin 1..r
          PROVE  k - r \in 1..n /\ received'[k] = part[k - r]
      <4>1. k - r \in 1..n /\ k > Len(received) /\ k <= Len(received) + Len(part)
        BY <2>3, <2>4, <3>3
      <4> QED BY <4>1, <2>3, <2>4, <2>5, <1>4
    <3> QED BY <3>1, <3>2, <3>3, Zenon
  <2>7. \A k \in 1..(r + n) : k \in 1..r \/
             (k - r \in 1..Len(via) /\ received'[k] = via[k - r])
    BY <2>3, <2>6, Zenon
  <2>8. /\ \A k, l \in 1..(r + n) : k < l => k - r < l - r
        /\ \A k, l \in 1..(r + n) : k < l /\ l \in 1..r => k \in 1..r
    OBVIOUS
  <2> QED BY <2>1, <2>4, <2>6, <2>7, <2>8, Zenon
<1>7. /\ \A k \in 1..r : received'[k] = received[k]
      /\ \A k \in 1..(r + n) : k \in 1..r \/
           /\ k - r \in DOMAIN Decode(env) /\ received'[k].by = i
           /\ received'[k].msg = Decode(env)[k - r]
  <2>1. ASSUME NEW k \in 1..(r + n), k \notin 1..r
        PROVE  /\ k - r \in DOMAIN Decode(env) /\ received'[k].by = i
               /\ received'[k].msg = Decode(env)[k - r]
    <3>1. k - r \in 1..Len(Via(env, i)) /\ received'[k] = Via(env, i)[k - r]
      BY <2>1, <1>6, Zenon
    <3> QED BY <3>1, <1>5, Zenon
  <2> QED BY <2>1, <1>6, Zenon
<1>8. /\ Newest' = Newest /\ writers'[i] = w
  BY <1>3, SetWriter, Zenon
<1>9. InOrder(i)
  BY Zenon DEF Order, WriterOrder
<1>10. PICK z \in Nat :
         /\ z = Len(v) /\ 1 \in 1..z /\ v[1] = env
         /\ \A k \in 1..Len(w.wire) : w.wire[k] = v[k + 1] /\ k + 1 \in 1..z /\ 1 < k + 1
         /\ \A k, l \in 1..Len(w.wire) : k < l => k + 1 < l + 1
  <2>1. PICK z \in Nat : z = Len(v)
    BY <1>4
  <2>2. 1 \in 1..z /\ v[1] = env
    BY <2>1, <1>2, <1>3, <1>4
  <2>3. CASE w.wire = Tail(v)
    <3>1. Len(w.wire) = z - 1 /\ \A k \in 1..(z - 1) : w.wire[k] = v[k + 1]
      BY <2>1, <2>2, <2>3, <1>4
    <3>2. /\ \A k \in 1..(z - 1) : k + 1 \in 1..z /\ 1 < k + 1
          /\ \A k, l \in 1..(z - 1) : k < l => k + 1 < l + 1
      BY <2>1
    <3> QED BY <2>1, <2>2, <3>1, <3>2, Zenon
  <2>4. CASE w.wire = <<>>
    <3>1. Len(w.wire) = 0 /\ 1..0 = {}
      BY <2>4
    <3> QED BY <2>1, <2>2, <3>1, Zenon
  <2> QED BY <2>3, <2>4, <1>3, Zenon
<1>11. /\ Sorted(env)
       /\ \A k \in 1..Len(w.wire) : Sorted(w.wire[k])
       /\ \A k, l \in 1..Len(w.wire) : k < l =>
            \A x, y \in Msgs : Carries(w.wire[k], x) /\ Carries(w.wire[l], y) => Before(x, y)
       /\ \A l \in 1..Len(w.wire) :
            \A x, y \in Msgs : Carries(env, x) /\ Carries(w.wire[l], y) => Before(x, y)
  <2>1. /\ \A k \in 1..z : Sorted(v[k])
        /\ \A k, l \in 1..z : k < l =>
             \A x, y \in Msgs : Carries(v[k], x) /\ Carries(v[l], y) => Before(x, y)
    BY <1>2, <1>9, <1>10, ZenonT(40) DEF InOrder
  <2>2. Sorted(env) /\ \A k \in 1..Len(w.wire) : Sorted(w.wire[k])
    BY <2>1, <1>10, Zenon
  <2>3. \A k, l \in 1..Len(w.wire) : k < l =>
          \A x, y \in Msgs : Carries(w.wire[k], x) /\ Carries(w.wire[l], y) => Before(x, y)
    BY <2>1, <1>10, Zenon
  <2>4. \A l \in 1..Len(w.wire) :
          \A x, y \in Msgs : Carries(env, x) /\ Carries(w.wire[l], y) => Before(x, y)
    BY <2>1, <1>10, Zenon
  <2> QED BY <2>2, <2>3, <2>4, Zenon
<1>12. \A x : Queued(i, x)' <=> Queued(i, x)
  BY <1>3, <1>8, Zenon DEF Queued
<1>13. \A x : Wired(i, x)' <=> \E k \in 1..Len(w.wire) : Carries(w.wire[k], x)
  <2>1. \A x : Wired(i, x)' <=> \E k \in 1..Len(writers'[i].wire) : Carries(writers'[i].wire[k], x)
    BY Zenon DEF Wired, Carries
  <2> QED BY <2>1, <1>8, Zenon
<1>14. \A x : Wired(i, x)' => Wired(i, x)
  BY <1>2, <1>10, <1>13, Zenon DEF Wired
<1>15. \A x : Carries(env, x) => Wired(i, x)
  BY <1>2, <1>10, Zenon DEF Wired
<1>16. ASSUME NEW j, NEW x
       PROVE  Got(j, x)' <=> Got(j, x) \/ (j = i /\ \E k \in 1..(r + n) : k \notin 1..r /\
                                              received'[k].msg.data = x /\ x # Empty.data)
  <2>1. \A k \in 1..r : k \in 1..(r + n)
    BY <1>6
  <2>2. Got(j, x)' <=> x # Empty.data /\ \E k \in 1..(r + n) :
                          received'[k].by = j /\ received'[k].msg.data = x
    BY <1>6, Zenon DEF Got, Arrived, Empty
  <2>3. Got(j, x) <=> x # Empty.data /\ \E k \in 1..r :
                          received[k].by = j /\ received[k].msg.data = x
    BY <1>6, Zenon DEF Got, Arrived
  <2>4. Got(j, x) => Got(j, x)'
    BY <2>1, <2>2, <2>3, <1>7, Zenon
  <2>5. Got(j, x)' => Got(j, x) \/ (j = i /\ \E k \in 1..(r + n) : k \notin 1..r /\
                                      received'[k].msg.data = x /\ x # Empty.data)
    BY <2>2, <2>3, <1>7, Zenon
  <2>6. (j = i /\ \E k \in 1..(r + n) : k \notin 1..r /\
                   received'[k].msg.data = x /\ x # Empty.data) => Got(j, x)'
    BY <2>2, <1>7, Zenon
  <2> QED BY <2>4, <2>5, <2>6, Zenon
<1>17. \A x : Got(i, x)' => Got(i, x) \/ Carries(env, x)
  BY <1>7, <1>16, Zenon DEF Carries
<1>18. \A j \in 1..Newest, x \in Msgs : j # i => (Got(j, x)' <=> Got(j, x))
  BY <1>16, Zenon
<1>19. \A x \in Msgs : Held(i, x)' => Held(i, x)
  BY <1>12, <1>14, <1>15, <1>17, Zenon DEF Held
<1>20. InOrder(i)'
  <2>1. ASSUME NEW x \in Msgs, NEW y \in Msgs, Got(i, x)', Wired(i, y)' \/ Queued(i, y)'
        PROVE  Before(x, y)
    <3>1. CASE Got(i, x)
      BY <2>1, <3>1, <1>9, <1>12, <1>14, Zenon DEF InOrder
    <3>2. CASE Carries(env, x)
      <4>1. CASE Wired(i, y)'
        BY <4>1, <3>2, <1>11, <1>13, Zenon
      <4>2. CASE Queued(i, y)'
        BY <4>2, <3>2, <1>9, <1>12, <1>15, Zenon DEF InOrder
      <4> QED BY <2>1, <4>1, <4>2, Zenon
    <3> QED BY <2>1, <3>1, <3>2, <1>17, Zenon
  <2>2. \A x, y \in Msgs : Wired(i, x)' /\ Queued(i, y)' => Before(x, y)
    BY <1>9, <1>12, <1>14, Zenon DEF InOrder
  <2>3. \A k, l \in 1..Len(w.queue) : k < l => Before(w.queue[k], w.queue[l])
    BY <1>3, <1>9, Zenon DEF InOrder
  <2> QED BY <2>1, <2>2, <2>3, <1>3, <1>8, <1>11, OneInOrder, Zenon
<1>21. ReaderOrder'
  <2>1. \A k \in 1..(r + n) : received'[k].by \in 1..Newest
    BY <1>6, <1>7, Zenon DEF Order, ReaderOrder
  <2>2. ASSUME NEW k \in 1..(r + n), NEW l \in 1..(r + n), k < l,
               received'[k].by = received'[l].by,
               received'[k].msg.data # Empty.data, received'[l].msg.data # Empty.data
        PROVE  Before(received'[k].msg.data, received'[l].msg.data)
    <3>1. CASE k \in 1..r /\ l \in 1..r
      BY <2>2, <3>1, <1>6, <1>7, Zenon DEF Order, ReaderOrder, Arrived
    <3>2. CASE k \in 1..r /\ l \notin 1..r
      <4>1. /\ received'[l].by = i /\ received'[l].msg = Decode(env)[l - r]
            /\ l - r \in DOMAIN Decode(env) /\ received'[k] = received[k]
        BY <3>2, <1>7, Zenon
      <4> DEFINE x == received'[k].msg.data
                 y == received'[l].msg.data
      <4>2. Carries(env, y) /\ y \in Msgs
        BY <2>2, <4>1, <1>3, DataInMsgs, Zenon DEF Carries
      <4>3. Got(i, x)
        BY <2>2, <3>2, <4>1, <1>6, Zenon DEF Got, Arrived
      <4>4. x \in Msgs
        <5>1. received[k] \in Handed
          BY <3>2, <1>4, <1>6
        <5>2. received[k].msg \in Items
          BY <5>1, Zenon DEF Handed
        <5> QED BY <5>2, <4>1, <2>2, DataInMsgs, Zenon
      <4> QED BY <4>2, <4>3, <4>4, <1>9, <1>15, Zenon DEF InOrder
    <3>3. CASE k \notin 1..r /\ l \notin 1..r
      <4>1. /\ received'[k].msg = Decode(env)[k - r] /\ k - r \in DOMAIN Decode(env)
            /\ received'[l].msg = Decode(env)[l - r] /\ l - r \in DOMAIN Decode(env)
            /\ k - r < l - r
        BY <2>2, <3>3, <1>6, <1>7, Zenon
      <4> QED BY <4>1, <2>2, <1>11, Zenon DEF Sorted
    <3>4. l \in 1..r => k \in 1..r
      BY <2>2, <1>6, Zenon
    <3> QED BY <3>1, <3>2, <3>3, <3>4, Zenon
  <2>3. \A k, l \in 1..Len(received') :
          k < l /\ received'[k].by = received'[l].by /\ Arrived(k)' # Empty.data
            /\ Arrived(l)' # Empty.data => (Before(Arrived(k), Arrived(l)))'
    BY <2>2, <1>3, <1>6, SameOrder, Zenon DEF Arrived
  <2> QED BY <2>1, <2>3, <1>6, <1>8, Zenon DEF ReaderOrder, Empty
<1> QED BY <1>3, <1>18, <1>19, <1>20, <1>21, WriterMoves, Zenon
\* The steps of Shutdown move no message.
LEMMA ShutdownOrder ==
  ASSUME Typed, Order, NEW i \in 1..Newest, Shutdown(i)
  PROVE  Order'
<1>1. CASE ShutdownNotify(i)
  BY <1>1, ShutdownNotifyOrder, Zenon
<1>2. CASE ~ShutdownNotify(i)
  <2>1. UNCHANGED <<router, unsent, routed, received>>
    BY <1>2, Zenon DEF Shutdown, WatchClosed, ShutdownStop, ShutdownRemove
  <2>2. writers[i] \in Writer /\ i \in DOMAIN writers
    BY WriterIndices, Zenon
  <2>3. ASSUME NEW t \in Shuts, writers' = [writers EXCEPT ![i].shut = t] PROVE Order'
    <3> DEFINE w == [writers[i] EXCEPT !.shut = t]
    <3>1. w \in Writer /\ w.queue = writers[i].queue /\ w.wire = writers[i].wire
      BY <2>2, Zenon DEF Writer
    <3>2. writers' = [writers EXCEPT ![i] = w]
      BY <2>3, Zenon
    <3> HIDE DEF w
    <3> QED BY <3>1, <3>2, <2>1, WriterDrops, Zenon
  <2>4. CASE ShutdownStop(i)
    <3> DEFINE v == [writers[i] EXCEPT !.inbox = "stopped"]
               w == [v EXCEPT !.shut = "remove"]
    <3>1. v \in Writer /\ v.queue = writers[i].queue /\ v.wire = writers[i].wire
      BY <2>2, Zenon DEF Writer, Inboxes
    <3>2. writers' = [writers EXCEPT ![i] = w]
      BY <2>2, <2>4, Zenon DEF Writer, ShutdownStop
    <3> HIDE DEF v
    <3>3. w \in Writer /\ w.queue = writers[i].queue /\ w.wire = writers[i].wire
      BY <3>1, Zenon DEF Writer, Shuts
    <3> HIDE DEF w
    <3> QED BY <3>2, <3>3, <2>1, WriterDrops, Zenon
  <2>5. "notify" \in Shuts /\ "done" \in Shuts
    BY Zenon DEF Shuts
  <2> QED BY <2>3, <2>4, <2>5, <1>2, Zenon DEF Shutdown, WatchClosed, ShutdownRemove
<1> QED BY <1>1, <1>2, Zenon

\* A batch is written or lost.
LEMMA WriterInvokeOrder ==
  ASSUME Typed, Order, NEW i \in 1..Newest, WriterInvoke(i)
  PROVE  Order'
<1>1. UNCHANGED <<router, unsent, routed, received>>
  BY Zenon DEF WriterInvoke
<1>2. /\ writers[i] \in Writer /\ i \in DOMAIN writers
      /\ writers[i].queue \in Seq(Msgs) /\ writers[i].wire \in Seq(Envelopes)
  BY WriterIndices, Zenon DEF Writer
<1>3. <<>> \in Seq(Msgs)
  OBVIOUS
<1> DEFINE v == [writers[i] EXCEPT !.queue = <<>>]
<1>4. v \in Writer /\ v.queue = <<>> /\ v.wire = writers[i].wire
  BY <1>2, <1>3, Zenon DEF Writer
<1>5. CASE writers' = [writers EXCEPT ![i].queue = <<>>,
                                      ![i].wire = Append(@, Encode(writers[i].queue))]
  <2> DEFINE w == [v EXCEPT !.wire = Append(writers[i].wire, Encode(writers[i].queue))]
  <2>1. writers' = [writers EXCEPT ![i] = w]
    BY <1>2, <1>5, Zenon DEF Writer
  <2>2. Append(writers[i].wire, Encode(writers[i].queue)) \in Seq(Envelopes)
    <3>1. Encode(writers[i].queue) \in Envelopes
      BY <1>2, Zenon DEF Envelopes
    <3> QED BY <3>1, <1>2
  <2> HIDE DEF v
  <2>3. w \in Writer /\ w.queue = <<>> /\ w.wire = Append(writers[i].wire, Encode(writers[i].queue))
    BY <1>4, <2>2, Zenon DEF Writer
  <2> HIDE DEF w
  <2> QED BY <2>1, <2>3, <1>1, WriterWrites, Zenon
<1>6. ASSUME NEW c \in {"up", "closed", writers[i].conn},
             writers' = [writers EXCEPT ![i].queue = <<>>, ![i].conn = c]
      PROVE  Order'
  <2> DEFINE w == [v EXCEPT !.conn = c]
  <2>1. writers' = [writers EXCEPT ![i] = w]
    BY <1>2, <1>6, Zenon DEF Writer
  <2> HIDE DEF v
  <2>2. c \in Conns
    BY <1>2, Zenon DEF Conns, Writer
  <2>3. w \in Writer /\ w.queue = <<>> /\ w.wire = writers[i].wire
    BY <1>4, <2>2, Zenon DEF Writer
  <2> HIDE DEF w
  <2> QED BY <2>1, <2>3, <1>1, WriterDrops, Zenon
<1>7. CASE writers' = writers
  <2>1. Newest' = Newest /\ (Busy' => Busy)
    BY <1>1, <1>7, Zenon DEF Newest, Busy
  <2> QED BY <2>1, <1>1, <1>7, Stays, Zenon
<1> QED BY <1>5, <1>6, <1>7, Zenon DEF WriterInvoke

\* A connection that ends may take along what is in transit.
LEMMA ConnLostOrder ==
  ASSUME Typed, Order, NEW i \in 1..Newest, ConnLost(i)
  PROVE  Order'
<1>1. UNCHANGED <<router, unsent, routed, received>>
  BY Zenon DEF ConnLost
<1>2. PICK x \in {writers[i].wire, <<>>} :
        writers' = [writers EXCEPT ![i].conn = "closed", ![i].wire = x]
  BY Zenon DEF ConnLost
<1>3. writers[i] \in Writer /\ i \in DOMAIN writers /\ writers[i].wire \in Seq(Envelopes)
  BY WriterIndices, Zenon DEF Writer
<1>4. x \in Seq(Envelopes)
  <2>1. <<>> \in Seq(Envelopes)
    OBVIOUS
  <2> QED BY <2>1, <1>3, Zenon
<1> DEFINE v == [writers[i] EXCEPT !.conn = "closed"]
           w == [v EXCEPT !.wire = x]
<1>5. v \in Writer /\ v.queue = writers[i].queue
  BY <1>3, Zenon DEF Writer, Conns
<1>6. writers' = [writers EXCEPT ![i] = w]
  BY <1>2, <1>3, Zenon DEF Writer
<1> HIDE DEF v
<1>7. w \in Writer /\ w.queue = writers[i].queue /\ w.wire = x
  BY <1>4, <1>5, Zenon DEF Writer
<1> HIDE DEF w
<1> QED BY <1>1, <1>2, <1>6, <1>7, WriterDrops, Zenon

\* The steps of the router that only move on.
LEMMA RouterMovesOrder ==
  ASSUME Typed, Order, RouterDial \/ RouterShutdown \/ RouterRecord \/ RouterLookup
  PROVE  Order'
<1>1. UNCHANGED <<unsent, routed, received>> /\ router.pc # "idle"
  <2>1. "dial" # "idle" /\ "shutdown" # "idle" /\ "record" # "idle" /\ "lookup" # "idle"
    BY Zenon
  <2> QED BY <2>1, Zenon DEF RouterDial, RouterShutdown, RouterRecord, RouterLookup
<1>2. router'.inbox = router.inbox /\ router'.msg = router.msg
  BY Zenon DEF RouterDial, RouterShutdown, RouterRecord, RouterLookup, Typed, RouterState
<1>3. Busy
  BY <1>1, Zenon DEF Busy
<1>4. /\ Newest' = Newest
      /\ \A j \in 1..Newest : /\ writers'[j].queue = writers[j].queue
                              /\ writers'[j].wire = writers[j].wire
  <2>1. CASE writers' = writers
    BY <2>1, Zenon DEF Newest
  <2>2. CASE RouterDial
    <3>1. PICK n : n = Newest
      BY Zenon
    <3>2. n \in 1..Newest
      <4>1. Newest >= 1
        BY <2>2, Zenon DEF RouterDial, Typed
      <4>2. Newest \in Nat
        BY WriterIndices, Zenon
      <4> QED BY <4>1, <4>2, <3>1
    <3>3. writers[n] \in Writer
      BY <3>2, WriterIndices, Zenon
    <3>4. ASSUME NEW c \in {"up", "no deadline"}, writers' = [writers EXCEPT ![n].conn = c]
          PROVE  /\ Newest' = Newest
                 /\ \A j \in 1..Newest : /\ writers'[j].queue = writers[j].queue
                                         /\ writers'[j].wire = writers[j].wire
      <4> DEFINE w == [writers[n] EXCEPT !.conn = c]
      <4>1. w \in Writer /\ w.queue = writers[n].queue /\ w.wire = writers[n].wire
        BY <3>3, Zenon DEF Writer, Conns
      <4>2. writers' = [writers EXCEPT ![n] = w]
        BY <3>4, Zenon
      <4> HIDE DEF w
      <4> QED BY <4>1, <4>2, <3>2, SetWriter, Zenon
    <3>5. CASE writers' = [writers EXCEPT ![n].shut = "notify"]
      <4> DEFINE w == [writers[n] EXCEPT !.shut = "notify"]
      <4>1. w \in Writer /\ w.queue = writers[n].queue /\ w.wire = writers[n].wire
        BY <3>3, Zenon DEF Writer, Shuts
      <4>2. writers' = [writers EXCEPT ![n] = w]
        BY <3>5, Zenon
      <4> HIDE DEF w
      <4> QED BY <4>1, <4>2, <3>2, SetWriter, Zenon
    <3> QED BY <2>2, <3>1, <3>4, <3>5, Zenon DEF RouterDial
  <2> QED BY <2>1, <2>2, Zenon DEF RouterShutdown, RouterRecord, RouterLookup
<1> QED BY <1>1, <1>2, <1>3, <1>4, Stays, Zenon
-----------------------------------------------------------------------------
(* Every writer was created for a message of its own *)

\* c gives each writer the message it was created for: all were accepted before
\* those the router still has.
CausedBy(c) ==
  /\ \A i, j \in 1..Newest : c[i] = c[j] => i = j
  /\ \A i \in 1..Newest :
       /\ Sent(c[i])
       /\ \A y \in Msgs : Waits(y) => Before(c[i], y)
       /\ router.pc = "spawn" => Before(c[i], router.msg)

Caused == \E c \in [1..Newest -> Msgs] : CausedBy(c)

\* No writer is created, and the router comes to no new message.
LEMMA CausedStays ==
  ASSUME Caused, routed' = routed, Newest' = Newest, router'.msg = router.msg,
         \A x \in Msgs : Waits(x)' => Waits(x), router'.pc = "spawn" => router.pc = "spawn"
  PROVE  Caused'
<1>1. PICK c \in [1..Newest -> Msgs] : CausedBy(c)
  BY Zenon DEF Caused
<1>2. CausedBy(c)'
  BY <1>1, SameOrder, Zenon DEF CausedBy
<1> QED BY <1>1, <1>2, Zenon DEF Caused

\* A message is sent.
LEMMA SendCaused ==
  ASSUME Typed, Order, Caused, NEW m \in Msgs, Send(m)
  PROVE  Caused'
<1>1. /\ router' = [router EXCEPT !.inbox = Append(router.inbox, m)]
      /\ routed' = Append(routed, m) /\ writers' = writers
  BY Zenon DEF Send
<1>2. router \in RouterState /\ router.inbox \in Seq(Msgs \cup {Unreachable}) /\ routed \in Seq(Msgs)
  BY Zenon DEF Typed, RouterState
<1>3. /\ router'.inbox = Append(router.inbox, m) /\ router'.msg = router.msg
      /\ router'.pc = router.pc
  BY <1>1, <1>2, Zenon DEF RouterState
<1>4. PICK n \in Nat : /\ n = Len(routed) /\ Len(routed') = n + 1 /\ routed'[n + 1] = m
        /\ \A i \in 1..n : routed'[i] = routed[i] /\ i \in 1..(n + 1) /\ i < n + 1
        /\ n + 1 \in 1..(n + 1)
  BY <1>1, <1>2
<1>5. PICK e \in Nat : /\ e = Len(router.inbox) /\ Len(router'.inbox) = e + 1
        /\ router'.inbox[e + 1] = m
        /\ \A i \in 1..e : router'.inbox[i] = router.inbox[i]
        /\ \A k \in 1..(e + 1) : k \in 1..e \/ k = e + 1
  BY <1>2, <1>3
<1>6. /\ \A x, y : Before(x, y) => Before(x, y)'
      /\ \A x : Sent(x) => Sent(x)'
      /\ \A x : Sent(x) => Before(x, m)'
  <2>1. \A x, y : Before(x, y) => Before(x, y)'
    BY <1>4, Zenon DEF Before
  <2>2. \A x : Sent(x) => Sent(x)'
    BY <1>4, Zenon DEF Sent
  <2>3. \A x : Sent(x) => Before(x, m)'
    BY <1>4, Zenon DEF Sent, Before
  <2> QED BY <2>1, <2>2, <2>3, Zenon
<1>7. ASSUME NEW x, Waits(x)', x # m PROVE Waits(x)
  <2>1. PICK k \in 1..(e + 1) : router'.inbox[k] = x
    BY <1>5, <1>7, Zenon DEF Waits
  <2>2. k \in 1..e
    BY <1>5, <1>7, <2>1
  <2> QED BY <1>5, <1>7, <2>1, <2>2, Zenon DEF Waits
<1>8. Newest' = Newest
  BY <1>1, Zenon DEF Newest
<1>9. PICK c \in [1..Newest -> Msgs] : CausedBy(c)
  BY Zenon DEF Caused
<1>10. \A i \in 1..Newest : Sent(c[i])' /\ \A y \in Msgs : Waits(y)' => Before(c[i], y)'
  BY <1>6, <1>7, <1>9, Zenon DEF CausedBy
<1>11. \A i \in 1..Newest : router'.pc = "spawn" => Before(c[i], router.msg)'
  BY <1>3, <1>6, <1>9, Zenon DEF CausedBy
<1>12. CausedBy(c)'
  BY <1>3, <1>8, <1>9, <1>10, <1>11, Zenon DEF CausedBy
<1> QED BY <1>8, <1>9, <1>12, Zenon DEF Caused

\* The router comes to a message: it was accepted after those it had before.
LEMMA RouterReceiveCaused ==
  ASSUME Typed, Order, Caused, RouterReceive
  PROVE  Caused'
<1>1. PICK q, m : q = router.inbox /\ m = q[1]
  BY Zenon
<1>2. q \in Seq(Msgs \cup {Unreachable}) /\ router \in RouterState
  BY <1>1, Zenon DEF Typed, RouterState
<1>3. /\ router.pc = "idle" /\ q # <<>>
      /\ \/ router' = [router EXCEPT !.inbox = Tail(q)]
         \/ /\ m # Unreachable
            /\ router' = [router EXCEPT !.inbox = Tail(q), !.msg = m,
                                        !.pc = IF entry THEN "lookup" ELSE "spawn"]
      /\ routed' = routed /\ writers' = writers
  <2>1. Head(q) = m
    BY <1>1
  <2> QED BY <1>1, <2>1, Zenon DEF RouterReceive
<1>4. /\ router'.inbox = Tail(q)
      /\ router'.pc = "spawn" => m # Unreachable /\ router'.msg = m
  <2>1. "idle" # "spawn"
    BY Zenon
  <2> QED BY <2>1, <1>2, <1>3, Zenon DEF RouterState
<1>5. /\ 1 \in 1..Len(q) /\ m \in Msgs \cup {Unreachable}
      /\ \A k \in 1..Len(Tail(q)) : Tail(q)[k] = q[k + 1] /\ k + 1 \in 1..Len(q)
  BY <1>1, <1>2, <1>3
<1>6. ASSUME NEW x, Waits(x)' PROVE Waits(x)
  <2>1. PICK k \in 1..Len(Tail(q)) : Tail(q)[k] = x
    BY <1>4, <1>6, Zenon DEF Waits
  <2> QED BY <1>1, <1>5, <1>6, <2>1, Zenon DEF Waits
<1>7. m # Unreachable => m \in Msgs /\ Waits(m)
  BY <1>1, <1>5, Zenon DEF Waits
<1>8. Newest' = Newest
  BY <1>3, Zenon DEF Newest
<1>9. PICK c \in [1..Newest -> Msgs] : CausedBy(c)
  BY Zenon DEF Caused
<1>10. \A i \in 1..Newest : router'.pc = "spawn" => Before(c[i], router'.msg)
  BY <1>4, <1>7, <1>9, Zenon DEF CausedBy
<1>11. CausedBy(c)'
  BY <1>3, <1>6, <1>8, <1>9, <1>10, SameOrder, Zenon DEF CausedBy
<1> QED BY <1>8, <1>9, <1>11, Zenon DEF Caused

\* A writer is created: for the message the router is at.
LEMMA RouterSpawnCaused ==
  ASSUME Typed, Order, Caused, RouterSpawn
  PROVE  Caused'
<1>1. PICK n, m : n = Newest /\ m = router.msg
  BY Zenon
<1>2. /\ routed' = routed /\ router.pc = "spawn"
      /\ \E w : writers' = Append(writers, w)
      /\ \/ router' = [router EXCEPT !.pc = "dial"]
         \/ router' = [router EXCEPT !.pc = "record"]
  BY Zenon DEF RouterSpawn
<1>3. router'.inbox = router.inbox /\ router'.pc # "spawn"
  <2>1. "dial" # "spawn" /\ "record" # "spawn"
    BY Zenon
  <2> QED BY <2>1, <1>2, Zenon DEF Typed, RouterState
<1>4. Newest' = n + 1 /\ n \in Nat
  <2>1. writers \in Seq(Writer)
    BY Zenon DEF Typed
  <2> QED BY <2>1, <1>1, <1>2 DEF Newest
<1>5. Busy /\ m \in Msgs
  <2>1. "spawn" # "idle"
    BY Zenon
  <2> QED BY <2>1, <1>1, <1>2, Zenon DEF Busy, Typed
<1>6. \A x : Waits(x)' => Waits(x)
  BY <1>3, Zenon DEF Waits
<1>7. PICK c \in [1..n -> Msgs] : CausedBy(c)
  BY <1>1, Zenon DEF Caused
<1>8. PICK d : d = [i \in 1..(n + 1) |-> IF i = n + 1 THEN m ELSE c[i]]
  BY Zenon
<1>9. /\ \A i \in 1..(n + 1) : i = n + 1 \/ (i \in 1..n /\ i # n + 1)
      /\ n + 1 \in 1..(n + 1)
  BY <1>4
<1>10. d \in [1..(n + 1) -> Msgs]
  BY <1>5, <1>7, <1>8, <1>9, Zenon
<1>11. d[n + 1] = m /\ \A i \in 1..(n + 1) : i # n + 1 => d[i] = c[i]
  BY <1>8, <1>9, Zenon
<1>12. \A i \in 1..n : Sent(c[i]) /\ Before(c[i], m) /\ \A y \in Msgs : Waits(y) => Before(c[i], y)
  BY <1>1, <1>2, <1>7, Zenon DEF CausedBy
<1>13. \A i \in 1..n : c[i] # m
  BY <1>12, NotBeforeItself, Zenon DEF Order
<1>14. Sent(m) /\ \A y \in Msgs : Waits(y) => Before(m, y)
  BY <1>1, <1>5, Zenon DEF Order, RouterOrder
<1>15. \A i, j \in 1..(n + 1) : d[i] = d[j] => i = j
  <2>1. \A i, j \in 1..n : c[i] = c[j] => i = j
    BY <1>1, <1>7, Zenon DEF CausedBy
  <2> QED BY <2>1, <1>9, <1>11, <1>13, Zenon
<1>16. \A i \in 1..(n + 1) : Sent(d[i]) /\ \A y \in Msgs : Waits(y) => Before(d[i], y)
  BY <1>9, <1>11, <1>12, <1>14, Zenon
<1>17. CausedBy(d)'
  BY <1>2, <1>3, <1>4, <1>6, <1>15, <1>16, SameOrder, Zenon DEF CausedBy
<1> QED BY <1>4, <1>10, <1>17, Zenon DEF Caused

\* The other steps create no writer and bring the router to no message.
LEMMA OthersCaused ==
  ASSUME Typed, Typed', Caused,
         \/ RouterDial \/ RouterShutdown \/ RouterRecord \/ RouterLookup \/ RouterPush
         \/ \E i \in 1..Newest :
              WriterInvoke(i) \/ ReaderReceive(i) \/ ConnLost(i) \/ Shutdown(i)
  PROVE  Caused'
<1>1. routed' = routed
  BY Zenon DEF RouterDial, RouterShutdown, RouterRecord, RouterLookup, RouterPush, WriterInvoke,
       ReaderReceive, ConnLost, Shutdown, WatchClosed, ShutdownNotify, ShutdownStop, ShutdownRemove
<1>2. DOMAIN writers' = DOMAIN writers
  BY Zenon DEF RouterDial, RouterShutdown, RouterRecord, RouterLookup, RouterPush, WriterInvoke,
       ReaderReceive, ConnLost, Shutdown, WatchClosed, ShutdownNotify, ShutdownStop, ShutdownRemove
<1>3. Newest' = Newest
  <2>1. writers \in Seq(Writer) /\ writers' \in Seq(Writer)
    BY Zenon DEF Typed
  <2> QED BY <1>2, <2>1 DEF Newest
<1>4. \/ router' = router
      \/ \E pc \in {"record", "shutdown", "lookup", "push", "idle"} :
           \/ router' = [router EXCEPT !.pc = pc]
           \/ router' = [router EXCEPT !.pc = pc, !.found = reg]
      \/ router' = [router EXCEPT !.inbox = Append(@, Unreachable)]
  BY Zenon DEF RouterDial, RouterShutdown, RouterRecord, RouterLookup, RouterPush, WriterInvoke,
       ReaderReceive, ConnLost, Shutdown, WatchClosed, ShutdownNotify, ShutdownStop, ShutdownRemove
<1>5. router \in RouterState /\ router.inbox \in Seq(Msgs \cup {Unreachable})
  BY Zenon DEF Typed, RouterState
<1>6. /\ router'.msg = router.msg
      /\ router'.inbox \in {router.inbox, Append(router.inbox, Unreachable)}
      /\ router'.pc = "spawn" => router.pc = "spawn"
  <2>1. \A pc \in {"record", "shutdown", "lookup", "push", "idle"} : pc # "spawn"
    BY Zenon
  <2> QED BY <1>4, <1>5, <2>1, Zenon DEF RouterState
<1>7. ASSUME NEW x, Waits(x)' PROVE Waits(x)
  <2>1. CASE router'.inbox = router.inbox
    BY <1>7, <2>1, Zenon DEF Waits
  <2>2. CASE router'.inbox = Append(router.inbox, Unreachable)
    <3>1. PICK k \in 1..Len(Append(router.inbox, Unreachable)) :
            Append(router.inbox, Unreachable)[k] = x /\ x # Unreachable
      BY <1>7, <2>2, Zenon DEF Waits
    <3>2. k \in 1..Len(router.inbox) /\ router.inbox[k] = x
      BY <3>1, <1>5
    <3> QED BY <3>1, <3>2, Zenon DEF Waits
  <2> QED BY <1>6, <2>1, <2>2, Zenon
<1> QED BY <1>1, <1>3, <1>6, <1>7, CausedStays, Zenon

\* No writer, at first.
LEMMA InitCaused == Init => Caused
<1> SUFFICES ASSUME Init PROVE Caused
  BY Zenon
<1>1. Newest = 0 /\ 1..0 = {}
  BY DEF Init, Newest
<1>2. [i \in {} |-> i] \in [{} -> Msgs]
  BY Zenon
<1> QED BY <1>1, <1>2, Zenon DEF Caused, CausedBy

\* A message causes at most one writer: there are no more than messages.
LEMMA WritersBounded ==
  ASSUME Typed, Caused, IsFiniteSet(Msgs)
  PROVE  Newest <= Cardinality(Msgs)
<1>1. PICK c \in [1..Newest -> Msgs] : CausedBy(c)
  BY Zenon DEF Caused
<1>2. \A i, j \in 1..Newest : c[i] = c[j] => i = j
  BY <1>1, Zenon DEF CausedBy
<1>3. c \in Injection(1..Newest, Msgs)
  BY <1>1, <1>2, Zenon DEF Injection, IsInjective
<1>4. Cardinality(1..Newest) <= Cardinality(Msgs)
  BY <1>3, FS_Injection, Zenon
<1>5. Newest \in Nat
  BY WriterIndices, Zenon
<1>6. Cardinality(1..Newest) = Newest
  BY <1>5, FS_Interval
<1> QED BY <1>4, <1>6, Zenon

-----------------------------------------------------------------------------
(* The theorems *)

IInv == Typed /\ Holder /\ Order /\ Caused

\* Every step preserves the invariant.
LEMMA StepInv ==
  ASSUME IInv, [Next]_vars
  PROVE  IInv'
<1>0. Typed /\ Holder /\ Order /\ Caused
  BY Zenon DEF IInv
<1>1. CASE UNCHANGED vars
  <2>1. /\ UNCHANGED <<router, entry, reg, writers, unsent, routed, received, dead, lost,
                       crashed, faults>>
        /\ Newest' = Newest /\ (Busy' => Busy)
    BY <1>1, Zenon DEF vars, Newest, Busy
  <2>2. Typed'
    BY <2>1, <1>0, Zenon DEF Typed
  <2>3. Holder'
    BY <2>1, <1>0, Zenon DEF Holder
  <2>4. Order'
    BY <2>1, <1>0, Stays, Zenon
  <2>5. Caused'
    BY <2>1, <1>0, CausedStays, Zenon DEF Waits
  <2> QED BY <2>2, <2>3, <2>4, <2>5, Zenon DEF IInv
<1>2. ASSUME NEW m \in Msgs, Send(m) PROVE IInv'
  BY <1>0, <1>2, SendTyped, SendOrder, SendCaused, Zenon DEF IInv
<1>3. CASE RouterReceive
  BY <1>0, <1>3, RouterReceiveTyped, RouterReceiveOrder,
     RouterReceiveCaused, Zenon DEF IInv
<1>4. CASE RouterSpawn
  BY <1>0, <1>4, RouterSpawnTyped, RouterSpawnOrder, RouterSpawnCaused, Zenon DEF IInv
<1>5. CASE RouterDial
  BY <1>0, <1>5, RouterDialTyped, RouterMovesOrder, OthersCaused, Zenon DEF IInv
<1>6. CASE RouterShutdown \/ RouterRecord
  <2>1. PICK pc \in {"record", "lookup"} : router' = [router EXCEPT !.pc = pc]
    BY <1>6, Zenon DEF RouterShutdown, RouterRecord
  <2>2. "shutdown" # "idle" /\ "record" # "idle"
    BY Zenon
  <2>3. /\ router.pc # "idle" /\ entry' \in BOOLEAN /\ dead' \subseteq Msgs
        /\ UNCHANGED <<reg, writers, unsent, routed, received, lost, crashed, faults>>
    BY <1>0, <1>6, <2>2, Zenon DEF RouterShutdown, RouterRecord, Typed
  <2>4. Typed' /\ Holder'
    BY <1>0, <2>1, <2>3, RouterMoves, Zenon
  <2> QED BY <1>0, <1>6, <2>4, RouterMovesOrder, OthersCaused, Zenon DEF IInv
<1>7. CASE RouterLookup
  BY <1>0, <1>7, RouterLookupTyped, RouterMovesOrder, OthersCaused, Zenon DEF IInv
<1>8. CASE RouterPush
  BY <1>0, <1>8, RouterPushTyped, RouterPushOrder, OthersCaused, Zenon DEF IInv
<1>9. ASSUME NEW i \in DOMAIN writers,
             WriterInvoke(i) \/ ReaderReceive(i) \/ ConnLost(i) \/ Shutdown(i)
      PROVE  IInv'
  <2>1. i \in 1..Newest
    BY <1>0, WriterIndices, Zenon
  <2>2. CASE WriterInvoke(i)
    BY <1>0, <2>1, <2>2, WriterInvokeTyped, WriterInvokeOrder, OthersCaused, Zenon DEF IInv
  <2>3. CASE ReaderReceive(i)
    BY <1>0, <2>1, <2>3, ReaderReceiveTyped, ReaderReceiveOrder,
       OthersCaused, Zenon DEF IInv
  <2>4. CASE ConnLost(i)
    BY <1>0, <2>1, <2>4, ConnLostTyped, ConnLostOrder, OthersCaused, Zenon DEF IInv
  <2>5. CASE Shutdown(i)
    BY <1>0, <2>1, <2>5, ShutdownTyped, ShutdownOrder, OthersCaused, Zenon DEF IInv
  <2> QED BY <1>9, <2>2, <2>3, <2>4, <2>5, Zenon
<1> QED BY <1>1, <1>2, <1>3, <1>4, <1>5, <1>6, <1>7, <1>8, <1>9, Zenon DEF Next, Router

\* The invariant the properties follow from.
THEOREM Invariance == Spec => []IInv
<1>1. Init => IInv
  BY InitTyped, InitOrder, InitCaused, Zenon DEF IInv
<1>2. IInv /\ [Next]_vars => IInv'
  BY StepInv, Zenon
<1> QED BY <1>1, <1>2, PTL DEF Spec

\* The state of the router, of the registry and of the writers of an address;
\* no message causes two writers, whatever fails in between.
THEOREM TypeCorrect ==
  ASSUME IsFiniteSet(Msgs)
  PROVE  Spec => []TypeOK
<1>1. IInv => TypeOK
  <2>1. SUFFICES ASSUME IInv PROVE TypeOK
    BY Zenon
  <2>2. Typed /\ Caused
    BY <2>1, Zenon DEF IInv
  <2>3. Newest <= Cardinality(Msgs)
    BY <2>2, WritersBounded, Zenon
  <2>4. ASSUME NEW i \in DOMAIN writers
        PROVE  /\ writers[i].inbox \in {"open", "stopped"}
               /\ writers[i].queue \in Seq(Msgs)
               /\ writers[i].conn \in {"none", "up", "ended", "closed", "no deadline"}
               /\ writers[i].shut \in {"none", "notify", "stop", "remove", "done"}
    <3>1. writers[i] \in Writer
      BY <2>2, <2>4, WriterIndices, Zenon
    <3> QED BY <3>1, Zenon DEF Writer, Inboxes, Conns, Shuts
  <2> QED BY <2>2, <2>3, <2>4, Zenon DEF TypeOK, Typed, RouterState, Pcs
<1> QED BY <1>1, Invariance, PTL

\* No message is handed over twice, through any number of reconnections, and
\* what one connection carries arrives in the order of the calls of Remote.Send.
THEOREM ArrivesInOrderOnce == Spec => []InOrderOnce
<1>1. IInv => InOrderOnce
  <2>1. SUFFICES ASSUME IInv, NEW j \in DOMAIN received, NEW k \in DOMAIN received, j < k,
                        Arrived(j) # Empty.data, Arrived(k) # Empty.data
                 PROVE  /\ Arrived(j) # Arrived(k)
                        /\ received[j].by = received[k].by =>
                             Place(routed, Arrived(j)) < Place(routed, Arrived(k))
    BY Zenon DEF InOrderOnce
  <2>2. Typed /\ Order /\ routed \in Seq(Msgs) /\ received \in Seq(Handed)
    BY <2>1, Zenon DEF IInv, Typed
  <2>3. j \in 1..Len(received) /\ k \in 1..Len(received) /\ received[j] \in Handed /\ received[k] \in Handed
    BY <2>2
  <2>4. Arrived(j) \in Msgs /\ Arrived(k) \in Msgs
    <3>1. received[j].msg \in Items /\ received[k].msg \in Items
      BY <2>3, Zenon DEF Handed
    <3> QED BY <3>1, <2>1, DataInMsgs, Zenon DEF Arrived
  <2>5. CASE received[j].by = received[k].by
    <3>1. Before(Arrived(j), Arrived(k))
      BY <2>1, <2>2, <2>3, <2>5, Zenon DEF Order, ReaderOrder
    <3>2. PICK a, b \in 1..Len(routed) : a < b /\ routed[a] = Arrived(j) /\ routed[b] = Arrived(k)
      BY <3>1, Zenon DEF Before
    <3>3. \A c, d \in 1..Len(routed) : routed[c] = routed[d] => c = d
      BY <2>2, Zenon DEF Order, SentOnce
    <3>4. Place(routed, routed[a]) = a
      BY <2>2, <3>3, PlaceOfOnly, Zenon
    <3>5. Place(routed, routed[b]) = b
      BY <2>2, <3>3, PlaceOfOnly, Zenon
    <3>6. Arrived(j) # Arrived(k)
      BY <3>1, <2>2, NotBeforeItself, Zenon DEF Order
    <3> QED BY <3>2, <3>4, <3>5, <3>6, Zenon
  <2>6. CASE received[j].by # received[k].by
    <3>1. received[j].by \in 1..Newest /\ received[k].by \in 1..Newest
      BY <2>2, <2>3, Zenon DEF Order, ReaderOrder
    <3>2. Held(received[j].by, Arrived(j)) /\ Held(received[k].by, Arrived(k))
      BY <2>1, <2>3, Zenon DEF Held, Got
    <3> QED BY <3>1, <3>2, <2>2, <2>4, <2>6, Zenon DEF Order, HeldOrder
  <2> QED BY <2>5, <2>6, Zenon
<1> QED BY <1>1, Invariance, PTL

\* Every message that is handed over has its own type, its own target and, when
\* it was sent with one, its own sender.
THEOREM AttributedToItself == Spec => []Attribution
<1>1. IInv => Attribution
  <2>1. SUFFICES ASSUME IInv, NEW k \in DOMAIN received PROVE Attributed(received[k].msg)
    BY Zenon DEF Attribution, Attributed
  <2>2. received \in Seq(Handed)
    BY <2>1, Zenon DEF IInv, Typed
  <2>3. received[k] \in Handed
    BY <2>2
  <2> QED BY <2>3, DataInMsgs, Zenon DEF Handed
<1> QED BY <1>1, Invariance, PTL

\* Shutdown never removes the entry of a successor from the registry.
THEOREM OnlyItself == Spec => RemovesItself
<1>1. IInv => \A i \in DOMAIN writers : writers[i].shut = "remove" => reg = i
  <2>1. SUFFICES ASSUME IInv, NEW i \in DOMAIN writers, writers[i].shut = "remove" PROVE reg = i
    BY Zenon
  <2>2. i \in 1..Newest
    BY <2>1, WriterIndices, Zenon DEF IInv
  <2> QED BY <2>1, <2>2, Zenon DEF IInv, Holder
<1>2. IInv /\ [Next]_vars =>
        [\A i \in DOMAIN writers :
           writers[i].shut = "remove" /\ writers'[i].shut = "done" => reg = i]_vars
  BY <1>1, Zenon
<1> QED BY <1>2, Invariance, PTL DEF Spec, RemovesItself
=============================================================================
