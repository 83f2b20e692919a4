-------------------------- MODULE RingBufferProof --------------------------
(***************************************************************************)
(* Proofs about RingBuffer.tla, for every element type, initial size and    *)
(* bound: the index invariant, and that the buffer implements Deque.        *)
(***************************************************************************)
EXTENDS RingBuffer, SequenceTheorems, TLAPS

(* An index at most one turn after h wraps at most once, which is all the     *)
(* arithmetic the index expressions of the buffer need.                       *)
LEMMA Wrap ==
  ASSUME NEW m \in Nat \ {0}, NEW h \in 0..m-1, NEW i \in 0..m
  PROVE  /\ (h + i) % m = IF h + i < m THEN h + i ELSE h + i - m
         /\ (h + i) % m \in 0..m-1
OBVIOUS

(* Two different offsets of less than one turn have different slots.          *)
LEMMA WrapInjective ==
  ASSUME NEW m \in Nat \ {0}, NEW h \in 0..m-1,
         NEW i \in 0..m-1, NEW j \in 0..m-1, (h + i) % m = (h + j) % m
  PROVE  i = j
<1>1. (h + i) % m = IF h + i < m THEN h + i ELSE h + i - m
  OBVIOUS
<1>2. (h + j) % m = IF h + j < m THEN h + j ELSE h + j - m
  OBVIOUS
<1> QED BY <1>1, <1>2

(* Moving the origin by k slots: the offset of a slot changes by k.           *)
LEMMA WrapShift ==
  ASSUME NEW m \in Nat \ {0}, NEW h \in 0..m-1,
         NEW k \in 0..m, NEW i \in 0..m, k + i <= m
  PROVE  (((h + k) % m) + i) % m = (h + k + i) % m
<1> DEFINE g == (h + k) % m
<1>1. g = (IF h + k < m THEN h + k ELSE h + k - m) /\ g \in 0..m-1
  BY Wrap, Zenon
<1>2. (g + i) % m = IF g + i < m THEN g + i ELSE g + i - m
  BY Wrap, <1>1, Zenon
<1>3. (h + (k + i)) % m = IF h + (k + i) < m THEN h + (k + i) ELSE h + (k + i) - m
  <2>1. k + i \in 0..m
    OBVIOUS
  <2> QED BY <2>1, Wrap, Zenon
<1>4. h + (k + i) = h + k + i
  OBVIOUS
<1> HIDE DEF g
<1>5. (g + i) % m = (h + k + i) % m
  BY <1>1, <1>2, <1>3, <1>4
<1> QED BY <1>5, Zenon DEF g

IInv == TypeOK /\ Window /\ LiveSlots

(* The buffer New returns satisfies the invariant.                            *)
LEMMA InitIInv == Init => IInv
<1> SUFFICES ASSUME Init PROVE IInv
  BY Zenon
<1>1. TypeOK
  BY SizeAssumption, MaxAssumption DEF Init, TypeOK
<1>2. Slot(0) = 0
  BY <1>1, SizeAssumption DEF Init, TypeOK, Slot
<1> QED BY <1>1, <1>2, SizeAssumption DEF Init, IInv, Window, LiveSlots

-----------------------------------------------------------------------------
(* Push finds the buffer full exactly when every slot but one is in use.      *)
LEMMA PushSlot ==
  ASSUME TypeOK, Window
  PROVE  /\ (tail + 1) % mod = Slot(len + 1)
         /\ Slot(len + 1) \in 0..mod-1
         /\ Slot(len + 1) = head <=> len = mod - 1
<1>1. /\ mod \in Nat \ {0} /\ head \in 0..mod-1 /\ len \in 0..mod-1
      /\ len + 1 \in 0..mod /\ 1 \in 0..mod
  BY MaxAssumption DEF TypeOK, Window
<1>2. (((head + len) % mod) + 1) % mod = (head + len + 1) % mod
  BY <1>1, WrapShift
<1>3. head + len + 1 = head + (len + 1)
  BY <1>1
<1>4. /\ (head + (len + 1)) % mod = IF head + (len + 1) < mod THEN head + (len + 1)
                                                      ELSE head + (len + 1) - mod
      /\ (head + (len + 1)) % mod \in 0..mod-1
  BY <1>1, Wrap, Zenon
<1>5. (tail + 1) % mod = (head + (len + 1)) % mod
  BY <1>2, <1>3, Zenon DEF Window, Slot
<1> QED BY <1>1, <1>4, <1>5 DEF Slot

(* Push keeps the items where the head finds them and adds one behind them.   *)
LEMMA PushStep ==
  ASSUME IInv, NEW item \in Items, Push(item)
  PROVE  /\ TypeOK' /\ Window' /\ len' = len + 1 /\ out' = <<>>
         /\ \A i \in 1..len : items'[Slot(i)'] = items[Slot(i)]
         /\ items'[Slot(len)'] = item
<1> DEFINE t == (tail + 1) % mod
<1>1. /\ mod \in Nat \ {0} /\ head \in 0..mod-1 /\ len \in 0..mod-1
      /\ items \in [0..mod-1 -> Items \cup {Zero}]
      /\ len \in 0..MaxLen /\ MaxLen \in Nat
  BY MaxAssumption DEF IInv, TypeOK, Window
<1>2. /\ t = Slot(len + 1) /\ t \in 0..mod-1
      /\ (t = head <=> len = mod - 1)
  BY PushSlot, Zenon DEF IInv
<1>3. /\ len < MaxLen /\ len' = len + 1 /\ out' = <<>>
      /\ len' \in 0..MaxLen /\ out' \in Seq(Items \cup {Zero})
  <2>1. len < MaxLen /\ len' = len + 1 /\ out' = <<>>
    BY Zenon DEF Push
  <2> QED BY <2>1, <1>1
<1>4. CASE t # head
  <2>1. /\ items' = [items EXCEPT ![t] = item] /\ tail' = t
        /\ head' = head /\ mod' = mod
    BY <1>4, Zenon DEF Push
  <2>2. \A i : Slot(i)' = Slot(i)
    BY <2>1, Zenon DEF Slot
  <2>3. \A i \in 1..len : Slot(i) \in 0..mod-1 /\ Slot(i) # t
    <3> TAKE i \in 1..len
    <3>1. i \in 0..mod-1 /\ i \in 0..mod /\ len + 1 \in 0..mod-1 /\ i # len + 1
      BY <1>1, <1>2, <1>4
    <3>2. (head + i) % mod # (head + (len + 1)) % mod
      BY <1>1, <3>1, WrapInjective, Zenon
    <3>3. (head + i) % mod \in 0..mod-1
      BY <1>1, <3>1, Wrap, Zenon
    <3> QED BY <3>2, <3>3, <1>2, Zenon DEF Slot
  <2>4. \A i \in 1..len : items'[Slot(i)'] = items[Slot(i)]
    BY <2>1, <2>2, <2>3, <1>1, Zenon
  <2>5. items'[Slot(len)'] = item
    <3>1. Slot(len)' = t
      BY <2>1, <1>2, <1>3, Zenon DEF Slot
    <3> QED BY <3>1, <2>1, <1>1, <1>2, Zenon
  <2>6. TypeOK'
    <3>1. items' \in [0..mod-1 -> Items \cup {Zero}]
      BY <2>1, <1>1, Zenon
    <3> QED BY <3>1, <2>1, <1>1, <1>2, <1>3, Zenon DEF TypeOK
  <2>7. Window'
    <3>1. Slot(len)' = t
      BY <2>1, <1>2, <1>3, Zenon DEF Slot
    <3> QED BY <3>1, <2>1, <1>1, <1>2, <1>3, <1>4 DEF Window
  <2> QED BY <1>3, <2>4, <2>5, <2>6, <2>7, Zenon
<1>5. CASE t = head
  <2>1. /\ items' = [i \in 0..2*mod-1 |->
                       IF i < mod THEN items[(t + i) % mod]
                       ELSE IF i = mod THEN item ELSE Zero]
        /\ head' = 0 /\ tail' = mod /\ mod' = 2 * mod
    BY <1>5, Zenon DEF Push
  <2>2. len = mod - 1
    BY <1>2, <1>5, Zenon
  <2>3. \A i \in 0..mod : Slot(i)' = i
    <3> TAKE i \in 0..mod
    <3>1. (0 + i) % (2 * mod) = i
      BY <1>1
    <3> QED BY <3>1, <2>1, Zenon DEF Slot
  <2>4. \A i \in 0..mod-1 : items[(head + i) % mod] \in Items \cup {Zero}
    <3> TAKE i \in 0..mod-1
    <3>1. (head + i) % mod \in 0..mod-1
      BY <1>1, Wrap
    <3> QED BY <3>1, <1>1, Zenon
  <2>5. \A i \in 1..len : items'[Slot(i)'] = items[Slot(i)]
    <3> TAKE i \in 1..len
    <3>1. i \in 0..2*mod-1 /\ i < mod /\ Slot(i)' = i
      BY <2>2, <2>3, <1>1
    <3>2. items'[i] = items[(head + i) % mod]
      BY <3>1, <2>1, <1>5, Zenon
    <3> QED BY <3>1, <3>2, Zenon DEF Slot
  <2>6. items'[Slot(len)'] = item /\ Slot(len)' = mod
    <3>1. Slot(len)' = mod
      BY <2>1, <2>2, <1>1, <1>3 DEF Slot
    <3>2. mod \in 0..2*mod-1 /\ ~(mod < mod)
      BY <1>1
    <3> QED BY <3>1, <3>2, <2>1, Zenon
  <2>7. TypeOK'
    <3>1. items' \in [0..mod'-1 -> Items \cup {Zero}]
      BY <2>1, <2>4, <1>1, <1>5
    <3> QED BY <3>1, <2>1, <1>1, <1>3 DEF TypeOK
  <2>8. Window'
    BY <2>1, <2>2, <2>6, <1>1, <1>3 DEF Window
  <2> QED BY <1>3, <2>5, <2>6, <2>7, <2>8, Zenon
<1> QED BY <1>4, <1>5, Zenon

(* PushFront puts the item in the first slot and every other one slot later.  *)
LEMMA PushFrontStep ==
  ASSUME IInv, NEW item \in Items, PushFront(item)
  PROVE  /\ TypeOK' /\ Window' /\ len' = len + 1 /\ out' = <<>>
         /\ \A i \in 1..len : items'[Slot(i + 1)'] = items[Slot(i)]
         /\ items'[Slot(1)'] = item
<1>1. /\ mod \in Nat \ {0} /\ head \in 0..mod-1 /\ len \in 0..mod-1
      /\ items \in [0..mod-1 -> Items \cup {Zero}]
      /\ len \in 0..MaxLen /\ MaxLen \in Nat
      /\ tail \in 0..mod-1 /\ tail = (head + len) % mod
  BY MaxAssumption DEF IInv, TypeOK, Window, Slot
<1>2. \A i \in 0..mod : Slot(i) \in 0..mod-1
  BY <1>1, Wrap, Zenon DEF Slot
<1>3. /\ len' = len + 1 /\ out' = <<>>
      /\ len' \in 0..MaxLen /\ out' \in Seq(Items \cup {Zero})
  <2>1. len < MaxLen /\ len' = len + 1 /\ out' = <<>>
    BY Zenon DEF PushFront
  <2> QED BY <2>1, <1>1
<1>4. CASE len < mod - 1
  <2> DEFINE h == (head - 1 + mod) % mod
  <2>1. /\ items' = [items EXCEPT ![head] = item] /\ head' = h
        /\ tail' = tail /\ mod' = mod
    BY <1>1, <1>4 DEF PushFront
  <2>2. h \in 0..mod-1 /\ h = IF head = 0 THEN mod - 1 ELSE head - 1
    <3>1. head + (mod - 1) = head - 1 + mod /\ mod - 1 \in 0..mod
      BY <1>1
    <3>2. /\ (head + (mod - 1)) % mod = IF head + (mod - 1) < mod THEN head + (mod - 1)
                                        ELSE head + (mod - 1) - mod
          /\ (head + (mod - 1)) % mod \in 0..mod-1
      BY <1>1, <3>1, Wrap, Zenon
    <3> QED BY <1>1, <3>1, <3>2
  <2> HIDE DEF h
  <2>3. \A i \in 0..len : (h + (i + 1)) % mod = (head + i) % mod
    <3> TAKE i \in 0..len
    <3>1. /\ i \in 0..mod /\ i + 1 \in 0..mod
      BY <1>1, <1>4
    <3>2. (head + i) % mod = IF head + i < mod THEN head + i ELSE head + i - mod
      BY <1>1, <3>1, Wrap, Zenon
    <3>3. (h + (i + 1)) % mod = IF h + (i + 1) < mod THEN h + (i + 1)
                                                     ELSE h + (i + 1) - mod
      BY <1>1, <2>2, <3>1, Wrap, Zenon
    <3> QED BY <1>1, <2>2, <3>1, <3>2, <3>3
  <2>4. (head + 0) % mod = head
    BY <1>1
  <2>5. \A i \in 1..len : items'[Slot(i + 1)'] = items[Slot(i)]
    <3> TAKE i \in 1..len
    <3>1. i \in 0..mod-1 /\ 0 \in 0..mod-1 /\ i # 0 /\ i \in 0..len /\ i \in 0..mod
      BY <1>1
    <3>2. (head + i) % mod # (head + 0) % mod
      BY <1>1, <3>1, WrapInjective, Zenon
    <3>3. Slot(i) # head /\ Slot(i) \in 0..mod-1 /\ Slot(i + 1)' = Slot(i)
      BY <3>1, <3>2, <2>1, <2>3, <2>4, <1>2, Zenon DEF Slot
    <3> QED BY <3>3, <2>1, <1>1, Zenon
  <2>6. items'[Slot(1)'] = item
    <3>1. 0 \in 0..len /\ 0 + 1 = 1
      BY <1>1
    <3>2. Slot(1)' = head
      BY <3>1, <2>1, <2>3, <2>4, Zenon DEF Slot
    <3> QED BY <3>2, <2>1, <1>1, Zenon
  <2>7. TypeOK'
    <3>1. items' \in [0..mod-1 -> Items \cup {Zero}]
      BY <2>1, <1>1, Zenon
    <3> QED BY <3>1, <2>1, <2>2, <1>1, <1>3, Zenon DEF TypeOK
  <2>8. Window'
    <3>1. len \in 0..len
      BY <1>1
    <3>2. (h + (len + 1)) % mod = (head + len) % mod
      BY <3>1, <2>3, Zenon
    <3> QED BY <3>2, <2>1, <1>1, <1>3, <1>4 DEF Window, Slot
  <2> QED BY <1>3, <2>5, <2>6, <2>7, <2>8, Zenon
<1>5. CASE ~(len < mod - 1)
  <2>1. /\ items' = [i \in 0..2*mod-1 |->
                       IF i = 0 THEN item
                       ELSE IF i <= len THEN items[Slot(i)] ELSE Zero]
        /\ head' = 2 * mod - 1 /\ tail' = len /\ mod' = 2 * mod
    BY <1>1, <1>5, Zenon DEF PushFront
  <2>2. len = mod - 1
    BY <1>1, <1>5
  <2>3. \A i \in 0..len : (2 * mod - 1 + (i + 1)) % (2 * mod) = i
    BY <1>1
  <2>4. \A i \in 1..len : items'[Slot(i + 1)'] = items[Slot(i)]
    <3> TAKE i \in 1..len
    <3>1. i \in 0..len /\ i \in 0..2*mod-1 /\ i # 0 /\ i <= len
      BY <1>1
    <3>2. Slot(i + 1)' = i
      BY <3>1, <2>1, <2>3, Zenon DEF Slot
    <3> QED BY <3>1, <3>2, <2>1, Zenon
  <2>5. items'[Slot(1)'] = item
    <3>1. 0 \in 0..len /\ 0 + 1 = 1 /\ 0 \in 0..2*mod-1
      BY <1>1
    <3>2. Slot(1)' = 0
      BY <3>1, <2>1, <2>3, Zenon DEF Slot
    <3> QED BY <3>1, <3>2, <2>1, Zenon
  <2>6. TypeOK'
    <3>1. \A i \in 0..len : items[Slot(i)] \in Items \cup {Zero}
      BY <1>1, <1>2
    <3>2. items' \in [0..mod'-1 -> Items \cup {Zero}]
      BY <3>1, <2>1, <1>1
    <3> QED BY <3>2, <2>1, <2>2, <1>1, <1>3 DEF TypeOK
  <2>7. Window'
    <3>1. len \in 0..len
      BY <1>1
    <3>2. (2 * mod - 1 + (len + 1)) % (2 * mod) = len
      BY <3>1, <2>3, Zenon
    <3> QED BY <3>2, <2>1, <2>2, <1>1, <1>3 DEF Window, Slot
  <2> QED BY <1>3, <2>4, <2>5, <2>6, <2>7, Zenon
<1> QED BY <1>4, <1>5, Zenon

(* Removing the first k items leaves the others in their slots, now found k   *)
(* slots closer to the head.                                                  *)
LEMMA TakeStep ==
  ASSUME IInv, NEW k \in 1..len,
         items' \in [0..mod-1 -> Items \cup {Zero}],
         \A i \in k+1..len : items'[Slot(i)] = items[Slot(i)],
         out' \in Seq(Items \cup {Zero}),
         head' = (head + k) % mod, tail' = tail, mod' = mod, len' = len - k
  PROVE  /\ TypeOK' /\ Window'
         /\ \A i \in 1..len-k : items'[Slot(i)'] = items[Slot(i + k)]
<1>1. /\ mod \in Nat \ {0} /\ head \in 0..mod-1 /\ len \in 0..mod-1
      /\ len \in 0..MaxLen /\ MaxLen \in Nat /\ k \in 0..mod
      /\ tail \in 0..mod-1 /\ tail = (head + len) % mod
  BY MaxAssumption DEF IInv, TypeOK, Window, Slot
<1>2. head' \in 0..mod-1
  BY <1>1, Wrap, Zenon
<1>3. \A i \in 0..len-k : (head' + i) % mod = (head + (i + k)) % mod
  <2> TAKE i \in 0..len-k
  <2>1. i \in 0..mod /\ k + i <= mod /\ head + k + i = head + (i + k)
    BY <1>1
  <2>2. (((head + k) % mod) + i) % mod = (head + k + i) % mod
    BY <1>1, <2>1, WrapShift, Zenon
  <2> QED BY <2>1, <2>2, Zenon
<1>4. TypeOK'
  BY <1>1, <1>2 DEF TypeOK
<1>5. Window'
  <2>1. len - k \in 0..len-k /\ len - k + k = len
    BY <1>1
  <2>2. (head' + (len - k)) % mod = (head + len) % mod
    BY <1>3, <2>1, Zenon
  <2> QED BY <2>2, <1>1 DEF Window, Slot
<1>6. \A i \in 1..len-k : items'[Slot(i)'] = items[Slot(i + k)]
  <2> TAKE i \in 1..len-k
  <2>1. i \in 0..len-k /\ i + k \in k+1..len
    BY <1>1
  <2>2. Slot(i)' = Slot(i + k)
    BY <1>3, <2>1, Zenon DEF Slot
  <2> QED BY <2>1, <2>2, Zenon
<1> QED BY <1>4, <1>5, <1>6, Zenon

(* PopN returns the first k items in order and leaves the rest, where k is    *)
(* the smaller of its argument and the number of items.                       *)
LEMMA PopNStep ==
  ASSUME IInv, NEW n \in 1..MaxN, PopN(n), len > 0,
         NEW k, k = IF n >= len THEN len ELSE n
  PROVE  /\ TypeOK' /\ Window' /\ k \in 1..len /\ len' = len - k
         /\ out' = [i \in 1..k |-> items[Slot(i)]]
         /\ \A i \in 1..len-k : items'[Slot(i)'] = items[Slot(i + k)]
<1>1. /\ mod \in Nat \ {0} /\ head \in 0..mod-1 /\ len \in 0..mod-1
      /\ items \in [0..mod-1 -> Items \cup {Zero}]
      /\ n \in Nat \ {0} /\ k \in 1..len
  BY MaxAssumption DEF IInv, TypeOK, Window
<1>2. /\ out' = [i \in 1..k |-> items[Slot(i)]]
      /\ items' = [p \in DOMAIN items |->
                     IF \E i \in 1..k : p = Slot(i) THEN Zero ELSE items[p]]
      /\ head' = (head + k) % mod
      /\ len' = len - k
      /\ tail' = tail /\ mod' = mod
  BY <1>1 DEF PopN
<1>3. \A i \in 1..len : Slot(i) \in 0..mod-1
  BY <1>1, Wrap DEF Slot
<1>4. items' \in [0..mod-1 -> Items \cup {Zero}]
  BY <1>1, <1>2, Zenon
<1>5. \A i \in k+1..len : items'[Slot(i)] = items[Slot(i)]
  <2> TAKE i \in k+1..len
  <2>1. ASSUME NEW j \in 1..k PROVE Slot(i) # Slot(j)
    <3>1. i \in 0..mod-1 /\ j \in 0..mod-1 /\ i # j
      BY <1>1
    <3> QED BY <1>1, <3>1, WrapInjective, Zenon DEF Slot
  <2>2. Slot(i) \in DOMAIN items
    BY <1>1, <1>3
  <2> QED BY <1>2, <2>1, <2>2, Zenon
<1>6. out' \in Seq(Items \cup {Zero})
  <2>1. \A i \in 1..k : items[Slot(i)] \in Items \cup {Zero}
    BY <1>1, <1>3
  <2> QED BY <1>1, <1>2, <2>1
<1> QED BY <1>1, <1>2, <1>4, <1>5, <1>6, TakeStep, Zenon

(* Pop is PopN of one item.                                                   *)
LEMMA PopStep ==
  ASSUME IInv, Pop, len > 0
  PROVE  /\ TypeOK' /\ Window' /\ len' = len - 1
         /\ out' = <<items[Slot(1)]>>
         /\ \A i \in 1..len-1 : items'[Slot(i)'] = items[Slot(i + 1)]
<1>1. /\ mod \in Nat \ {0} /\ head \in 0..mod-1 /\ len \in 0..mod-1
      /\ items \in [0..mod-1 -> Items \cup {Zero}] /\ 1 \in 1..len
  BY MaxAssumption DEF IInv, TypeOK, Window
<1>2. /\ head' = Slot(1)
      /\ out' = <<items[Slot(1)]>>
      /\ items' = [items EXCEPT ![Slot(1)] = Zero]
      /\ len' = len - 1
      /\ tail' = tail /\ mod' = mod
  BY <1>1 DEF Pop, Slot
<1>3. \A i \in 1..len : Slot(i) \in 0..mod-1
  BY <1>1, Wrap DEF Slot
<1>4. items' \in [0..mod-1 -> Items \cup {Zero}] /\ out' \in Seq(Items \cup {Zero})
  BY <1>1, <1>2, <1>3
<1>5. \A i \in 1+1..len : items'[Slot(i)] = items[Slot(i)]
  <2> TAKE i \in 1+1..len
  <2>1. i \in 0..mod-1 /\ 1 \in 0..mod-1 /\ i # 1 /\ i \in 1..len
    BY <1>1
  <2>2. Slot(i) # Slot(1)
    BY <1>1, <2>1, WrapInjective, Zenon DEF Slot
  <2> QED BY <1>1, <1>2, <1>3, <2>1, <2>2, Zenon
<1>6. head' = (head + 1) % mod
  BY <1>2, Zenon DEF Slot
<1>7. /\ TypeOK' /\ Window'
      /\ \A i \in 1..len-1 : items'[Slot(i)'] = items[Slot(i + 1)]
  BY <1>1, <1>2, <1>4, <1>5, <1>6, TakeStep, Zenon
<1> QED BY <1>2, <1>7, Zenon

(* Clear leaves an empty window at slot 0.                                    *)
LEMMA ClearStep ==
  ASSUME IInv, Clear
  PROVE  TypeOK' /\ Window' /\ len' = 0 /\ out' = <<>>
<1>1. /\ mod \in Nat \ {0} /\ items \in [0..mod-1 -> Items \cup {Zero}]
  BY Zenon DEF IInv, TypeOK
<1>2. /\ head' = 0 /\ tail' = 0 /\ len' = 0 /\ out' = <<>>
      /\ items' = items /\ mod' = mod
  BY Zenon DEF Clear
<1>3. (0 + 0) % mod = 0
  BY <1>1
<1> QED BY <1>1, <1>2, <1>3, MaxAssumption DEF TypeOK, Window, Slot

-----------------------------------------------------------------------------
(* Every operation keeps the index arithmetic in step with the item count     *)
(* and the live slots filled.                                                 *)
LEMMA NextIInv == IInv /\ [Next]_vars => IInv'
<1> SUFFICES ASSUME IInv, [Next]_vars PROVE IInv'
  BY Zenon
<1>0. len \in Nat
  BY MaxAssumption DEF IInv, TypeOK
<1>1. ASSUME NEW item \in Items, Push(item) PROVE IInv'
  <2>1. /\ TypeOK' /\ Window' /\ len' = len + 1
        /\ \A i \in 1..len : items'[Slot(i)'] = items[Slot(i)]
        /\ items'[Slot(len)'] = item
    BY <1>1, PushStep, Zenon
  <2>2. ASSUME NEW i \in 1..len' PROVE items'[Slot(i)'] \in Items
    <3>1. CASE i \in 1..len
      BY <2>1, <3>1, Zenon DEF IInv, LiveSlots
    <3>2. CASE i = len'
      BY <2>1, <3>2, Zenon DEF Slot
    <3> QED BY <1>0, <2>1, <3>1, <3>2
  <2> QED BY <2>1, <2>2, Zenon DEF IInv, LiveSlots
<1>2. ASSUME NEW item \in Items, PushFront(item) PROVE IInv'
  <2>1. /\ TypeOK' /\ Window' /\ len' = len + 1
        /\ \A i \in 1..len : items'[Slot(i + 1)'] = items[Slot(i)]
        /\ items'[Slot(1)'] = item
    BY <1>2, PushFrontStep, Zenon
  <2>2. ASSUME NEW i \in 1..len' PROVE items'[Slot(i)'] \in Items
    <3>1. CASE i = 1
      BY <2>1, <3>1, Zenon
    <3>2. CASE i # 1
      <4>1. i - 1 \in 1..len /\ i - 1 + 1 = i
        BY <1>0, <2>1, <3>2
      <4>2. items'[Slot(i)'] = items[Slot(i - 1)]
        BY <2>1, <4>1, Zenon
      <4> QED BY <4>1, <4>2, Zenon DEF IInv, LiveSlots
    <3> QED BY <3>1, <3>2, Zenon
  <2> QED BY <2>1, <2>2, Zenon DEF IInv, LiveSlots
<1>3. ASSUME len = 0, Pop \/ \E n \in 1..MaxN : PopN(n) PROVE IInv'
  <2>1. items' = items /\ head' = head /\ tail' = tail /\ mod' = mod /\ len' = len
        /\ out' = <<>>
    BY <1>3 DEF Pop, PopN
  <2> QED BY <1>3, <2>1 DEF IInv, TypeOK, Window, LiveSlots, Slot
<1>4. ASSUME NEW k \in 1..len, TypeOK', Window', len' = len - k,
             \A i \in 1..len-k : items'[Slot(i)'] = items[Slot(i + k)]
      PROVE  IInv'
  <2>1. ASSUME NEW i \in 1..len' PROVE items'[Slot(i)'] \in Items
    <3>1. i \in 1..len-k /\ i + k \in 1..len
      BY <1>0, <1>4
    <3> QED BY <1>4, <3>1, Zenon DEF IInv, LiveSlots
  <2> QED BY <1>4, <2>1, Zenon DEF IInv, LiveSlots
<1>5. CASE Pop
  <2>1. CASE len = 0
    BY <1>3, <1>5, <2>1, Zenon
  <2>2. CASE len > 0
    <3>1. 1 \in 1..len
      BY <1>0, <2>2
    <3> QED BY <1>4, <1>5, <2>2, <3>1, PopStep, Zenon
  <2> QED BY <1>0, <2>1, <2>2
<1>6. ASSUME NEW n \in 1..MaxN, PopN(n) PROVE IInv'
  <2>1. CASE len = 0
    BY <1>3, <1>6, <2>1, Zenon
  <2>2. CASE len > 0
    <3> DEFINE k == IF n >= len THEN len ELSE n
    <3>1. /\ TypeOK' /\ Window' /\ k \in 1..len /\ len' = len - k
          /\ \A i \in 1..len-k : items'[Slot(i)'] = items[Slot(i + k)]
      BY <1>6, <2>2, PopNStep, Zenon
    <3> HIDE DEF k
    <3> QED BY <1>4, <3>1, Zenon
  <2> QED BY <1>0, <2>1, <2>2
<1>7. CASE Clear
  BY <1>7, ClearStep DEF IInv, LiveSlots
<1>8. CASE UNCHANGED vars
  BY <1>8, Zenon DEF vars, IInv, TypeOK, Window, LiveSlots, Slot
<1> QED BY <1>1, <1>2, <1>5, <1>6, <1>7, <1>8, Zenon DEF Next

(* In every reachable state of a ring buffer of any size the indices agree    *)
(* with the item count and no live slot is empty.                             *)
THEOREM IndexInvariant == Spec => [](TypeOK /\ Window /\ LiveSlots)
<1>1. Init => IInv
  BY InitIInv, Zenon
<1>2. IInv /\ [Next]_vars => IInv'
  BY NextIInv, Zenon
<1>3. IInv <=> TypeOK /\ Window /\ LiveSlots
  BY Zenon DEF IInv
<1> QED BY <1>1, <1>2, <1>3, PTL DEF Spec

\* The indices stay within the array whatever is pushed and popped, also when
\* the array grows.
THEOREM IndexTypes == Spec => []TypeOK
BY IndexInvariant, PTL

\* The slots between head and tail always hold items, never a zero value.
THEOREM NoZeroInWindow == Spec => []LiveSlots
BY IndexInvariant, PTL

-----------------------------------------------------------------------------
(* The items from the front to the back: what the refinement maps to Deque.   *)
Contents == [i \in 1..len |-> items[Slot(i)]]

(* The contents are a sequence of items before and after a step.              *)
LEMMA ContentsSeq ==
  ASSUME IInv, [Next]_vars
  PROVE  /\ len \in Nat /\ Contents \in Seq(Items) /\ Len(Contents) = len
         /\ \A i \in 1..len : Contents[i] = items[Slot(i)]
         /\ len' \in Nat /\ Contents' \in Seq(Items) /\ Len(Contents') = len'
         /\ \A i \in 1..len' : Contents'[i] = items'[Slot(i)']
<1>1. IInv'
  BY NextIInv, Zenon
<1>2. len \in Nat /\ len' \in Nat
  BY <1>1, MaxAssumption DEF IInv, TypeOK
<1>3. \A i \in 1..len : items[Slot(i)] \in Items
  BY Zenon DEF IInv, LiveSlots
<1>4. \A i \in 1..len' : items'[Slot(i)'] \in Items
  BY <1>1, Zenon DEF IInv, LiveSlots
<1>5. /\ Contents \in Seq(Items) /\ Len(Contents) = len
      /\ \A i \in 1..len : Contents[i] = items[Slot(i)]
  BY <1>2, <1>3 DEF Contents
<1>6. Contents' = [i \in 1..len' |-> items'[Slot(i)']]
  BY Zenon DEF Contents
<1>7. /\ Contents' \in Seq(Items) /\ Len(Contents') = len'
      /\ \A i \in 1..len' : Contents'[i] = items'[Slot(i)']
  BY <1>2, <1>4, <1>6
<1> QED BY <1>2, <1>5, <1>7, Zenon

(* Push is the deque's push at the back.                                      *)
LEMMA PushDeque ==
  ASSUME IInv, NEW item \in Items, Push(item)
  PROVE  Contents' = Append(Contents, item) /\ out' = <<>>
<1>1. [Next]_vars
  BY Zenon DEF Next
<1>2. /\ len' = len + 1 /\ out' = <<>>
      /\ \A i \in 1..len : items'[Slot(i)'] = items[Slot(i)]
      /\ items'[Slot(len)'] = item
  BY PushStep, Zenon
<1>3. \A i : i = len' => Slot(i)' = Slot(len)'
  BY Zenon DEF Slot
<1>4. /\ len \in Nat /\ Contents \in Seq(Items) /\ Len(Contents) = len
      /\ \A i \in 1..len : Contents[i] = items[Slot(i)]
      /\ len' \in Nat /\ Contents' \in Seq(Items) /\ Len(Contents') = len'
      /\ \A i \in 1..len' : Contents'[i] = items'[Slot(i)']
  BY <1>1, ContentsSeq, Zenon
<1> DEFINE A == Append(Contents, item)
<1>5. /\ A \in Seq(Items) /\ Len(A) = len + 1
      /\ \A i \in 1..len : A[i] = Contents[i]
      /\ A[len + 1] = item
  BY <1>4, AppendProperties
<1> HIDE DEF A
<1>6. ASSUME NEW i \in 1..Len(A) PROVE Contents'[i] = A[i]
  <2>1. CASE i \in 1..len
    BY <1>2, <1>4, <1>5, <2>1, Zenon
  <2>2. CASE i = len + 1
    BY <1>2, <1>3, <1>4, <1>5, <2>2, Zenon
  <2> QED BY <1>4, <1>5, <2>1, <2>2
<1>7. Contents' = A
  BY <1>2, <1>4, <1>5, <1>6, SeqEqual, Zenon
<1> QED BY <1>2, <1>7, Zenon DEF A

(* PushFront is the deque's push at the front.                                *)
LEMMA PushFrontDeque ==
  ASSUME IInv, NEW item \in Items, PushFront(item)
  PROVE  Contents' = <<item>> \o Contents /\ out' = <<>>
<1>1. [Next]_vars
  BY Zenon DEF Next
<1>2. /\ len' = len + 1 /\ out' = <<>>
      /\ \A i \in 1..len : items'[Slot(i + 1)'] = items[Slot(i)]
      /\ items'[Slot(1)'] = item
  BY PushFrontStep, Zenon
<1>3. /\ len \in Nat /\ Contents \in Seq(Items) /\ Len(Contents) = len
      /\ \A i \in 1..len : Contents[i] = items[Slot(i)]
      /\ len' \in Nat /\ Contents' \in Seq(Items) /\ Len(Contents') = len'
      /\ \A i \in 1..len' : Contents'[i] = items'[Slot(i)']
  BY <1>1, ContentsSeq, Zenon
<1> DEFINE A == <<item>> \o Contents
<1>4. <<item>> \in Seq(Items) /\ Len(<<item>>) = 1 /\ <<item>>[1] = item
  OBVIOUS
<1>5. /\ A \in Seq(Items) /\ Len(A) = 1 + len
      /\ \A i \in 1..1+len : A[i] = IF i <= 1 THEN <<item>>[i] ELSE Contents[i - 1]
  BY <1>3, <1>4, ConcatProperties
<1> HIDE DEF A
<1>6. ASSUME NEW i \in 1..Len(A) PROVE Contents'[i] = A[i]
  <2>1. CASE i = 1
    <3>1. A[1] = item
      BY <1>3, <1>4, <1>5, <2>1
    <3>2. Contents'[1] = items'[Slot(1)']
      BY <1>2, <1>3
    <3> QED BY <1>2, <2>1, <3>1, <3>2, Zenon
  <2>2. CASE i # 1
    <3>1. i - 1 \in 1..len /\ (i - 1) + 1 = i /\ i \in 1..len'
      BY <1>2, <1>3, <1>5, <2>2
    <3>2. items'[Slot(i)'] = items[Slot(i - 1)]
      BY <1>2, <3>1, Zenon
    <3>3. A[i] = Contents[i - 1]
      BY <1>3, <1>5, <2>2, <3>1
    <3> QED BY <1>3, <3>1, <3>2, <3>3, Zenon
  <2> QED BY <2>1, <2>2, Zenon
<1>7. Len(Contents') = Len(A)
  BY <1>2, <1>3, <1>5
<1>8. Contents' = A
  BY <1>3, <1>5, <1>6, <1>7, SeqEqual, Zenon
<1> QED BY <1>2, <1>8, Zenon DEF A

(* Removing k items is the deque's removal of its first k items.              *)
LEMMA TakeDeque ==
  ASSUME IInv, [Next]_vars, NEW k \in 1..len, len' = len - k,
         out' = [i \in 1..k |-> items[Slot(i)]],
         \A i \in 1..len-k : items'[Slot(i)'] = items[Slot(i + k)]
  PROVE  /\ Contents' = SubSeq(Contents, k + 1, Len(Contents))
         /\ out' = SubSeq(Contents, 1, k)
<1>1. /\ len \in Nat /\ Contents \in Seq(Items) /\ Len(Contents) = len
      /\ \A i \in 1..len : Contents[i] = items[Slot(i)]
      /\ len' \in Nat /\ Contents' \in Seq(Items) /\ Len(Contents') = len'
      /\ \A i \in 1..len' : Contents'[i] = items'[Slot(i)']
  BY ContentsSeq, Zenon
<1>2. \A i \in 1..len : Contents[i] \in Items
  BY <1>1, ElementOfSeq, Zenon
<1>3. Contents' = SubSeq(Contents, k + 1, len)
  <2> DEFINE A == SubSeq(Contents, k + 1, len)
  <2>1. /\ A \in Seq(Items)
        /\ Len(A) = IF k + 1 <= len THEN len - (k + 1) + 1 ELSE 0
        /\ \A i \in 1..len-(k+1)+1 : A[i] = Contents[(k + 1) + i - 1]
    <3>1. k + 1 \in Int /\ len \in Int /\ \A i \in k+1..len : Contents[i] \in Items
      BY <1>1, <1>2
    <3> QED BY <3>1, SubSeqProperties
  <2> HIDE DEF A
  <2>2. Len(A) = len'
    BY <1>1, <2>1
  <2>3. ASSUME NEW i \in 1..len' PROVE Contents'[i] = A[i]
    <3>1. i \in 1..len-k /\ i \in 1..len-(k+1)+1 /\ (k + 1) + i - 1 = i + k /\ i + k \in 1..len
      BY <1>1
    <3>2. A[i] = Contents[i + k]
      BY <2>1, <3>1, Zenon
    <3>3. Contents'[i] = items[Slot(i + k)]
      BY <1>1, <3>1, Zenon
    <3> QED BY <1>1, <3>1, <3>2, <3>3, Zenon
  <2>4. Contents' = A
    BY <1>1, <2>1, <2>2, <2>3, SeqEqual, Zenon
  <2> QED BY <2>4, Zenon DEF A
<1>4. out' = SubSeq(Contents, 1, k)
  <2> DEFINE B == SubSeq(Contents, 1, k)
  <2>1. /\ B \in Seq(Items) /\ Len(B) = IF 1 <= k THEN k - 1 + 1 ELSE 0
        /\ \A i \in 1..k-1+1 : B[i] = Contents[1 + i - 1]
    <3>1. k \in Int /\ \A i \in 1..k : Contents[i] \in Items
      BY <1>1, <1>2
    <3> QED BY <3>1, SubSeqProperties
  <2> HIDE DEF B
  <2>2. \A i \in 1..k : items[Slot(i)] \in Items /\ B[i] = items[Slot(i)]
    <3> TAKE i \in 1..k
    <3>1. i \in 1..len /\ i \in 1..k-1+1 /\ 1 + i - 1 = i
      BY <1>1
    <3> QED BY <1>1, <1>2, <2>1, <3>1, Zenon
  <2>3. out' \in Seq(Items) /\ Len(out') = k /\ \A i \in 1..k : out'[i] = B[i]
    <3>1. k \in Nat
      BY <1>1
    <3>2. out' \in Seq(Items) /\ Len(out') = k
      BY <3>1, <2>2
    <3>3. \A i \in 1..k : out'[i] = items[Slot(i)]
      BY Zenon
    <3> QED BY <2>2, <3>2, <3>3, Zenon
  <2>4. Len(B) = k
    BY <1>1, <2>1
  <2>5. out' = B
    BY <2>1, <2>3, <2>4, SeqEqual, Zenon
  <2> QED BY <2>5, Zenon DEF B
<1> QED BY <1>1, <1>3, <1>4, Zenon

(* With nothing to remove, the deque's removal returns and changes nothing.   *)
LEMMA TakeNothing ==
  ASSUME IInv, len = 0, UNCHANGED <<items, head, mod, len>>, out' = <<>>, NEW n \in 1..MaxN
  PROVE  D!Take(n)
<1>1. Contents = <<>> /\ Contents' = <<>> /\ Len(<<>>) = 0
  BY DEF Contents
<1>2. SubSeq(<<>>, 1, 0) = <<>> /\ SubSeq(<<>>, 0 + 1, 0) = <<>>
  BY SubSeqEmpty
<1>3. ~(n < 0)
  BY MaxAssumption
<1> QED BY <1>1, <1>2, <1>3, Zenon DEF D!Take, Contents

(* A ring buffer of any initial size behaves, through every wrap-around,      *)
(* growth and Clear, as an unbounded double-ended queue: nothing is lost,     *)
(* duplicated or reordered by Push, PushFront, Pop, PopN and Clear.           *)
THEOREM Refinement == Spec => ImplementsDeque
<1>1. Init => D!Init
  BY DEF Init, D!Init
<1>2. IInv /\ [Next]_vars => [D!Next]_(D!vars)
  <2> SUFFICES ASSUME IInv, [Next]_vars PROVE [D!Next]_(D!vars)
    BY Zenon
  <2>0. /\ len \in Nat /\ Len(Contents) = len
    BY ContentsSeq, Zenon
  <2>1. ASSUME NEW item \in Items, Push(item) PROVE D!Next
    BY <2>1, PushDeque, Zenon DEF D!Next, D!PushBack, Contents
  <2>2. ASSUME NEW item \in Items, PushFront(item) PROVE D!Next
    BY <2>2, PushFrontDeque, Zenon DEF D!Next, D!PushFront, Contents
  <2>3. ASSUME NEW n \in 1..MaxN, PopN(n) PROVE D!Take(n)
    <3>1. CASE len = 0
      BY <2>3, <3>1, TakeNothing DEF PopN
    <3>2. CASE len > 0
      <4> DEFINE k == IF n >= len THEN len ELSE n
      <4>1. /\ k \in 1..len /\ len' = len - k
            /\ out' = [i \in 1..k |-> items[Slot(i)]]
            /\ \A i \in 1..len-k : items'[Slot(i)'] = items[Slot(i + k)]
        BY <2>3, <3>2, PopNStep, Zenon
      <4>2. k = IF n < Len(Contents) THEN n ELSE Len(Contents)
        BY <2>0, MaxAssumption
      <4> HIDE DEF k
      <4>3. /\ Contents' = SubSeq(Contents, k + 1, Len(Contents))
            /\ out' = SubSeq(Contents, 1, k)
        BY <4>1, TakeDeque, Zenon
      <4> QED BY <4>2, <4>3, Zenon DEF D!Take, Contents
    <3> QED BY <2>0, <3>1, <3>2
  <2>4. ASSUME Pop PROVE D!Take(1)
    <3>0. 1 \in 1..MaxN
      BY MaxAssumption
    <3>1. CASE len = 0
      BY <2>4, <3>0, <3>1, TakeNothing DEF Pop
    <3>2. CASE len > 0
      <4>1. /\ 1 \in 1..len /\ len' = len - 1
            /\ out' = [i \in 1..1 |-> items[Slot(i)]]
            /\ \A i \in 1..len-1 : items'[Slot(i)'] = items[Slot(i + 1)]
        <5>1. <<items[Slot(1)]>> = [i \in 1..1 |-> items[Slot(i)]]
          OBVIOUS
        <5> QED BY <2>0, <2>4, <3>2, <5>1, PopStep
      <4>2. 1 = IF 1 < Len(Contents) THEN 1 ELSE Len(Contents)
        BY <2>0, <4>1
      <4>3. /\ Contents' = SubSeq(Contents, 1 + 1, Len(Contents))
            /\ out' = SubSeq(Contents, 1, 1)
        BY <4>1, TakeDeque, Zenon
      <4> QED BY <4>2, <4>3, Zenon DEF D!Take, Contents
    <3> QED BY <2>0, <3>1, <3>2
  <2>5. ASSUME Clear PROVE D!Clear
    BY <2>5, ClearStep DEF D!Clear
  <2>6. ASSUME UNCHANGED vars PROVE UNCHANGED D!vars
    BY <2>6, Zenon DEF vars, D!vars, Slot
  <2>7. 1 \in 1..MaxN
    BY MaxAssumption
  <2> QED BY <2>1, <2>2, <2>3, <2>4, <2>5, <2>6, <2>7, Zenon DEF Next, D!Next
<1>3. Spec => []IInv
  BY InitIInv, NextIInv, PTL DEF Spec
<1> QED BY <1>1, <1>2, <1>3, PTL DEF Spec, ImplementsDeque, D!Spec
=============================================================================
