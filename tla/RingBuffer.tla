---------------------------- MODULE RingBuffer ----------------------------
(***************************************************************************)
(* ringbuffer/ringbuffer.go: a growable circular buffer.  The slot at head  *)
(* is always empty; the live items are at head+1 .. head+len (mod mod).     *)
(* Every operation holds rb.mu from its first to its last access, so each   *)
(* one is a single step.  Len() reads rb.len without the lock: rb.len is    *)
(* written once per operation, so a reader sees the value before or after   *)
(* the step.                                                                *)
(***************************************************************************)
EXTENDS Integers, Sequences

CONSTANTS Items,     \* the values that can be stored
          Zero,      \* the zero value of the element type
          Size,      \* the argument of New
          MaxLen,    \* bound on the number of items stored at once
          MaxN       \* largest argument PopN is called with

ASSUME SizeAssumption == Size \in Nat \ {0}
ASSUME MaxAssumption == MaxLen \in Nat /\ MaxN \in Nat \ {0}
ASSUME ZeroAssumption == Zero \notin Items

VARIABLES items, head, tail, mod,   \* rb.content
          len,                      \* rb.len
          out                       \* what the last call returned

vars == <<items, head, tail, mod, len, out>>

Init ==
  /\ items = [i \in 0..Size-1 |-> Zero]
  /\ head = 0 /\ tail = 0 /\ mod = Size
  /\ len = 0
  /\ out = <<>>

Slot(i) == (head + i) % mod

\* Mutant of Push: growing copies the array as it lies, not from the head.
PushCopiesFromZero(item) ==
  LET t == (tail + 1) % mod IN
  /\ len < MaxLen
  /\ IF t # head
     THEN items' = [items EXCEPT ![t] = item] /\ tail' = t /\ UNCHANGED <<head, mod>>
     ELSE /\ items' = [i \in 0..2*mod-1 |->
                         IF i < mod THEN items[i] ELSE IF i = mod THEN item ELSE Zero]
          /\ head' = 0 /\ tail' = mod /\ mod' = 2 * mod
  /\ len' = len + 1 /\ out' = <<>>

\* The tail advances; when it meets the head the buffer is full, and its mod
\* slots, starting with the empty one, are copied to the front of a new array.
Push(item) ==
  LET t == (tail + 1) % mod IN
  /\ len < MaxLen
  /\ \/ /\ t # head
        /\ items' = [items EXCEPT ![t] = item]
        /\ tail' = t
        /\ UNCHANGED <<head, mod>>
     \/ /\ t = head
        /\ items' = [i \in 0..2*mod-1 |->
                       IF i < mod THEN items[(t + i) % mod]
                       ELSE IF i = mod THEN item ELSE Zero]
        /\ head' = 0 /\ tail' = mod /\ mod' = 2 * mod
  /\ len' = len + 1
  /\ out' = <<>>

\* The item goes to the empty slot at the head, which then moves back.  A full
\* buffer is first copied to slots 1 .. len of a new array with its head at 0.
PushFront(item) ==
  /\ len < MaxLen
  /\ \/ /\ len < mod - 1
        /\ items' = [items EXCEPT ![head] = item]
        /\ head' = (head - 1 + mod) % mod
        /\ UNCHANGED <<tail, mod>>
     \/ /\ len >= mod - 1
        /\ items' = [i \in 0..2*mod-1 |->
                       IF i = 0 THEN item
                       ELSE IF i <= len THEN items[Slot(i)] ELSE Zero]
        /\ head' = 2 * mod - 1 /\ tail' = len /\ mod' = 2 * mod
  /\ len' = len + 1
  /\ out' = <<>>

\* Pop takes one item; with nothing to take it returns the zero value, false.
Pop ==
  /\ \/ /\ len = 0
        /\ out' = <<>>
        /\ UNCHANGED <<items, head, len>>
     \/ /\ len > 0
        /\ head' = (head + 1) % mod
        /\ out' = <<items[head']>>
        /\ items' = [items EXCEPT ![head'] = Zero]
        /\ len' = len - 1
  /\ UNCHANGED <<tail, mod>>

PopN(n) ==
  LET k == IF n >= len THEN len ELSE n IN
  /\ \/ /\ len = 0
        /\ out' = <<>>
        /\ UNCHANGED <<items, head, len>>
     \/ /\ len > 0
        /\ out' = [i \in 1..k |-> items[Slot(i)]]
        /\ items' = [p \in DOMAIN items |->
                       IF \E i \in 1..k : p = Slot(i) THEN Zero ELSE items[p]]
        /\ head' = (head + k) % mod
        /\ len' = len - k
  /\ UNCHANGED <<tail, mod>>

\* The slots keep what they held.
Clear ==
  /\ head' = 0 /\ tail' = 0
  /\ len' = 0
  /\ out' = <<>>
  /\ UNCHANGED <<items, mod>>

Next ==
  \/ \E item \in Items : Push(item) \/ PushFront(item)
  \/ Pop
  \/ \E n \in 1..MaxN : PopN(n)
  \/ Clear

Spec == Init /\ [][Next]_vars

-----------------------------------------------------------------------------
TypeOK ==
  /\ mod \in Nat \ {0}
  /\ items \in [0..mod-1 -> Items \cup {Zero}]
  /\ head \in 0..mod-1
  /\ tail \in 0..mod-1
  /\ len \in 0..MaxLen
  /\ out \in Seq(Items \cup {Zero})

(* The index arithmetic agrees with the item count: the tail is exactly len  *)
(* slots after the head, one slot stays empty, so "tail meets head" (Push)    *)
(* and "len >= mod-1" (PushFront) detect the same full buffer.                *)
Window ==
  /\ len < mod
  /\ tail = Slot(len)

(* No operation hands out the zero value of a slot that was never written or  *)
(* already popped: the live slots hold items.                                 *)
LiveSlots == \A i \in 1..len : items[Slot(i)] \in Items

(* The buffer is a double-ended queue: its items, read from the slot after    *)
(* the head, follow Deque, whatever grows, wraps and clears happen between.   *)
D == INSTANCE Deque WITH queue <- [i \in 1..len |-> items[Slot(i)]]

ImplementsDeque == D!Spec
=============================================================================
