------------------------------- MODULE Deque -------------------------------
(***************************************************************************)
(* What ringbuffer.RingBuffer promises to its only client, the inbox: an   *)
(* unbounded double-ended queue.  `out` is what the last operation          *)
(* returned, as a sequence (empty for operations that return nothing and   *)
(* for the "not ok" result of Pop and PopN).                                *)
(***************************************************************************)
EXTENDS Integers, Sequences

CONSTANTS Items,   \* the values that can be stored
          MaxN     \* largest argument PopN is called with

VARIABLES queue, out

vars == <<queue, out>>

Init == queue = <<>> /\ out = <<>>

PushBack(item) == queue' = Append(queue, item) /\ out' = <<>>

PushFront(item) == queue' = <<item>> \o queue /\ out' = <<>>

\* Removes and returns the first n items, or all of them when there are fewer.
Take(n) ==
  LET k == IF n < Len(queue) THEN n ELSE Len(queue) IN
  /\ out' = SubSeq(queue, 1, k)
  /\ queue' = SubSeq(queue, k + 1, Len(queue))

Clear == queue' = <<>> /\ out' = <<>>

Next ==
  \/ \E item \in Items : PushBack(item) \/ PushFront(item)
  \/ \E n \in 1..MaxN : Take(n)
  \/ Clear

Spec == Init /\ [][Next]_vars
=============================================================================
