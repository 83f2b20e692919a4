------------------------------ MODULE Mailbox ------------------------------
(***************************************************************************)
(* What actor.Inbox promises to the process that owns it and to senders:    *)
(* a consumer takes a batch from the front of a queue and is handed its     *)
(* messages one by one, in order, before it takes another.  Each opening    *)
(* admits one consumer more; a mailbox that is opened once has one.         *)
(* Nothing is taken before the mailbox is opened, or between its closing    *)
(* and the next opening; a batch in hand is finished.                       *)
(***************************************************************************)
EXTENDS Integers, Sequences, FiniteSets

CONSTANTS Msgs, BatchSize, Consumers

VARIABLES queue,      \* messages waiting
          hands,      \* messages each consumer has taken and not yet been handed
          delivered,  \* messages handed to a consumer, in order
          state,      \* "new", "open" or "closed"
          opened      \* how often the mailbox was opened

vars == <<queue, hands, delivered, state, opened>>

Init ==
  /\ queue = <<>> /\ delivered = <<>>
  /\ hands = [c \in Consumers |-> <<>>]
  /\ state = "new" /\ opened = 0

Put(m) == queue' = Append(queue, m) /\ UNCHANGED <<hands, delivered, state, opened>>

PutFront(m) == queue' = <<m>> \o queue /\ UNCHANGED <<hands, delivered, state, opened>>

Open ==
  /\ state' = "open" /\ opened' = opened + 1
  /\ UNCHANGED <<queue, hands, delivered>>

\* The consumers that still have messages in hand.
Busy == {c \in Consumers : hands[c] # <<>>}

Take(c) ==
  LET k == IF BatchSize < Len(queue) THEN BatchSize ELSE Len(queue) IN
  /\ state = "open"
  /\ hands[c] = <<>> /\ queue # <<>> /\ Cardinality(Busy) < opened
  /\ hands' = [hands EXCEPT ![c] = SubSeq(queue, 1, k)]
  /\ queue' = SubSeq(queue, k + 1, Len(queue))
  /\ state' \in {"open", "closed"}
  /\ UNCHANGED <<delivered, opened>>

Deliver(c) ==
  /\ hands[c] # <<>>
  /\ delivered' = Append(delivered, Head(hands[c]))
  /\ hands' = [hands EXCEPT ![c] = Tail(@)]
  /\ UNCHANGED <<queue, state, opened>>

Clear == queue' = <<>> /\ UNCHANGED <<hands, delivered, state, opened>>

Close ==
  /\ state = "open"
  /\ state' = "closed"
  /\ UNCHANGED <<queue, hands, delivered, opened>>

Next ==
  \/ \E m \in Msgs : Put(m) \/ PutFront(m)
  \/ \E c \in Consumers : Take(c) \/ Deliver(c)
  \/ Open \/ Clear \/ Close

Spec == Init /\ [][Next]_vars
=============================================================================
