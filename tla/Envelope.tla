------------------------------ MODULE Envelope ------------------------------
(***************************************************************************)
(* The wire format of remote/: streamWriter.Invoke packs a batch into an    *)
(* envelope with a table of type names, one of senders and one of targets,  *)
(* and streamReader.Receive unpacks it.  Tables are indexed from 0.         *)
(***************************************************************************)
EXTENDS Integers, Sequences, FiniteSetsExt, Functions

CONSTANTS Msgs,
          Type, Sender, Target,  \* of each message
          NoPID,                 \* a nil *PID
          Unmarshalable          \* messages that Serialize fails on

ASSUME EnvelopeAssumption ==
  /\ DOMAIN Type = Msgs /\ DOMAIN Sender = Msgs /\ DOMAIN Target = Msgs
  /\ \A m \in Msgs : Target[m] # NoPID /\ Type[m] # NoPID
  /\ Unmarshalable \subseteq Msgs

\* The place of the first x in a sequence.
Place(s, x) == Min({i \in DOMAIN s : s[i] = x})

\* lookupPIDs and lookupTypeName: a key that is new is appended to the table.
AddKey(table, key) ==
  IF key = NoPID \/ key \in Range(table) THEN table ELSE Append(table, key)

\* The table after the messages of a batch, in order; f is their key.
Table(f, msgs) ==
  LET table[n \in 0..Len(msgs)] ==
        IF n = 0 THEN <<>> ELSE AddKey(table[n - 1], f[msgs[n]])
  IN table[Len(msgs)]

\* Mutant of IndexOf: the length of the table for every key, new or not.
IndexLast(table, key) == IF key = NoPID THEN 0 ELSE Len(table) - 1

\* The index they return; 0 for a nil PID.
IndexOf(table, key) ==
  IF key = NoPID THEN 0 ELSE Place(table, key) - 1

\* What the zero Message on the wire carries.
Empty == [data |-> "empty", type |-> 0, sender |-> 0, target |-> 0]

\* Invoke: a message that cannot be serialised leaves a nil *Message, but its
\* type, sender and target are in the tables.
Encode(msgs) ==
  LET types == Table(Type, msgs)
      senders == Table(Sender, msgs)
      targets == Table(Target, msgs)
  IN [types |-> types, senders |-> senders, targets |-> targets,
      messages |-> [i \in DOMAIN msgs |->
        IF msgs[i] \in Unmarshalable THEN Empty
        ELSE [data |-> msgs[i],
              type |-> IndexOf(types, Type[msgs[i]]),
              sender |-> IndexOf(senders, Sender[msgs[i]]),
              target |-> IndexOf(targets, Target[msgs[i]])]]]

\* Receive: the calls of SendLocal and SendPriorityLocal for an envelope.
Decode(env) ==
  [i \in DOMAIN env.messages |->
     LET msg == env.messages[i] IN
     [data |-> msg.data,
      type |-> env.types[msg.type + 1],
      target |-> env.targets[msg.target + 1],
      sender |-> IF env.senders # <<>> THEN env.senders[msg.sender + 1] ELSE NoPID]]
=============================================================================
