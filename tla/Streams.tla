------------------------------ MODULE Streams ------------------------------
(***************************************************************************)
(* remote/: how the messages of one engine travel to one remote address.    *)
(* Remote.Send hands them to the stream router, an actor, which keeps a     *)
(* stream writer for the address and spawns one when its map has no entry.  *)
(* A writer dials while it is started, on the router's goroutine, writes    *)
(* batches from its inbox, and is shut down by the goroutine that waits for *)
(* its connection to close.  All writers of the address have the same PID.  *)
(*                                                                          *)
(* The inboxes are the mailboxes of Mailbox.tla.  The network is external:  *)
(* a dial may fail, a connection may break at any time, and what was        *)
(* written to it before may still arrive.                                   *)
(***************************************************************************)
EXTENDS Envelope, FiniteSets

CONSTANTS Foreign,    \* messages that are no proto.Message
          MaxFaults   \* bound on what goes wrong: dials, writes, reads, connections

ASSUME FaultAssumption == MaxFaults \in Nat
ASSUME ForeignAssumption == Foreign \subseteq Msgs

VARIABLES router,     \* the router's inbox and where its goroutine is
          entry,      \* whether router.streams has an entry for the address
          reg,        \* the writer registered under the PID, 0 for none
          writers,    \* the writers created, in order
          unsent,     \* messages that Remote.Send has not been called with
          routed,     \* history: those it has, in order
          received,   \* history: what the remote engine was handed, by which reader
          dead,       \* messages published in a DeadLetterEvent
          lost,       \* history: messages whose write failed or came to nothing
          crashed,    \* whether a writer has panicked, and the program with it
          faults

vars == <<router, entry, reg, writers, unsent, routed, received, dead, lost,
          crashed, faults>>

Unreachable == "RemoteUnreachableEvent"

\* conn is none until init() has connected; wire holds the envelopes that are
\* written and not read; shut is where the Shutdown of the writer is.
NewWriter == [inbox |-> "stopped", queue |-> <<>>, conn |-> "none",
              wire |-> <<>>, shut |-> "none"]

Init ==
  /\ router = [inbox |-> <<>>, pc |-> "idle", msg |-> Unreachable, found |-> 0]
  /\ entry = FALSE /\ reg = 0 /\ writers = <<>>
  /\ unsent = Msgs /\ routed = <<>> /\ received = <<>> /\ dead = {}
  /\ lost = {} /\ crashed = FALSE /\ faults = 0

Newest == Len(writers)

-----------------------------------------------------------------------------
(* Remote.Send and SendPriority *)

Send(m) ==
  /\ m \in unsent /\ unsent' = unsent \ {m}
  /\ router' = [router EXCEPT !.inbox = Append(@, m)]
  /\ routed' = Append(routed, m)
  /\ UNCHANGED <<entry, reg, writers, received, dead, lost, crashed, faults>>

(* streamRouter *)

\* handleTerminateStream, or the look at the map in deliverStream.
RouterReceive ==
  LET msg == Head(router.inbox) IN
  /\ router.pc = "idle" /\ router.inbox # <<>>
  /\ \/ /\ msg = Unreachable
        /\ router' = [router EXCEPT !.inbox = Tail(@)]
        /\ entry' = FALSE
     \/ /\ msg # Unreachable
        /\ router' = [router EXCEPT !.inbox = Tail(@), !.msg = msg,
                                    !.pc = IF entry THEN "lookup" ELSE "spawn"]
        /\ UNCHANGED entry
  /\ UNCHANGED <<reg, writers, unsent, routed, received, dead, lost, crashed, faults>>

\* Mutant of RouterSpawn: the registry replaces a process with the same id.
RouterSpawnReplaces ==
  /\ router.pc = "spawn" /\ router' = [router EXCEPT !.pc = "dial"]
  /\ writers' = Append(writers, [NewWriter EXCEPT !.inbox = "open"])
  /\ reg' = Newest + 1
  /\ UNCHANGED <<entry, unsent, routed, received, dead, lost, crashed, faults>>

\* SpawnProc: Registry.add refuses a writer while another has the PID, and
\* starts any other: inbox.Start and then init().
RouterSpawn ==
  /\ router.pc = "spawn"
  /\ \/ /\ reg = 0 /\ reg' = Newest + 1
        /\ writers' = Append(writers, [NewWriter EXCEPT !.inbox = "open"])
        /\ router' = [router EXCEPT !.pc = "dial"]
     \/ /\ reg # 0 /\ reg' = reg
        /\ writers' = Append(writers, NewWriter)
        /\ router' = [router EXCEPT !.pc = "record"]
  /\ UNCHANGED <<entry, unsent, routed, received, dead, lost, crashed, faults>>

\* init(): it connects and is watched; or the retries or client.Receive fail
\* and it is shut down before init returns; or SetDeadline fails, and it stays
\* registered without a stream.
RouterDial ==
  /\ router.pc = "dial"
  /\ \/ /\ writers' = [writers EXCEPT ![Newest].conn = "up"]
        /\ router' = [router EXCEPT !.pc = "record"]
        /\ UNCHANGED faults
     \/ /\ faults < MaxFaults /\ faults' = faults + 1
        /\ writers' = [writers EXCEPT ![Newest].shut = "notify"]
        /\ router' = [router EXCEPT !.pc = "shutdown"]
     \/ /\ faults < MaxFaults /\ faults' = faults + 1
        /\ writers' = [writers EXCEPT ![Newest].conn = "no deadline"]
        /\ router' = [router EXCEPT !.pc = "record"]
  /\ UNCHANGED <<entry, reg, unsent, routed, received, dead, lost, crashed>>

RouterShutdown ==
  /\ router.pc = "shutdown" /\ writers[Newest].shut = "done"
  /\ router' = [router EXCEPT !.pc = "record"]
  /\ UNCHANGED <<entry, reg, writers, unsent, routed, received, dead,
                 lost, crashed, faults>>

RouterRecord ==
  /\ router.pc = "record" /\ router' = [router EXCEPT !.pc = "lookup"]
  /\ entry' = TRUE
  /\ UNCHANGED <<reg, writers, unsent, routed, received, dead, lost, crashed, faults>>

\* Mutant of RouterLookup: a message to a writer that is gone is dropped.
RouterLookupSilent ==
  /\ router.pc = "lookup"
  /\ router' = [router EXCEPT !.pc = IF reg = 0 THEN "idle" ELSE "push", !.found = reg]
  /\ UNCHANGED <<entry, reg, writers, unsent, routed, received, dead,
                 lost, crashed, faults>>

\* engine.Send(swpid, msg), with its look at the registry.
RouterLookup ==
  /\ router.pc = "lookup"
  /\ \/ /\ reg # 0
        /\ router' = [router EXCEPT !.pc = "push", !.found = reg]
        /\ UNCHANGED dead
     \/ /\ reg = 0
        /\ router' = [router EXCEPT !.pc = "idle"]
        /\ dead' = dead \cup {router.msg}
  /\ UNCHANGED <<entry, reg, writers, unsent, routed, received, lost, crashed, faults>>

\* Mutant of RouterPush: to the front of the inbox.
RouterPushFront ==
  /\ router.pc = "push" /\ router' = [router EXCEPT !.pc = "idle"]
  /\ writers' = [writers EXCEPT ![router.found].queue = <<router.msg>> \o @]
  /\ UNCHANGED <<entry, reg, unsent, routed, received, dead, lost, crashed, faults>>

RouterPush ==
  /\ router.pc = "push" /\ router' = [router EXCEPT !.pc = "idle"]
  /\ writers' = [writers EXCEPT ![router.found].queue = Append(@, router.msg)]
  /\ UNCHANGED <<entry, reg, unsent, routed, received, dead, lost, crashed, faults>>

-----------------------------------------------------------------------------
(* streamWriter *)

\* Invoke packs the batch, for which every message has to be a proto.Message:
\* TypeName asserts it.
Packs(batch) == Range(batch) \cap Foreign = {}

\* The batch is written, or the write fails; io.EOF closes the connection, and a
\* closed connection fails every write.  A stream that the reader has ended
\* takes writes until that is known here, which is when io.EOF is returned.
\* Neither a failed assertion nor a nil stream is recovered from.
WriterInvoke(i) ==
  LET batch == writers[i].queue IN
  /\ writers[i].inbox = "open" /\ batch # <<>>
  /\ \/ /\ writers[i].conn = "up" /\ Packs(batch)
        /\ writers' = [writers EXCEPT ![i].queue = <<>>,
                                      ![i].wire = Append(@, Encode(batch))]
        /\ UNCHANGED <<lost, crashed, faults>>
     \/ /\ writers[i].conn = "up" /\ Packs(batch) /\ faults < MaxFaults /\ faults' = faults + 1
        /\ \E c \in {"up", "closed"} :
             writers' = [writers EXCEPT ![i].queue = <<>>, ![i].conn = c]
        /\ lost' = lost \cup Range(batch)
        /\ UNCHANGED crashed
     \/ /\ writers[i].conn \in {"ended", "closed"} /\ Packs(batch)
        /\ \E c \in {writers[i].conn, "closed"} :
             writers' = [writers EXCEPT ![i].queue = <<>>, ![i].conn = c]
        /\ lost' = lost \cup Range(batch)
        /\ UNCHANGED <<crashed, faults>>
     \/ /\ writers[i].conn \in {"none", "no deadline"} \/ ~Packs(batch)
        /\ crashed' = TRUE
        /\ UNCHANGED <<writers, lost, faults>>
  /\ UNCHANGED <<router, entry, reg, unsent, routed, received, dead>>

\* The network, or the idle deadline, ends a connection, with or without what
\* is in transit.
ConnLost(i) ==
  /\ writers[i].conn \in {"up", "ended"} /\ faults < MaxFaults /\ faults' = faults + 1
  /\ \E w \in {writers[i].wire, <<>>} :
       writers' = [writers EXCEPT ![i].conn = "closed", ![i].wire = w]
  /\ UNCHANGED <<router, entry, reg, unsent, routed, received, dead, lost, crashed>>

\* What is left of a connection whose stream is over.
Ended(conn) == IF conn = "up" THEN "ended" ELSE conn

\* streamReader.Receive: an envelope is delivered; or a message of it cannot be
\* deserialised, which ends the stream: the connection stays, and nothing more
\* is read from it.
ReaderReceive(i) ==
  LET msgs == Decode(Head(writers[i].wire))
      via == [k \in DOMAIN msgs |-> [msg |-> msgs[k], by |-> i]]
  IN
  /\ writers[i].wire # <<>>
  /\ \/ /\ received' = received \o via
        /\ writers' = [writers EXCEPT ![i].wire = Tail(@)]
        /\ UNCHANGED faults
     \/ /\ faults < MaxFaults /\ faults' = faults + 1
        /\ \E k \in DOMAIN msgs : received' = received \o SubSeq(via, 1, k - 1)
        /\ writers' = [writers EXCEPT ![i].wire = <<>>, ![i].conn = Ended(writers[i].conn)]
  /\ UNCHANGED <<router, entry, reg, unsent, routed, dead, lost, crashed>>

\* The goroutine that waits for conn.Closed().
WatchClosed(i) ==
  /\ writers[i].conn = "closed" /\ writers[i].shut = "none"
  /\ writers' = [writers EXCEPT ![i].shut = "notify"]
  /\ UNCHANGED <<router, entry, reg, unsent, routed, received, dead,
                 lost, crashed, faults>>

\* Mutant of ShutdownNotify: only the event stream is told.
ShutdownNoNotify(i) ==
  /\ writers[i].shut = "notify"
  /\ writers' = [writers EXCEPT ![i].shut = "stop"]
  /\ UNCHANGED <<router, entry, reg, unsent, routed, received, dead,
                 lost, crashed, faults>>

\* Shutdown tells the router (and the event stream) and closes the stream ...
ShutdownNotify(i) ==
  /\ writers[i].shut = "notify"
  /\ router' = [router EXCEPT !.inbox = Append(@, Unreachable)]
  /\ writers' = [writers EXCEPT ![i].shut = "stop"]
  /\ UNCHANGED <<entry, reg, unsent, routed, received, dead, lost, crashed, faults>>

\* ... stops the inbox ...
ShutdownStop(i) ==
  /\ writers[i].shut = "stop"
  /\ writers' = [writers EXCEPT ![i].inbox = "stopped", ![i].shut = "remove"]
  /\ UNCHANGED <<router, entry, reg, unsent, routed, received, dead,
                 lost, crashed, faults>>

\* ... and removes whatever has its PID from the registry.
ShutdownRemove(i) ==
  /\ writers[i].shut = "remove"
  /\ writers' = [writers EXCEPT ![i].shut = "done"]
  /\ reg' = 0
  /\ UNCHANGED <<router, entry, unsent, routed, received, dead, lost, crashed, faults>>

-----------------------------------------------------------------------------
Router ==
  \/ RouterReceive \/ RouterSpawn \/ RouterDial \/ RouterShutdown
  \/ RouterRecord \/ RouterLookup \/ RouterPush

Shutdown(i) ==
  WatchClosed(i) \/ ShutdownNotify(i) \/ ShutdownStop(i) \/ ShutdownRemove(i)

\* A message causes at most one writer to be created.
WriterIds == 1..Cardinality(Msgs)

Next ==
  /\ ~crashed
  /\ \/ \E m \in Msgs : Send(m)
     \/ Router
     \/ \E i \in DOMAIN writers :
          WriterInvoke(i) \/ ReaderReceive(i) \/ ConnLost(i) \/ Shutdown(i)

Spec == Init /\ [][Next]_vars

OfWriter(i, A) == ~crashed /\ i <= Newest /\ A

\* Every goroutine that can proceed does; nobody is obliged to send, and no
\* fault has to happen.
FairSpec ==
  /\ Spec
  /\ WF_vars(~crashed /\ Router)
  /\ \A i \in WriterIds :
       /\ WF_vars(OfWriter(i, WriterInvoke(i)))
       /\ WF_vars(OfWriter(i, ReaderReceive(i)))
       /\ WF_vars(OfWriter(i, Shutdown(i)))

-----------------------------------------------------------------------------
(* Properties *)

\* The state of the router, of the registry and of the writers of an address.
TypeOK ==
  /\ router \in [inbox : Seq(Msgs \cup {Unreachable}), msg : Msgs \cup {Unreachable},
                 pc : {"idle", "spawn", "dial", "shutdown", "record", "lookup", "push"},
                 found : 0..Newest]
  /\ entry \in BOOLEAN /\ crashed \in BOOLEAN
  /\ reg \in 0..Newest /\ Newest <= Cardinality(Msgs)
  /\ \A i \in DOMAIN writers :
       /\ writers[i].inbox \in {"open", "stopped"}
       /\ writers[i].queue \in Seq(Msgs)
       /\ writers[i].conn \in {"none", "up", "ended", "closed", "no deadline"}
       /\ writers[i].shut \in {"none", "notify", "stop", "remove", "done"}
  /\ unsent \subseteq Msgs /\ routed \in Seq(Msgs) /\ dead \subseteq Msgs
  /\ lost \subseteq Msgs /\ faults \in 0..MaxFaults

Arrived(k) == received[k].msg.data

\* No message is handed over twice, through all reconnections, and what one
\* connection carries arrives in the order of the calls of Remote.Send.
InOrderOnce ==
  \A j, k \in DOMAIN received :
    (j < k /\ Arrived(j) # Empty.data /\ Arrived(k) # Empty.data) =>
      /\ Arrived(j) # Arrived(k)
      /\ received[j].by = received[k].by =>
           Place(routed, Arrived(j)) < Place(routed, Arrived(k))

\* The tables of an envelope give every message back its own type, target and
\* (when it has one) sender, whatever it shares the batch with.
Attribution ==
  \A k \in DOMAIN received :
    LET r == received[k].msg IN
    r.data # Empty.data =>
      /\ r.type = Type[r.data] /\ r.target = Target[r.data]
      /\ Sender[r.data] # NoPID => r.sender = Sender[r.data]

\* A message sent without a sender arrives without one: the sender is optional.
SenderOptional ==
  \A k \in DOMAIN received :
    LET r == received[k].msg IN
    r.data # Empty.data => r.sender = Sender[r.data]

\* Shutdown removes by PID, which all writers of the address share: the entry
\* it takes from the registry is never that of a successor.
RemovesItself ==
  [][\A i \in DOMAIN writers :
       writers[i].shut = "remove" /\ writers'[i].shut = "done" => reg = i]_vars

Delivered(m) == \E k \in DOMAIN received : Arrived(k) = m

Broken == \E i \in DOMAIN writers : writers[i].conn \in {"ended", "closed", "no deadline"}

\* A writer has met a message that is no proto.Message, and the program is gone.
Asserted == crashed /\ \E i \in DOMAIN writers : ~Packs(writers[i].queue)

\* A message accepted by Remote.Send is received or published as a dead letter,
\* also when the remote cannot be dialled, unless a connection or a stream was
\* broken, a write failed, the message cannot be serialised, or another one was
\* no proto.Message.  In particular no writer panics on a stream that init()
\* has not set yet, although its inbox is started first: nobody can send to it
\* before init() returns.
Accounted ==
  \A m \in Msgs \ Unmarshalable :
    (m \in Range(routed)) ~> (Delivered(m) \/ m \in dead \/ m \in lost \/ Broken \/ Asserted)

\* A respawn was refused because the predecessor still had the PID.
Refused == \E i \in DOMAIN writers :
             writers[i].inbox = "stopped" /\ writers[i].shut = "none"

\* An entry of streams whose writer is gone is dropped, so that the next
\* message dials again.
EntryFollowsWriter == (entry /\ reg = 0) ~> (~entry \/ reg # 0 \/ crashed)

\* The same, as long as no respawn met a writer that was being shut down.
EntryFollowsWriterUnlessRefused ==
  (entry /\ reg = 0) ~> (~entry \/ reg # 0 \/ crashed \/ Refused)
=============================================================================
