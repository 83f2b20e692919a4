------------------------------- MODULE Codec --------------------------------
(***************************************************************************)
(* The use of the generated code on a connection.  A message is marshalled,*)
(* the bytes may be cut short or damaged, and the other side decodes them  *)
(* field by field: an Envelope into a new one (the stream's Recv), and what*)
(* is given to VTProtoSerializer into the one instance that RegisterType   *)
(* put in the package's registry for that type name.  VTProtoSerializer is *)
(* exported, and no code of the repository calls it: payloads go through   *)
(* ProtoSerializer (stream_writer.go:44, stream_reader.go:21).             *)
(***************************************************************************)
EXTENDS Wire

CONSTANTS Samples,     \* the messages that are sent: type :> set of messages
          Damaged,     \* bytes that arrive with a tag or a length damaged
          Registered,  \* the types given to RegisterType
          MaxMessages, \* bound: messages sent, one after the other
          Cuts         \* bound: how many bytes of the end may be missing

ASSUME CodecAssumption == /\ DOMAIN Samples \subseteq Types
                          /\ Registered \subseteq Types
                          /\ MaxMessages \in Nat /\ Cuts \subseteq Nat

VARIABLES registry,  \* type :> the registered instance
          pc,        \* "idle", "decode": a loop of UnmarshalVT is under way
          tname,     \* the type of the message on the wire
          sent,      \* the message as its sender had it
          dAtA,      \* the bytes that arrived
          whole,     \* no byte is missing
          shared,    \* the target is the registered instance
          before,    \* the target as it was before the first field
          m,         \* the target
          iNdEx,     \* bytes consumed
          turns,     \* history: turns of the loop in this decoding
          err,       \* what the last decoding returned, "" for nil
          count      \* messages sent (bounded by MaxMessages)

vars == <<registry, pc, tname, sent, dAtA, whole, shared, before, m, iNdEx, turns, err, count>>

Init == /\ registry = [T \in Registered |-> New(T)]
        /\ pc = "idle" /\ tname = "PID" /\ sent = New("PID")
        /\ dAtA = <<>> /\ whole = TRUE /\ shared = FALSE
        /\ before = New("PID") /\ m = New("PID")
        /\ iNdEx = 0 /\ turns = 0 /\ err = "" /\ count = 0

\* The bytes b of the message x of type T arrive, all of them or not.  Bound:
\* the messages of a behaviour have one type, as decoding one type leaves every
\* entry of the registry but its own alone.
Transmit(T, x, b, all) ==
    /\ pc = "idle" /\ count < MaxMessages /\ (count > 0 => T = tname)
    /\ count' = count + 1
    /\ tname' = T /\ sent' = x
    /\ dAtA' = b /\ whole' = all
    /\ iNdEx' = 0 /\ turns' = 0

\* The stream's Send and its transport: MarshalVT, and how many bytes arrive.
Sent(T, x, cut) ==
    LET b == MarshalVT(T, <<x>>) IN
    cut <= Len(b) /\ Transmit(T, x, SubSeq(b, 1, Len(b) - cut), cut = 0)

\* drpcRemote_ReceiveStream.Recv: a new Envelope each time.
Recv ==
    /\ \/ \E x \in Samples["Envelope"], cut \in Cuts : Sent("Envelope", x, cut)
       \/ \E b \in Damaged : Transmit("Envelope", New("Envelope"), b, FALSE)
    /\ pc' = "decode" /\ shared' = FALSE /\ err' = ""
    /\ m' = New("Envelope") /\ before' = m'
    /\ UNCHANGED registry

\* registryGetType: the instance, or an error.
registryGetType(T) == IF T \in DOMAIN registry THEN [err |-> "", v |-> registry[T]]
                      ELSE [err |-> "not registered", v |-> New(T)]

\* VTProtoSerializer.Deserialize, up to the call of UnmarshalVT.
Deserialize == \E T \in DOMAIN Samples : \E x \in Samples[T], cut \in Cuts :
    LET r == registryGetType(T) IN
    /\ Sent(T, x, cut)
    /\ shared' = (r.err = "") /\ err' = r.err
    /\ pc' = IF r.err = "" THEN "decode" ELSE "idle"
    /\ m' = r.v /\ before' = r.v
    /\ UNCHANGED registry

\* One field.  An error ends the loop and leaves the target as it is.
UnmarshalField ==
    LET r == ReadField(tname, dAtA, iNdEx, m) IN
    /\ pc = "decode" /\ iNdEx < Len(dAtA)
    /\ m' = r.m /\ err' = r.err /\ iNdEx' = r.i /\ turns' = turns + 1
    /\ pc' = IF r.err = "" THEN "decode" ELSE "idle"
    /\ registry' = IF shared THEN [registry EXCEPT ![tname] = r.m] ELSE registry
    /\ UNCHANGED <<tname, sent, dAtA, whole, shared, before, count>>

\* The loop is over: UnmarshalVT returns nil.
UnmarshalReturn ==
    /\ pc = "decode" /\ iNdEx >= Len(dAtA)
    /\ pc' = "idle"
    /\ UNCHANGED <<registry, tname, sent, dAtA, whole, shared, before, m, iNdEx, turns, err, count>>

Next == Recv \/ Deserialize \/ UnmarshalField \/ UnmarshalReturn

Spec == Init /\ [][Next]_vars

---------------------------------------------------------------------------
(* Properties.                                                             *)

TypeOK == /\ DOMAIN registry = Registered
          /\ pc \in {"idle", "decode"} /\ tname \in Types
          /\ DOMAIN m = DOMAIN New(tname) /\ DOMAIN sent = DOMAIN m /\ DOMAIN before = DOMAIN m
          /\ whole \in BOOLEAN /\ shared \in BOOLEAN
          /\ iNdEx \in Nat /\ turns \in Nat /\ count \in 0 .. MaxMessages

RECURSIVE Merged(_, _, _)
\* What b adds to a: a field that b sets replaces a's, slices are joined, their
\* nil elements having become empty messages, and messages that both point to
\* are merged.
Merged(T, a, b) ==
    [name \in DOMAIN a |->
        IF name = "unknownFields" THEN a[name] \o b[name]
        ELSE LET f == FieldOf(T, name) IN
             CASE f.kind = "strings" -> a[name] \o b[name]
               [] f.kind = "messages" ->
                      a[name] \o [k \in DOMAIN b[name] |->
                                    <<Merged(f.type, New(f.type), Deref(f.type, b[name][k]))>>]
               [] f.kind = "message" /\ a[name] # <<>> /\ b[name] # <<>> ->
                      <<Merged(f.type, a[name][1], b[name][1])>>
               [] OTHER -> IF b[name] = Zero(f.kind) THEN a[name] ELSE b[name]]

\* A message that arrives whole is decoded to what was sent, fields of a
\* newer schema included; decoded into the registered instance it is merged
\* with everything that instance was ever used for (UnmarshalVT resets
\* nothing, registryGetType hands out the same pointer every time).
MergesInto == (pc = "idle" /\ count > 0 /\ whole /\ err = "") => m = Merged(tname, before, sent)

\* At every turn of the loop that decodes into a new message, marshalling
\* what has been read gives back the bytes consumed so far: no field is
\* read twice, dropped or attributed to another, and input that ends early
\* is either refused or ends between two fields.  SizeVT is exactly what
\* MarshalToSizedBufferVT fills from the end: one byte more or less and
\* MarshalVT returns garbage or indexes out of range.
Reencodes == (err = "" /\ before = New(tname)) =>
    /\ MarshalVT(tname, <<m>>) = SubSeq(dAtA, 1, iNdEx)
    /\ SizeVT(tname, <<m>>) = iNdEx

\* The message and what it is with any one field cleared.
Variants == {[m EXCEPT ![name] = New(tname)[name]] : name \in DOMAIN m}

\* Three functions that the generator wrote separately for every message agree
\* on what it consists of: two messages are EqualVT exactly when they have the
\* same bytes on the wire (a field that EqualVT forgets, or compares and
\* MarshalVT does not write, tells), and a CloneVT has those bytes too.
EqualIsSameBytes == pc = "idle" =>
    /\ \A x \in Variants \union {sent} :
           EqualVT(tname, <<m>>, <<x>>) <=> MarshalVT(tname, <<m>>) = MarshalVT(tname, <<x>>)
    /\ LET c == CloneVT(tname, <<m>>) IN
           EqualVT(tname, <<m>>, c) /\ MarshalVT(tname, c) = MarshalVT(tname, <<m>>)

\* While the loop of UnmarshalVT goes on it has taken no more turns than it has
\* consumed bytes, and consumed none past the end: whatever skip makes of an
\* unknown field, or a varint of a length near the limit of an int, the loop
\* ends after at most one turn for each byte.
Advances == pc = "decode" => turns <= iNdEx /\ iNdEx <= Len(dAtA)
=============================================================================
