-------------------------------- MODULE Wire --------------------------------
(***************************************************************************)
(* The generated protobuf code (actor_, remote_ and cluster_vtproto.pb.go) *)
(* with which every Envelope crosses a connection: MarshalVT, SizeVT,      *)
(* UnmarshalVT, skip, CloneVT and EqualVT.  The three files repeat the     *)
(* same code for every message and field; here it is written once, over    *)
(* four tables: what each MarshalToSizedBufferVT writes (the tag bytes, in *)
(* wire order), what each UnmarshalVT accepts (the field numbers), what    *)
(* each EqualVT compares and what each CloneVT copies.  The tables are     *)
(* read off different functions and nothing but the checks ties them       *)
(* together.                                                               *)
(*                                                                         *)
(* Bytes are numbers 0 .. 255, a string or a []byte is a sequence of       *)
(* bytes, a pointer to a message is a sequence of at most one message.     *)
(* Words are scaled: an int or a uint64 has WordBits bits and an int32     *)
(* Int32Bits, enough for every length and index here, and small enough     *)
(* for their limits to be met.                                             *)
(***************************************************************************)
EXTENDS Integers, Sequences, SequencesExt, TLC

WordBits  == 24   \* bound: for the 64 bits of int and uint64
Int32Bits == 12   \* bound: for the 32 bits of int32

\* The unsigned word x as an integer of two's complement with n bits.
Signed(x, n) == LET y == x % 2 ^ n IN IF y < 2 ^ (n - 1) THEN y ELSE y - 2 ^ n

\* One field: its name, how it is stored, and for a message field its type.
Field(name, kind, type) == [name |-> name, kind |-> kind, type |-> type]
Str(name)        == Field(name, "string", "")      \* string, []byte
Strs(name)       == Field(name, "strings", "")     \* []string
Int32(name)      == Field(name, "int32", "")
Uint64(name)     == Field(name, "uint64", "")
Bool(name)       == Field(name, "bool", "")
Ptr(name, type)  == Field(name, "message", type)   \* *T
Ptrs(name, type) == Field(name, "messages", type)  \* []*T

---------------------------------------------------------------------------
(* What each MarshalToSizedBufferVT writes: <<tag byte, field>>, in the    *)
(* order of the bytes on the wire (the code fills the buffer backwards).   *)

PIDOut  == << <<\h0a, Str("Address")>>, <<\h12, Str("ID")>> >>
PingOut == << <<\h0a, Ptr("From", "PID")>> >>
PongOut == << <<\h0a, Ptr("From", "PID")>> >>

EnvelopeOut == << <<\h0a, Strs("TypeNames")>>, <<\h12, Ptrs("Targets", "PID")>>,
                  <<\h1a, Ptrs("Senders", "PID")>>, <<\h22, Ptrs("Messages", "Message")>> >>
MessageOut  == << <<\h0a, Str("Data")>>, <<\h10, Int32("TargetIndex")>>, <<\h18, Int32("SenderIndex")>>,
                  <<\h20, Int32("TypeNameIndex")>>, <<\h28, Bool("Priority")>> >>
TestMessageOut == << <<\h0a, Str("Data")>> >>

CIDOut    == << <<\h0a, Ptr("PID", "PID")>>, <<\h12, Str("ID")>>, <<\h1a, Str("Kind")>>, <<\h22, Str("Region")>> >>
MemberOut == << <<\h0a, Str("ID")>>, <<\h12, Str("Host")>>, <<\h1a, Str("Region")>>, <<\h22, Strs("Kinds")>> >>
MembersOut      == << <<\h0a, Ptrs("Members", "Member")>> >>
MembersJoinOut  == << <<\h0a, Ptrs("Members", "Member")>> >>
MembersLeaveOut == << <<\h0a, Ptrs("Members", "Member")>> >>
HandshakeOut    == << <<\h0a, Ptr("Member", "Member")>> >>
TopologyOut == << <<\h08, Uint64("Hash")>>, <<\h12, Ptrs("Members", "Member")>>, <<\h1a, Ptrs("Left", "Member")>>,
                  <<\h22, Ptrs("Joined", "Member")>>, <<\h2a, Ptrs("Blocked", "Member")>> >>
ActorInfoOut     == << <<\h12, Ptr("PID", "PID")>> >>
ActorTopologyOut == << <<\h0a, Ptrs("Actors", "ActorInfo")>> >>
ActivationOut    == << <<\h0a, Ptr("PID", "PID")>> >>
DeactivationOut  == << <<\h0a, Ptr("PID", "PID")>> >>
ActivationRequestOut  == << <<\h0a, Str("Kind")>>, <<\h12, Str("ID")>>, <<\h1a, Str("Region")>>,
                            <<\h20, Uint64("TopologyHash")>> >>
ActivationResponseOut == << <<\h0a, Ptr("PID", "PID")>>, <<\h10, Bool("Success")>>, <<\h18, Uint64("TopologyHash")>> >>

Writer == [PID |-> PIDOut, Ping |-> PingOut, Pong |-> PongOut,
           Envelope |-> EnvelopeOut, Message |-> MessageOut, TestMessage |-> TestMessageOut,
           CID |-> CIDOut, Member |-> MemberOut, Members |-> MembersOut,
           MembersJoin |-> MembersJoinOut, MembersLeave |-> MembersLeaveOut,
           Handshake |-> HandshakeOut, Topology |-> TopologyOut,
           ActorInfo |-> ActorInfoOut, ActorTopology |-> ActorTopologyOut,
           Activation |-> ActivationOut, Deactivation |-> DeactivationOut,
           ActivationRequest |-> ActivationRequestOut, ActivationResponse |-> ActivationResponseOut]

---------------------------------------------------------------------------
(* What each UnmarshalVT accepts: field number :> field.                   *)

PIDIn  == 1 :> Str("Address") @@ 2 :> Str("ID")
PingIn == 1 :> Ptr("From", "PID")
PongIn == 1 :> Ptr("From", "PID")

EnvelopeIn == 1 :> Strs("TypeNames") @@ 2 :> Ptrs("Targets", "PID") @@ 3 :> Ptrs("Senders", "PID")
              @@ 4 :> Ptrs("Messages", "Message")
\* Mutant of MessageIn: the cases of two indices are swapped.
MessageInSwapped == 1 :> Str("Data") @@ 3 :> Int32("TargetIndex") @@ 2 :> Int32("SenderIndex")
                    @@ 4 :> Int32("TypeNameIndex") @@ 5 :> Bool("Priority")

MessageIn  == 1 :> Str("Data") @@ 2 :> Int32("TargetIndex") @@ 3 :> Int32("SenderIndex")
              @@ 4 :> Int32("TypeNameIndex") @@ 5 :> Bool("Priority")
TestMessageIn == 1 :> Str("Data")

CIDIn    == 1 :> Ptr("PID", "PID") @@ 2 :> Str("ID") @@ 3 :> Str("Kind") @@ 4 :> Str("Region")
MemberIn == 1 :> Str("ID") @@ 2 :> Str("Host") @@ 3 :> Str("Region") @@ 4 :> Strs("Kinds")
MembersIn      == 1 :> Ptrs("Members", "Member")
MembersJoinIn  == 1 :> Ptrs("Members", "Member")
MembersLeaveIn == 1 :> Ptrs("Members", "Member")
HandshakeIn    == 1 :> Ptr("Member", "Member")
TopologyIn == 1 :> Uint64("Hash") @@ 2 :> Ptrs("Members", "Member") @@ 3 :> Ptrs("Left", "Member")
              @@ 4 :> Ptrs("Joined", "Member") @@ 5 :> Ptrs("Blocked", "Member")
ActorInfoIn     == 2 :> Ptr("PID", "PID")
ActorTopologyIn == 1 :> Ptrs("Actors", "ActorInfo")
ActivationIn    == 1 :> Ptr("PID", "PID")
DeactivationIn  == 1 :> Ptr("PID", "PID")
ActivationRequestIn  == 1 :> Str("Kind") @@ 2 :> Str("ID") @@ 3 :> Str("Region") @@ 4 :> Uint64("TopologyHash")
ActivationResponseIn == 1 :> Ptr("PID", "PID") @@ 2 :> Bool("Success") @@ 3 :> Uint64("TopologyHash")

Reader == [PID |-> PIDIn, Ping |-> PingIn, Pong |-> PongIn,
           Envelope |-> EnvelopeIn, Message |-> MessageIn, TestMessage |-> TestMessageIn,
           CID |-> CIDIn, Member |-> MemberIn, Members |-> MembersIn,
           MembersJoin |-> MembersJoinIn, MembersLeave |-> MembersLeaveIn,
           Handshake |-> HandshakeIn, Topology |-> TopologyIn,
           ActorInfo |-> ActorInfoIn, ActorTopology |-> ActorTopologyIn,
           Activation |-> ActivationIn, Deactivation |-> DeactivationIn,
           ActivationRequest |-> ActivationRequestIn, ActivationResponse |-> ActivationResponseIn]

---------------------------------------------------------------------------
(* What each EqualVT compares, besides the unknown fields.                 *)

PIDEq == {Str("Address"), Str("ID")}
PingEq == {Ptr("From", "PID")}
PongEq == {Ptr("From", "PID")}
EnvelopeEq == {Strs("TypeNames"), Ptrs("Targets", "PID"), Ptrs("Senders", "PID"), Ptrs("Messages", "Message")}
MessageEq == {Str("Data"), Int32("TargetIndex"), Int32("SenderIndex"), Int32("TypeNameIndex"), Bool("Priority")}
TestMessageEq == {Str("Data")}
\* Mutant of CIDEq: the region is not compared.
CIDEqNoRegion == {Ptr("PID", "PID"), Str("ID"), Str("Kind")}

CIDEq == {Ptr("PID", "PID"), Str("ID"), Str("Kind"), Str("Region")}
MemberEq == {Str("ID"), Str("Host"), Str("Region"), Strs("Kinds")}
MembersEq == {Ptrs("Members", "Member")}
MembersJoinEq == {Ptrs("Members", "Member")}
MembersLeaveEq == {Ptrs("Members", "Member")}
HandshakeEq == {Ptr("Member", "Member")}
TopologyEq == {Uint64("Hash"), Ptrs("Members", "Member"), Ptrs("Left", "Member"), Ptrs("Joined", "Member"),
               Ptrs("Blocked", "Member")}
ActorInfoEq == {Ptr("PID", "PID")}
ActorTopologyEq == {Ptrs("Actors", "ActorInfo")}
ActivationEq == {Ptr("PID", "PID")}
DeactivationEq == {Ptr("PID", "PID")}
ActivationRequestEq == {Str("Kind"), Str("ID"), Str("Region"), Uint64("TopologyHash")}
ActivationResponseEq == {Ptr("PID", "PID"), Bool("Success"), Uint64("TopologyHash")}

Compared == [PID |-> PIDEq, Ping |-> PingEq, Pong |-> PongEq, Envelope |-> EnvelopeEq,
             Message |-> MessageEq, TestMessage |-> TestMessageEq, CID |-> CIDEq,
             Member |-> MemberEq, Members |-> MembersEq, MembersJoin |-> MembersJoinEq,
             MembersLeave |-> MembersLeaveEq, Handshake |-> HandshakeEq,
             Topology |-> TopologyEq, ActorInfo |-> ActorInfoEq,
             ActorTopology |-> ActorTopologyEq, Activation |-> ActivationEq,
             Deactivation |-> DeactivationEq, ActivationRequest |-> ActivationRequestEq,
             ActivationResponse |-> ActivationResponseEq]

(* What each CloneVT copies, besides the unknown fields.                   *)

PIDCopy == {Str("Address"), Str("ID")}
PingCopy == {Ptr("From", "PID")}
PongCopy == {Ptr("From", "PID")}
EnvelopeCopy == {Strs("TypeNames"), Ptrs("Targets", "PID"), Ptrs("Senders", "PID"), Ptrs("Messages", "Message")}
MessageCopy == {Int32("TargetIndex"), Int32("SenderIndex"), Int32("TypeNameIndex"), Bool("Priority"), Str("Data")}
TestMessageCopy == {Str("Data")}
CIDCopy == {Str("ID"), Str("Kind"), Str("Region"), Ptr("PID", "PID")}
MemberCopy == {Str("ID"), Str("Host"), Str("Region"), Strs("Kinds")}
MembersCopy == {Ptrs("Members", "Member")}
MembersJoinCopy == {Ptrs("Members", "Member")}
MembersLeaveCopy == {Ptrs("Members", "Member")}
HandshakeCopy == {Ptr("Member", "Member")}
TopologyCopy == {Uint64("Hash"), Ptrs("Members", "Member"), Ptrs("Left", "Member"), Ptrs("Joined", "Member"),
               Ptrs("Blocked", "Member")}
ActorInfoCopy == {Ptr("PID", "PID")}
ActorTopologyCopy == {Ptrs("Actors", "ActorInfo")}
ActivationCopy == {Ptr("PID", "PID")}
DeactivationCopy == {Ptr("PID", "PID")}
ActivationRequestCopy == {Str("Kind"), Str("ID"), Str("Region"), Uint64("TopologyHash")}
ActivationResponseCopy == {Bool("Success"), Uint64("TopologyHash"), Ptr("PID", "PID")}

Copied == [PID |-> PIDCopy, Ping |-> PingCopy, Pong |-> PongCopy, Envelope |-> EnvelopeCopy,
           Message |-> MessageCopy, TestMessage |-> TestMessageCopy, CID |-> CIDCopy,
           Member |-> MemberCopy, Members |-> MembersCopy, MembersJoin |-> MembersJoinCopy,
           MembersLeave |-> MembersLeaveCopy, Handshake |-> HandshakeCopy,
           Topology |-> TopologyCopy, ActorInfo |-> ActorInfoCopy,
           ActorTopology |-> ActorTopologyCopy, Activation |-> ActivationCopy,
           Deactivation |-> DeactivationCopy, ActivationRequest |-> ActivationRequestCopy,
           ActivationResponse |-> ActivationResponseCopy]

Types == DOMAIN Writer

\* The fields of the Go struct, and the message new(T).
FieldsOf(T) == {Writer[T][i][2] : i \in DOMAIN Writer[T]}
FieldOf(T, name) == CHOOSE f \in FieldsOf(T) : f.name = name
Zero(kind) == CASE kind \in {"int32", "uint64"} -> 0 [] kind = "bool" -> FALSE [] OTHER -> <<>>
New(T) == [name \in {f.name : f \in FieldsOf(T)} |-> Zero(FieldOf(T, name).kind)]
          @@ ("unknownFields" :> <<>>)

\* What an element of a []*T stands for: a nil pointer for the empty message.
Deref(T, p) == IF p = <<>> THEN New(T) ELSE p[1]

---------------------------------------------------------------------------
(* Writing.                                                                *)

RECURSIVE BitLen(_)
BitLen(x) == IF x = 0 THEN 0 ELSE 1 + BitLen(x \div 2)

\* Bytes that encodeVarint takes: (bits.Len64(x|1) + 6) / 7.
sov(x) == (BitLen(IF x = 0 THEN 1 ELSE x) + 6) \div 7

RECURSIVE encodeVarint(_)
encodeVarint(v) == IF v < 128 THEN <<v>> ELSE <<128 + (v % 128)>> \o encodeVarint(v \div 128)

\* uint64(v): a negative int32 is sign-extended.
Unsigned(v) == IF v < 0 THEN v + 2 ^ WordBits ELSE v

RECURSIVE SizeVT(_, _)
\* The size MarshalVT allocates for what p points to, 0 for nil.
SizeVT(T, p) ==
    LET Prefixed(l) == 1 + l + sov(l)
        OfField(f) ==
            LET v == p[1][f.name] IN
            CASE f.kind = "string"  -> IF v = <<>> THEN 0 ELSE Prefixed(Len(v))
              [] f.kind \in {"int32", "uint64"} -> IF v = 0 THEN 0 ELSE 1 + sov(Unsigned(v))
              [] f.kind = "bool"    -> IF v THEN 2 ELSE 0
              [] f.kind = "message" -> IF v = <<>> THEN 0 ELSE Prefixed(SizeVT(f.type, v))
              [] f.kind = "strings" -> FoldLeft(LAMBDA n, s : n + Prefixed(Len(s)), 0, v)
              [] OTHER              -> FoldLeft(LAMBDA n, e : n + Prefixed(SizeVT(f.type, e)), 0, v)
    IN IF p = <<>> THEN 0
       ELSE FoldLeft(LAMBDA n, w : n + OfField(w[2]), 0, Writer[T]) + Len(p[1].unknownFields)

RECURSIVE MarshalVT(_, _)
\* The bytes of what p points to: every field that is not zero, then the
\* unknown fields.
MarshalVT(T, p) ==
    LET Prefixed(tag, b) == <<tag>> \o encodeVarint(Len(b)) \o b
        OfField(tag, f) ==
            LET v == p[1][f.name] IN
            CASE f.kind = "string"  -> IF v = <<>> THEN <<>> ELSE Prefixed(tag, v)
              [] f.kind \in {"int32", "uint64"} -> IF v = 0 THEN <<>> ELSE <<tag>> \o encodeVarint(Unsigned(v))
              [] f.kind = "bool"    -> IF v THEN <<tag, 1>> ELSE <<>>
              [] f.kind = "message" -> IF v = <<>> THEN <<>> ELSE Prefixed(tag, MarshalVT(f.type, v))
              [] f.kind = "strings" -> FoldLeft(LAMBDA b, s : b \o Prefixed(tag, s), <<>>, v)
              [] OTHER              -> FoldLeft(LAMBDA b, e : b \o Prefixed(tag, MarshalVT(f.type, e)), <<>>, v)
    IN IF p = <<>> THEN <<>>
       ELSE FoldLeft(LAMBDA b, w : b \o OfField(w[1], w[2]), <<>>, Writer[T]) \o p[1].unknownFields

---------------------------------------------------------------------------
(* Reading.  i counts the bytes consumed (the code's iNdEx); a reading     *)
(* step returns where it stands, what it has read and the error, if any.   *)

RECURSIVE varint(_, _, _, _)
\* The varint of d at i, k groups of which, worth v, have been read.
varint(d, i, k, v) ==
    IF 7 * k >= WordBits THEN [i |-> i, v |-> v, err |-> "ErrIntOverflow"]
    ELSE IF i >= Len(d) THEN [i |-> i, v |-> v, err |-> "ErrUnexpectedEOF"]
    ELSE LET w == (v + (d[i + 1] % 128) * 128 ^ k) % 2 ^ WordBits
         IN IF d[i + 1] < 128 THEN [i |-> i + 1, v |-> w, err |-> ""]
            ELSE varint(d, i + 1, k + 1, w)

RECURSIVE skip(_, _, _)
\* Where the unknown field at the front of d ends; the loop stands at i,
\* depth groups deep.
skip(d, i, depth) ==
    LET Failed(e) == [i |-> 0, depth |-> depth, err |-> e]
        Past(j, deep) == [i |-> Signed(j, WordBits), depth |-> deep, err |-> ""]
        Bytes(n) == IF n.err # "" THEN Failed(n.err)
                    ELSE IF Signed(n.v, WordBits) < 0 THEN Failed("ErrInvalidLength")
                    ELSE Past(n.i + n.v, depth)
        Round(tag, value) ==
            CASE tag.err # "" -> Failed(tag.err)
              [] tag.err = "" /\ tag.v % 8 = 0 -> IF value.err # "" THEN Failed(value.err) ELSE Past(value.i, depth)
              [] tag.err = "" /\ tag.v % 8 = 1 -> Past(tag.i + 8, depth)
              [] tag.err = "" /\ tag.v % 8 = 2 -> Bytes(value)
              [] tag.err = "" /\ tag.v % 8 = 3 -> Past(tag.i, depth + 1)
              [] tag.err = "" /\ tag.v % 8 = 4 -> IF depth = 0 THEN Failed("ErrUnexpectedEndOfGroup")
                                                  ELSE Past(tag.i, depth - 1)
              [] tag.err = "" /\ tag.v % 8 = 5 -> Past(tag.i + 4, depth)
              [] OTHER -> Failed("illegal wireType")
        Loop(r) == IF r.err # "" THEN r
                   ELSE IF r.i < 0 THEN Failed("ErrInvalidLength")
                   ELSE IF r.depth = 0 THEN r
                   ELSE IF r.i < Len(d) THEN skip(d, r.i, r.depth) ELSE Failed("ErrUnexpectedEOF")
        FromTag(tag) == Loop(Round(tag, varint(d, tag.i, 0, 0)))
    IN FromTag(varint(d, i, 0, 0))

RECURSIVE UnmarshalVT(_, _, _)

\* A number or a bool.  The field is overwritten group by group: what has
\* been read of it stays when the input ends early.  A bool is set at the end.
ReadNumber(d, i, m, f) ==
    LET x == varint(d, i, 0, 0) IN
    [i |-> x.i, err |-> x.err,
     m |-> IF f.kind = "uint64" THEN [m EXCEPT ![f.name] = x.v]
           ELSE IF f.kind = "int32" THEN [m EXCEPT ![f.name] = Signed(x.v, Int32Bits)]
           ELSE IF x.err = "" THEN [m EXCEPT ![f.name] = (x.v # 0)] ELSE m]

\* Mutant of Target: always a new message.
TargetNew(f, old) == New(f.type)

\* The message that a message field is decoded into: a new one, or the one
\* that a pointer already points to.
Target(f, old) == IF f.kind = "message" /\ old # <<>> THEN old[1] ELSE New(f.type)

\* The field f, which ends at post: a string replaces the field or is appended
\* to it; so is a message, once it has been decoded.
SetNested(post, m, f, sub) ==
    [i |-> post, err |-> sub.err,
     m |-> [m EXCEPT ![f.name] = IF f.kind = "message" THEN <<sub.m>> ELSE Append(@, <<sub.m>>)]]
SetValue(post, body, m, f) ==
    CASE f.kind = "string"  -> [i |-> post, err |-> "", m |-> [m EXCEPT ![f.name] = body]]
      [] f.kind = "strings" -> [i |-> post, err |-> "", m |-> [m EXCEPT ![f.name] = Append(@, body)]]
      [] OTHER -> SetNested(post, m, f, UnmarshalVT(f.type, body, Target(f, m[f.name])))

\* A length and that many bytes.
ReadBytes(d, i, m, f) ==
    LET n == varint(d, i, 0, 0)
        len == Signed(n.v, WordBits)
        postIndex == Signed(n.i + len, WordBits)
        Failed(e) == [i |-> n.i, err |-> e, m |-> m]
    IN IF n.err # "" THEN Failed(n.err)
       ELSE IF len < 0 \/ postIndex < 0 THEN Failed("ErrInvalidLength")
       ELSE IF postIndex > Len(d) THEN Failed("ErrUnexpectedEOF")
       ELSE SetValue(postIndex, SubSeq(d, n.i + 1, postIndex), m, f)

\* Mutant of KeepUnknown: the field is dropped, and iNdEx, which was put back to
\* its start, is not advanced past it.
KeepUnknownStays(d, i, m) ==
    LET s == skip(SubSeq(d, i + 1, Len(d)), 0, 0) IN [i |-> i, err |-> s.err, m |-> m]

\* A field that the reader does not know is kept, bytes and all.  skip sees the
\* input from that field on.
KeepUnknown(d, i, m) ==
    LET s == skip(SubSeq(d, i + 1, Len(d)), 0, 0)
        postIndex == Signed(i + s.i, WordBits)
        Failed(e) == [i |-> i, err |-> e, m |-> m]
    IN IF s.err # "" THEN Failed(s.err)
       ELSE IF s.i < 0 \/ postIndex < 0 THEN Failed("ErrInvalidLength")
       ELSE IF postIndex > Len(d) THEN Failed("ErrUnexpectedEOF")
       ELSE [i |-> postIndex, err |-> "", m |-> [m EXCEPT !.unknownFields = @ \o SubSeq(d, i + 1, postIndex)]]

\* The field f, whose number has been read, if it has the right wire type.
ReadKnown(d, i, wireType, m, f) ==
    IF wireType # (IF f.kind \in {"int32", "uint64", "bool"} THEN 0 ELSE 2)
    THEN [i |-> i, err |-> "wrong wireType", m |-> m]
    ELSE IF wireType = 0 THEN ReadNumber(d, i, m, f) ELSE ReadBytes(d, i, m, f)

\* One round of the loop of UnmarshalVT: the field that starts at i.
ReadField(T, d, i, m) ==
    LET wire == varint(d, i, 0, 0)
        fieldNum == Signed(wire.v \div 8, Int32Bits)
        wireType == wire.v % 8
        Failed(e) == [i |-> wire.i, err |-> e, m |-> m]
    IN IF wire.err # "" THEN Failed(wire.err)
       ELSE IF wireType = 4 THEN Failed("wiretype end group for non-group")
       ELSE IF fieldNum <= 0 THEN Failed("illegal tag")
       ELSE IF fieldNum \notin DOMAIN Reader[T] THEN KeepUnknown(d, i, m)
       ELSE ReadKnown(d, wire.i, wireType, m, Reader[T][fieldNum])

RECURSIVE UnmarshalLoop(_, _, _)
\* The loop, after a round that ended with r.
UnmarshalLoop(T, d, r) ==
    IF r.err # "" \/ r.i >= Len(d) THEN [m |-> r.m, err |-> r.err]
    ELSE UnmarshalLoop(T, d, ReadField(T, d, r.i, r.m))

\* UnmarshalVT decodes into m, whatever m holds already.
UnmarshalVT(T, d, m) == UnmarshalLoop(T, d, [i |-> 0, err |-> "", m |-> m])

---------------------------------------------------------------------------
(* Copying and comparing.                                                  *)

RECURSIVE CloneVT(_, _)
\* A deep copy of what p points to: nested messages are copied in turn, a nil
\* pointer is copied as one, and unknown fields only when there are any.
CloneVT(T, p) ==
    LET Copy(f, v) ==
            CASE f.kind = "message"  -> CloneVT(f.type, v)
              [] f.kind = "messages" -> [k \in DOMAIN v |-> CloneVT(f.type, v[k])]
              [] OTHER               -> v
        r == [name \in DOMAIN New(T) |->
                 IF name = "unknownFields" THEN IF Len(p[1][name]) > 0 THEN p[1][name] ELSE <<>>
                 ELSE IF FieldOf(T, name) \in Copied[T] THEN Copy(FieldOf(T, name), p[1][name])
                 ELSE New(T)[name]]
    IN IF p = <<>> THEN <<>> ELSE <<r>>

RECURSIVE EqualVT(_, _, _)
\* Two pointers are both nil or to equal messages; two slices have the same
\* length and equal elements, of which a nil one equals the empty message.
EqualVT(T, this, that) ==
    LET Same(f, x, y) ==
            CASE f.kind = "message"  -> EqualVT(f.type, x, y)
              [] f.kind = "messages" ->
                     /\ Len(x) = Len(y)
                     /\ \A k \in DOMAIN x : EqualVT(f.type, <<Deref(f.type, x[k])>>, <<Deref(f.type, y[k])>>)
              [] OTHER               -> x = y
    IN IF this = <<>> \/ that = <<>> THEN this = that
       ELSE /\ \A f \in Compared[T] : Same(f, this[1][f.name], that[1][f.name])
            /\ this[1].unknownFields = that[1].unknownFields
=============================================================================
