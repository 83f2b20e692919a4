------------------------------ MODULE MCCodec -------------------------------
(* Messages for Codec: for every type the empty message, one with every    *)
(* field set, and one with fields of a newer schema (field 15, once with   *)
(* each wire type).  A region is 127 bytes long and a payload 128, so that *)
(* lengths take one byte or two, as do those of the messages around them.  *)
EXTENDS Codec

A == <<97>>
B == <<98, 99>>
Long(n) == [i \in 1 .. n |-> 7]

\* 15 as a varint of two groups, fixed64, bytes, a group that holds a field, fixed32.
Newer == <<120, 172, 2>> \o <<121, 1, 2, 3, 4, 5, 6, 7, 8>> \o <<122, 2, 8, 9>>
         \o <<123, 120, 1, 124>> \o <<125, 1, 2, 3, 4>>

pid == [New("PID") EXCEPT !.Address = A, !.ID = B]
member == [New("Member") EXCEPT !.ID = A, !.Host = B, !.Region = Long(127), !.Kinds = <<A, <<>>, B>>]
message == [New("Message") EXCEPT !.Data = Long(128), !.TargetIndex = 1, !.SenderIndex = 300,
                                  !.TypeNameIndex = 127, !.Priority = TRUE]

RECURSIVE Full(_)
\* Every field of T set.
Full(T) ==
    CASE T = "PID" -> pid [] T = "Member" -> member [] T = "Message" -> message
      [] OTHER -> [name \in DOMAIN New(T) |->
            IF name = "unknownFields" THEN <<>>
            ELSE LET f == FieldOf(T, name) IN
                 CASE f.kind = "string" -> B [] f.kind \in {"int32", "uint64"} -> 128 [] f.kind = "bool" -> TRUE
                   [] f.kind = "strings" -> <<B, A>>
                   [] f.kind = "message" -> <<Full(f.type)>>
                   [] f.kind = "messages" -> << <<Full(f.type)>>, <<New(f.type)>> >>]

\* The same from a peer with a newer schema, and with nested messages empty.
Extended(T) == [Full(T) EXCEPT !.unknownFields = Newer]
Hollow(T) == [name \in DOMAIN New(T) |->
                 IF name # "unknownFields" /\ FieldOf(T, name).kind = "message"
                 THEN <<New(FieldOf(T, name).type)>> ELSE New(T)[name]]

\* The envelope of a batch whose second message could not be serialised.
Partial == [Full("Envelope") EXCEPT !.Messages = << <<message>>, <<>>, <<message>> >>]

MCSamples == [T \in Types |-> {New(T), Full(T), Extended(T), Hollow(T)}
                              \union (IF T = "Envelope" THEN {Partial} ELSE {})]

\* The varints of the largest uint64, the largest int, one a little below it,
\* and one that does not end.
MaxUint == <<255, 255, 255, 7>>
MaxInt  == <<255, 255, 255, 3>>
Below   == <<250, 255, 255, 3>>
Endless == <<255, 255, 255, 255>>

\* After a field that arrived: a known and an unknown field with such a length,
\* a field inside a group, a field number beyond int32, the end of a group, and
\* wire types that are wrong or do not exist.
MCDamaged ==
    {<<10, 1, 97>> \o b :
        b \in {<<tag>> \o len : tag \in {10, 18, 122}, len \in {MaxUint, MaxInt, Below, Endless}}
             \union {<<123, 122>> \o MaxInt, <<130, 128, 4>>, <<124>>, <<8, 1>>, <<126>>, <<2, 0>>}}

MCRegistered == Types \ {"TestMessage"}
=============================================================================
