------------------------------ MODULE MCStreams ------------------------------
(* Streams for four messages: one with a sender, one without, one that      *)
(* cannot be serialised and one that is no proto.Message, where they occur.  *)
EXTENDS Streams

CONSTANTS m1, m2, m3, m4, typeA, typeB, alice, bob, server1, server2

TypeOf == [m \in Msgs |-> IF m = m2 THEN typeB ELSE typeA]
SenderOf == [m \in Msgs |-> IF m = m1 THEN alice ELSE IF m = m2 THEN NoPID ELSE bob]
TargetOf == [m \in Msgs |-> IF m = m2 THEN server2 ELSE server1]
=============================================================================
