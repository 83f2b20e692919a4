------------------------------ MODULE MCEvents ------------------------------
(* Two actors; ha2 is a second pointer to the PID of the first, for larger *)
(* instances.                                                              *)
EXTENDS Events

CONSTANTS a, b, ha, ha2, hb

MCOf == [h \in Handles |-> IF h = hb THEN b ELSE a]
=============================================================================
