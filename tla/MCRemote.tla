------------------------------ MODULE MCRemote ------------------------------
(* A small instance of Remote. *)
EXTENDS Remote, TLC

=============================================================================
