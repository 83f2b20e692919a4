----------------------------- MODULE MCProcess -----------------------------
(* Small instances of Process: which messages panic is in the cfg files. *)
EXTENDS Process, TLC

\* Receive of the lifecycle messages may panic, with either kind of error.
AnyStartPanic == {"Initialized", "Started"} \X {"error", "internal"}

WorkerSymmetry == Permutations(Workers)
=============================================================================
