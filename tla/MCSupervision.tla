---------------------------- MODULE MCSupervision ---------------------------
(* Small trees of actors for Supervision. *)
EXTENDS Supervision, TLC

CONSTANTS root, kid, other, grandkid

\* A parent, its child and the child of that.
Chain == root :> None @@ kid :> root @@ grandkid :> kid

\* A parent with two children.
Fan == root :> None @@ kid :> root @@ other :> root

ClientSymmetry == Permutations(Clients)
=============================================================================
