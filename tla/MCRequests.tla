----------------------------- MODULE MCRequests -----------------------------
(* Requests with symmetric slots. *)
EXTENDS Requests, TLC

Symmetry == Permutations(Procs)
=============================================================================
