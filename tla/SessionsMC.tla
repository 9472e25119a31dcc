----------------------------- MODULE SessionsMC -----------------------------
(* Small instances of Sessions for TLC. *)
EXTENDS Sessions, TLC

\* Requests in progress can be exchanged.
Symmetry == Permutations(Requests)
=============================================================================
