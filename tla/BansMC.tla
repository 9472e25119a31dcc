------------------------------- MODULE BansMC -------------------------------
(* Small instances of Bans for TLC. *)
EXTENDS Bans, TLC

\* Addresses of a network, and the attempts in progress, can be exchanged.
Symmetry == Permutations(Addrs) \cup Permutations(Calls)
=============================================================================
