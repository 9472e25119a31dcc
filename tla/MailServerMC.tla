---------------------------- MODULE MailServerMC ----------------------------
(* Values for the constants of MailServer, for model checking. *)
EXTENDS MailServer, TLC

\* Messages, requests, connection objects and connections can each be exchanged.
Symmetry == Permutations(Messages) \cup Permutations(Requests) \cup Permutations(Objects) \cup Permutations(Clients)
=============================================================================
