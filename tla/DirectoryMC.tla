---------------------------- MODULE DirectoryMC ----------------------------
(* Values for the constants of Directory, for model checking. *)
EXTENDS Directory, TLC

\* A PATCH clears a switch, or switches the row on again; a new mailbox is an administrator's or
\* send-only.
PatchBodies == [on : {{}}, off : {{f} : f \in Flags}] \cup [on : {{"active"}}, off : {{}}]
CreateFlags == {{"admin", "receives"}, {}}

\* Rows, domains and requests are told apart only by what is stored under them.
Symmetry == Permutations(Ids) \cup Permutations(Domains) \cup Permutations(Requests)
=============================================================================
