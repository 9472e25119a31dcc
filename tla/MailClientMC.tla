---------------------------- MODULE MailClientMC ----------------------------
(* Values for the constants of MailClient, for model checking. *)
EXTENDS MailClient, TLC

\* All messages belong to one conversation.
OneConversation == [m \in Messages |-> CHOOSE c \in Convs : TRUE]
Symmetry == Permutations(Messages) \cup Permutations(Calls)
=============================================================================
