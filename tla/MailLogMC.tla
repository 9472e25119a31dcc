----------------------------- MODULE MailLogMC -----------------------------
(* MailLog on a small instance: the recipients are interchangeable. *)
EXTENDS MailLog, TLC

Symmetry == Permutations(Recipients)

============================================================================
