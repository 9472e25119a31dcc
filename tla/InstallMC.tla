----------------------------- MODULE InstallMC -----------------------------
(* Install for TLC: which domain, request or browser is which makes no difference, nor does what a  *)
(* wizard shows once setup has completed, when it is turned away with all it asks.                 *)
EXTENDS Install, TLC

Symmetry == Permutations(Domains) \cup Permutations(Requests) \cup Permutations(Wizards)

View == <<up, boots, settings, domain, files, req, IF completed THEN {} ELSE wizard, blame, founded, faults>>
=============================================================================
