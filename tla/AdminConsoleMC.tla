--------------------------- MODULE AdminConsoleMC ---------------------------
\* AdminConsole for TLC.
EXTENDS AdminConsole, TLC

\* No definition tells one entry of the allowlist, or one request, from another.
Symmetry == Permutations(Entries) \cup Permutations(Requests)
=============================================================================
