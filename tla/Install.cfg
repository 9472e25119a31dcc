SPECIFICATION Spec
CONSTANTS
  Domains = {d1, d2}
  Requests = {r1, r2}
  Wizards = {w1}
  None = None
  MaxBoots = 2
  MaxFaults = 1
INVARIANTS FilesFollowDomains CompletedHasAdmin
SYMMETRY Symmetry
VIEW View
CHECK_DEADLOCK FALSE
