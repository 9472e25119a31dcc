SPECIFICATION Spec
CONSTANTS
  None = None
  Requests = {r1, r2}
  Domains = {d1, d2}
  Locals = {l1}
  Ids = {m1, m2}
  AliasIds = {a1}
  Bodies <- PatchBodies
  NewFlags <- CreateFlags
SYMMETRY Symmetry
PROPERTIES LastAdminOnlyByRace AddressesClashOnlyByRace SkippedOnlyThrough
CHECK_DEADLOCK FALSE
