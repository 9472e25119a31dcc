SPECIFICATION Spec
CONSTANTS
  Addrs = {a1, a2}
  Net = Net
  Users = {u}
  Ghosts = {g}
  Calls = {p1, p2}
  Admins = {m}
  Accounts = 2
  Failures = 3
  Unknown = 2
  NetAddrs = 2
  MaxAttempts = 3
  MaxBans = 2
  MaxEvents = 1
  None = None
INVARIANTS CacheWrongOnlyByRace GuessersAreBanned DoubledOnlyByRace
PROPERTY SparedNotBanned
SYMMETRY Symmetry
CHECK_DEADLOCK FALSE
