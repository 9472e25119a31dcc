SPECIFICATION Spec
CONSTANTS
  None = None
  Keep = Keep
  All = All
  Mailboxes = {a, b}
  Requests = {r1, r2}
  Imported = {a}
  MaxAccounts = 2
  MaxCookieIds = 2
  MaxSessions = 3
  MaxPassword = 2
  MaxEvents = 4
INVARIANTS BarredActsOnlyByRace ChangeEndsSessions SessionsAreHeld
PROPERTIES OnlyImportedReturns
SYMMETRY Symmetry
CHECK_DEADLOCK FALSE
