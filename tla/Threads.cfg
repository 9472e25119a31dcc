SPECIFICATION Spec
CONSTANTS
  None = None
  Subjects = {s}
  Changed = Changed
  PageSize = 3
  MaxRounds = 3
  Gap = 2
  MaxWritten = 4
  MaxTurns = 2
INVARIANTS GroupsAreComponents OpenShowsRow RowsApart
CHECK_DEADLOCK FALSE
