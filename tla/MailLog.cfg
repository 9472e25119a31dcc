SPECIFICATION LogSpec
CONSTANTS
  Messages = {m1}
  Recipients = {r1, r2}
  Null = Null
  MaxLines = 7
  MaxCrashes = 1
  MaxSkips = 1
SYMMETRY Symmetry
CHECK_DEADLOCK FALSE
INVARIANT StatusIsTheLast DeferredIsQueued RowsKnowTheirMessage
