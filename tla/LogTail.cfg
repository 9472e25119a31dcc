SPECIFICATION FairTailSpec
CONSTANTS
  Inodes = {i1, i2}
  MaxLines = 2
  MaxRotations = 1
  MaxCuts = 1
  MaxEnds = 2
  Nil = Nil
  Closed = Closed
INVARIANTS SavedBehind NoRepeat
PROPERTY EveryLineHandled
