SPECIFICATION Spec
CONSTANTS
  Messages = {m1, m2}
  MaxActs = 5
  MaxFailures = 1
INVARIANTS RepeatsHaveCause OneDraftUntilSent AttachmentsHeld NothingLost
CONSTRAINT FirstFirst
VIEW View
CHECK_DEADLOCK FALSE
