SPECIFICATION Spec
CONSTANTS
  Entries = {e1, e2}
  Requests = {r1, r2}
  None = None
  Asked = Asked
  MaxChanges = 2
  MaxPages = 3
  Visited = {"bans", "aliases", "setup"}
  Followed = {"bans", "setupSteps"}
  Actions = {"setAllowlist", "updateAlias", "skipStep", "applyReports"}
SYMMETRY Symmetry
CHECK_DEADLOCK FALSE
INVARIANT OwnChangesShow
PROPERTY OwnEntriesStay
