SPECIFICATION Spec
CONSTANTS
  None = None
  Inbox = inbox
  Trash = trash
  Folders = {inbox, trash}
  Messages = {m1, m2}
  Requests = {r1, r2}
  Objects = {o1, o2}
  Clients = {c1, c2}
  MaxUid = 2
  MaxCalls = 2
  MaxEvents = 3
  CacheSize = 1
INVARIANTS AnswersAreTheMessage ConversationsAreWhole OrphansOnlyWhenClosedBusy FreshAfterEviction
SYMMETRY Symmetry
CHECK_DEADLOCK FALSE
