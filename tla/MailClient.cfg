SPECIFICATION MailSpec
CONSTANTS
  Nil = Nil
  Inbox = inbox
  Trash = trash
  Folders = {inbox, trash}
  Messages = {m1, m2}
  Convs = {c}
  Conv <- OneConversation
  Calls = {i1, i2}
  MaxUid = 2
  MaxSteps = 3
INVARIANTS AtRestShowsMailbox AnnouncedOnce
PROPERTY UnreadSticks
SYMMETRY Symmetry
CHECK_DEADLOCK FALSE
