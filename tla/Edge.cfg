SPECIFICATION EdgeSpec
CONSTANTS
  Calls = {u1, u2}
  Tokens = {t1, t2}
  TokenTtl = 1
  MaxTokens = 1
  MaxUploads = 1
  MaxTime = 1
  Notes = {1, 2}
  PageSize = 1
  Polls = {p1, p2}
  Marks = {m1}
CHECK_DEADLOCK FALSE
INVARIANTS
  EdgeTypeOK
  GateHolds
  InboxHolds
PROPERTIES
  EdgeSettles
