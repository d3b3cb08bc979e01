SPECIFICATION FairSpec
CONSTANTS
  Slots = {a1, a2}
  NoSlot = NoSlot
  Reapers = {r1}
  Requests = {q1}
  BatchCount = 1
  MaxReclaim = 2
  QueueAttempts = 2
  MaxFaults = 1
  MaxAsks = 1
CHECK_DEADLOCK FALSE
PROPERTIES
  UploadSettles
