SPECIFICATION Spec
CONSTANTS
  Slots = {a1, a2}
  NoSlot = NoSlot
  Reapers = {r1}
  Requests = {q1}
  BatchCount = 2
  MaxReclaim = 2
  QueueAttempts = 1
  MaxFaults = 2
  MaxAsks = 1
SYMMETRY SlotSymmetry
CHECK_DEADLOCK FALSE
INVARIANTS
  TypeOK
  LeasesAreSound
  NothingIsSkipped
  ToldIsTrue
PROPERTIES
  CheckpointGrows
  ImplementsLifecycle
