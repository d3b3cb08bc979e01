SPECIFICATION Spec
CONSTANTS
  Attempts = {a1, a2}
  NoAttempt = NoAttempt
  Plates = {p1, p2, p3}
  Invalid = Invalid
  RowCount = 3
  BatchSize = 2
  Limit = 2
  Outside = {"open", "close", "delete"}
  MaxEvents = 3
SYMMETRY Symmetry
CHECK_DEADLOCK FALSE
INVARIANTS
  TypeOK
  RowsDecided
  CountersHold
  ChecksHold
