SPECIFICATION Spec
CONSTANTS
  Attempts = {a1, a2}
  NoAttempt = NoAttempt
  Plates = {p1, p2, p3}
  Invalid = Invalid
  RowCount = 3
  BatchSize = 2
  Limit = 2
  Outside = {}
  MaxEvents = 2
SYMMETRY Symmetry
CHECK_DEADLOCK FALSE
INVARIANTS
  NoRowTwice
