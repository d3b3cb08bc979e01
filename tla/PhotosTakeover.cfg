SPECIFICATION Spec
CONSTANTS
  Attempts = {a1, a2}
  NoAttempt = NoAttempt
  Requests = {r1}
  PhotoCount = 2
  MaxImages = 2
  Ops = {}
  Faults = {"takeover"}
  MaxFaults = 1
SYMMETRY Symmetry
CHECK_DEADLOCK FALSE
INVARIANTS
  NoneRemovedWhileShown
