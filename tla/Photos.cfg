SPECIFICATION Spec
CONSTANTS
  Attempts = {a1, a2}
  NoAttempt = NoAttempt
  Requests = {r1, r2, r3}
  PhotoCount = 2
  MaxImages = 2
  Ops = {"add", "delete", "reorder", "deleteListing", "bulkDelete"}
  Faults = {"crash", "takeover", "storage"}
  MaxFaults = 2
SYMMETRY Symmetry
CHECK_DEADLOCK FALSE
INVARIANTS
  TypeOK
  ArrayIsSound
  StorageMatches
