SPECIFICATION FairSpec
CONSTANTS
  Submissions = {s0, s1, s2}
  Reviews = {r0, r1}
  Views = {v1}
  Workers = {w1}
  Files = {licence}
  Earlier = s0
  EarlierReview = r0
  Nobody = Nobody
CHECK_DEADLOCK FALSE
INVARIANTS
  TypeOK
  DocumentsMatch
  DecisionsHold
PROPERTIES
  DecidedOnce
  DocumentsExpire
