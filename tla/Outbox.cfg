SPECIFICATION FairSpec
CONSTANTS
  Workers = {w1, w2}
  EmailCount = 2
  Unknown = {2}
  MaxAttempts = 2
  CycleSize = 2
  MaxEvents = 3
INVARIANTS
  TypeOK
  OneSender
  RepeatedOnlyIfUnrecorded
  GivenUpForAReason
PROPERTIES
  OutcomeIsFinal
  EmailSettles
