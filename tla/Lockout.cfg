CONSTANTS
  Slot = {s1, s2, s3}
  MaxAttempts = 5
  LockFor = 3
  CounterCap = 6
  GuessCap = 60
SPECIFICATION WatchedSpec
INVARIANTS
  TypeOK
  StoredFailuresAreBounded
PROPERTIES
  SerialImplementsPolicy
  LockEnds
