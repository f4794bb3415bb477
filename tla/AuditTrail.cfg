SPECIFICATION PSpec
CONSTANTS
  Entity = {e1, e2}
  Request = {r1, r2}
  MaxWrites = 3
  MaxRecords = 3
  MaxClock = 1
  Limit = 1
INVARIANTS
  TypeOK
  RecordsAreTrue
  TimestampsFollowChanges
  SerialOldIsPrevious
  AnsweredWritesHold
  LogFindsRecords
  WalkIsExact
PROPERTY
  TrailIsAppendOnly
SYMMETRY Symmetry
