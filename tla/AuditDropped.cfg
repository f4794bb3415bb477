SPECIFICATION PSpec
CONSTANTS
  Entity = {e1}
  Request = {r1}
  MaxWrites = 2
  MaxRecords = 2
  MaxClock = 1
  Limit = 1
INVARIANTS
  WritesAreRecorded
