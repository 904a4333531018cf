\* Two connections, one request each, one reload.
CONSTANTS
  Slots = {r1, r2}
  Requests <- Asked
  Config <- TwoVersions
  Default = 4
  Offset = 2
  Absent = Absent
  Bad = Bad
  LastArrival = 2
  MaxTime = 5
  MaxRequests = 2
SPECIFICATION FairSpec
INVARIANTS TypeOK AsConfigured InTime RecordedOnce
PROPERTIES EveryRequestAnswered
CHECK_DEADLOCK FALSE
