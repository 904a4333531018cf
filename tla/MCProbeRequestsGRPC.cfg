\* The grpc prober, whose health check has no deadline.
CONSTANTS
  Slots = {r1}
  Requests <- AskGRPC
  Config <- GRPC
  Default = 3
  Offset = 1
  Absent = Absent
  Bad = Bad
  LastArrival = 1
  MaxTime = 4
  MaxRequests = 1
SPECIFICATION Spec
INVARIANTS InTime
CHECK_DEADLOCK FALSE
