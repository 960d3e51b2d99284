CONSTANTS
  LogLength = 2
  LogRoom = 3
  MaxRequests = 2
  GraceSteps = 8
  LateCalls = {"runs", "crashes"}
SPECIFICATION Spec
INVARIANTS
  TypeOK
  ClosedLogIsComplete
  NothingUsedAfterFree
PROPERTIES
  ShutdownCompletes
  RequestsAreTaken
