CONSTANTS
  Calls <- SdkCalls
  Submissions <- SomeForms
  Segments <- AllSegments
  Allowed <- AllowedSegments
  ServiceToken = "service"
  MaxSize = 2
  MaxInt32 = 3
  MaxInt = 7
  MaxRequests = 2
SPECIFICATION Spec
INVARIANTS Inv RegisteredAsDescribed PathsDoNotCollide
  NothingNilIsDereferenced PartIsTheOneAsked
CHECK_DEADLOCK FALSE
