CONSTANTS
  HeadersBufferSize = 7
  HeaderMax = 2
  SkipBuffer = 1
  FileSize = 3
  IoBufSize = 2
  Entries = 1
  Setups <- MCSetups
SPECIFICATION FairSpec
CHECK_DEADLOCK FALSE
INVARIANTS RequestBoundary BodyInOrder ResponseFramed ClosedAsAnnounced
PROPERTIES RequestAnswered ConnectionEnds
