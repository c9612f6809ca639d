\* Four short or long segments, three sessions, every disk failure.
\* The recorder ends: no deadlock check.
SPECIFICATION FairSpec
CONSTANTS
  QueueCap = 2
  Sizes = {1, 3}
  HeaderSize = 2
  Cap = 5
  MaxSessions = 3
  MaxSegments = 4
INVARIANTS
  LossIsReported
  SegmentsInTheirSession
  OnlyTheLastLineIsTorn
  FilesWithinCap
PROPERTIES
  CallsReturn
CHECK_DEADLOCK FALSE
