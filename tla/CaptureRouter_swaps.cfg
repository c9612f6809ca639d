\* Two threads swap devices while chunks flow, one fails, the pipeline goes away.
\* The task may stop: no deadlock check.
SPECIFICATION FairSpec
CONSTANTS
  watcher = watcher
  settings = settings
  Callers <- TwoCallers
  NoCaller = none
  UpstreamCap = 2
  DownstreamCap = 2
  ArchiveMayFail = TRUE
  MaxStreams = 2
  MaxChunks = 2
INVARIANTS
  FeedInOrder
  ArchiveHasNoHoles
  NewestStreamIsCurrent
PROPERTIES
  SwapIsAnswered
CHECK_DEADLOCK FALSE
