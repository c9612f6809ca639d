\* Two pipelines, one swap of the device.  Tasks may stop: no deadlock check.
SPECIFICATION Spec
CONSTANTS
  watcher = watcher
  a = a
  b = b
  Callers <- MCCallers
  NoCaller = none
  UpstreamCap = 1
  DownstreamCap = 1
  ArchiveMayFail = FALSE
  MaxStreams = 2
  MaxChunks = 2
  Slots <- MCSlots
  SlotCap = 1
INVARIANTS
  SlotAccounted
PROPERTIES
  PipelinesHearInOrder
CHECK_DEADLOCK FALSE
