\* Three runs of the program, two at a time, each killed at any step.
\* Runs end: no deadlock check.
SPECIFICATION ArchiveSpec
CONSTANTS
  WavHeader = 1
  MaxSize = 3
  TotalCap = 7
  Lengths <- MCLengths
  MaxRuns = 3
  MaxRunning = 2
INVARIANTS
  WavIsReadable
  ArchiveHasNoHole
  OldestMakeRoom
CHECK_DEADLOCK FALSE
