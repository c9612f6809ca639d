\* Three texts, two operations on the switch from two threads, a microphone that comes
\* and goes.  The program may end at any moment: no deadlock check.
SPECIFICATION FairSpec
CONSTANTS
  Routes = {"rodio", "vmic", "plain"}
  MaxTexts = 3
  MaxSwitches = 2
  MaxEvents = 2
INVARIANTS
  SpokenInOrder
  FlagTellsTheTruth
PROPERTIES
  OffFallsSilent
  LossIsNoticed
  JoinEnds
CHECK_DEADLOCK FALSE
