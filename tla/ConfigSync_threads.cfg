\* Two edits of the file and two operations of the user, in any interleaving.
\* At rest nothing is left to do: no deadlock check.
SPECIFICATION Spec
CONSTANTS
  Langs = {"vi", "ja"}
  Devices = {"mic", "line"}
  Providers = {"google", "local"}
  Gains = {0, 1}
  Boot <- MCBoot
  Edits <- MCEdits
  Settings <- MCSettings
  Bad = Bad
  Keys = {"save", "reload", "lang", "gain", "model"}
  MaxEdits = 2
  MaxKeys = 2
INVARIANTS
  FileIsApplied
  ViewsAgree
  RestartIsFlagged
CHECK_DEADLOCK FALSE
