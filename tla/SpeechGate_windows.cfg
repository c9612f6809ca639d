\* Five chunks of two durations, a pause and its end at any moment, three configurations.
\* The loop ends: no deadlock check.
SPECIFICATION GateSpec
CONSTANTS
  Configs <- MCConfigs
  Durations = {1, 3}
  MaxChunks = 5
  MaxPauses = 2
INVARIANTS
  SpeechIsKept
  OnlySpeechIsSent
  WindowIsOneUtterance
CHECK_DEADLOCK FALSE
