\* Every failure of every provider and the recorder, in a short conversation with tiny texts,
\* long texts and interim results, with chunks closer together and further apart than the
\* 50 ms timer.  The task may stop: no deadlock check.
SPECIFICATION FairSpec
CONSTANTS
  hello = hello
  ok = ok
  bye = bye
  Words <- MCWords
  TinyWords <- MCTiny
  MaxRuns = 1
  DedupWindow = 2
  FailureThreshold = 2
  OpenTime = 1
  Utterances <- PairUtterances
  SttAnswers = {"final", "partial", "empty", "auth", "local", "err"}
  MtAnswers = {"ok", "auth", "err"}
  TtsAnswers = {"ok", "auth", "err"}
  RecorderAnswers = {"err"}
  Cadences = {FALSE, TRUE}
  Controls = {"pause", "tts"}
  WindowCap = 1
  MaxWindows = 2
  ProviderIsLocal = FALSE
  LocalIsFatal = TRUE
  HasVad = TRUE
  EarlyFlush = TRUE
  HasJudge = TRUE
  TtsActive = TRUE
INVARIANTS
  NoWordVanishes
  ShownInSpokenOrder
  TranscriptFollowsPane
  ShutdownDrains
PROPERTIES
  HaltStopsRequests
  ShutdownEnds
  HeldTextIsFlushed
CHECK_DEADLOCK FALSE
