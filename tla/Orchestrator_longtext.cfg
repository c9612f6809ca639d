\* Texts longer than one subtitle, nothing fails.  The task may stop: no deadlock check.
SPECIFICATION Spec
CONSTANTS
  hello = hello
  ok = ok
  bye = bye
  Words <- MCWords
  TinyWords <- MCTiny
  MaxRuns = 1
  DedupWindow = 2
  FailureThreshold = 2
  OpenTime = 1
  Utterances <- ManyUtterances
  SttAnswers = {"final", "partial"}
  MtAnswers = {"ok"}
  TtsAnswers = {"ok", "auth", "err"}
  RecorderAnswers = {"ok"}
  Cadences = {FALSE, TRUE}
  Controls = {}
  WindowCap = 2
  MaxWindows = 4
  ProviderIsLocal = TRUE
  LocalIsFatal = FALSE
  HasVad = TRUE
  EarlyFlush = TRUE
  HasJudge = TRUE
  TtsActive = FALSE
INVARIANTS
  KeysFollowTheirWords
CHECK_DEADLOCK FALSE
