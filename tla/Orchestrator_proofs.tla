------------------------ MODULE Orchestrator_proofs ------------------------
(***************************************************************************)
(* Theorems about Orchestrator, for every value of its constants: first    *)
(* the control state, into whose texts no step looks, then the words, from *)
(* the operators of Segmentation and SentenceAggregator up to the account  *)
(* of every word heard.                                                    *)
(***************************************************************************)
EXTENDS Orchestrator, TLAPS, WellFoundedInduction, FiniteSetTheorems

LEMMA ConstantTypes ==
  /\ Cadences \subseteq BOOLEAN /\ WindowCap \in Nat
  /\ FailureThreshold \in Nat \ {0} /\ OpenTime \in Nat \ {0}
  BY OrchestratorAssumption, CircuitBreakerAssumption
     DEF OrchestratorAssumption, CircuitBreakerAssumption

\* Whatever happens to a circuit breaker, it is one afterwards.
LEMMA BreakerUpdates ==
  ASSUME NEW b \in Breaker
  PROVE  /\ Asked(b, 0) \in Breaker /\ Succeeded(b) \in Breaker /\ Failed(b, 0) \in Breaker
         /\ [b EXCEPT !.openUntil = 0] \in Breaker /\ ClosedBreaker \in Breaker
  BY ConstantTypes DEF Breaker, Asked, Succeeded, Failed, IsOpen, ClosedBreaker

-----------------------------------------------------------------------------
(* Type correctness of the control state, part by part.                    *)

\* Flags stay Boolean.
LEMMA FlagsStep == FlagsOK /\ [Next]_vars => FlagsOK'
<1> SUFFICES ASSUME FlagsOK, [Next]_vars PROVE FlagsOK'
  OBVIOUS
<1> USE DEF FlagsOK
<1>1. CASE Receive
  BY ConstantTypes, <1>1 DEF Receive, RecvClosed, RecvIgnored, RecvSilence,
              RecvEndOfUtterance, RecvSpeech, uiVars, envVars, outVars, statusVars
<1>2. CASE Sleep
  BY ConstantTypes, <1>2 DEF Sleep, uiVars, envVars, outVars, statusVars
<1>3. CASE SttAnswer
  <2>1. ASSUME NEW utterance \in Utterances, SttFinal(utterance) PROVE FlagsOK'
    BY ConstantTypes, <2>1 DEF SttFinal, uiVars, envVars, outVars, statusVars
  <2>2. CASE SttEmpty \/ SttPartial \/ SttAuth \/ SttLocalUnavailable \/ SttError
    BY ConstantTypes, <2>2 DEF SttEmpty, SttPartial, SttAuth, SttLocalUnavailable, SttError,
              uiVars, envVars, outVars, statusVars
  <2>3. QED
    BY <1>3, <2>1, <2>2 DEF SttAnswer
<1>4. CASE MtAnswer
  BY ConstantTypes, <1>4 DEF MtAnswer, MtOk, MtAuth, MtError, ListenAgain, GiveUp, uiVars,
              envVars, outVars, statusVars
<1>5. CASE TtsAnswer
  BY ConstantTypes, <1>5 DEF TtsAnswer, TtsOk, TtsAuth, TtsError, NextVoice, uiVars,
              envVars, outVars, statusVars
<1>6. CASE Proceed
  BY ZenonT(60), ConstantTypes, <1>6 DEF Proceed, Top, FlushNothing, FlushWindow, PushPiece, Aggregated,
              CommitHalted, Translate, Speak, Voice, Finish, AgedNothing, AgedFlush, Drain,
              DrainHeld, Close, GiveUp, ListenAgain, CommitHeld, uiVars, envVars, outVars,
              statusVars
<1>7. CASE Outside
  BY ZenonT(60), ConstantTypes, <1>7 DEF Outside, TogglePause, ToggleTts, RequestShutdown, Abort,
              CloseChannel, ChangeCadence, CircuitElapses, TaskVars, uiVars, envVars,
              outVars, statusVars
<1>8. CASE UNCHANGED vars
  BY <1>8 DEF vars, uiVars, envVars, outVars, statusVars
<1>9. QED
  BY <1>1, <1>2, <1>3, <1>4, <1>5, <1>6, <1>7, <1>8 DEF Next

\* The task is always at one of its places.
LEMMA PlaceStep == PlaceOK /\ [Next]_vars => PlaceOK'
<1> SUFFICES ASSUME PlaceOK, [Next]_vars PROVE PlaceOK'
  OBVIOUS
<1> USE DEF PlaceOK, Locations, Awaits
<1>1. CASE Receive
  BY <1>1 DEF Receive, RecvClosed, RecvIgnored, RecvSilence, RecvEndOfUtterance, RecvSpeech
<1>2. CASE Sleep
  BY <1>2 DEF Sleep
<1>3. CASE SttAnswer
  BY <1>3 DEF SttAnswer, SttEmpty, SttPartial, SttAuth, SttLocalUnavailable, SttError,
              SttFinal
<1>4. CASE MtAnswer
  BY <1>4 DEF MtAnswer, MtOk, MtAuth, MtError, GiveUp
<1>5. CASE TtsAnswer
  BY <1>5 DEF TtsAnswer, TtsOk, TtsAuth, TtsError, NextVoice
<1>6. CASE Proceed
  BY <1>6 DEF Proceed, Top, FlushNothing, FlushWindow, PushPiece, Aggregated, CommitHalted,
              Translate, Speak, Voice, Finish, AgedNothing, AgedFlush, Drain, DrainHeld,
              Close, GiveUp, CommitHeld
<1>7. CASE Outside
  BY <1>7 DEF Outside, TogglePause, ToggleTts, RequestShutdown, Abort, CloseChannel,
              ChangeCadence, CircuitElapses, TaskVars
<1>8. CASE UNCHANGED vars
  BY <1>8 DEF vars
<1>9. QED
  BY <1>1, <1>2, <1>3, <1>4, <1>5, <1>6, <1>7, <1>8 DEF Next

\* Counters stay natural numbers.
LEMMA CountersStep == CountersOK /\ [Next]_vars => CountersOK'
<1> SUFFICES ASSUME CountersOK, [Next]_vars PROVE CountersOK'
  OBVIOUS
<1> USE DEF CountersOK
<1>1. CASE Receive
  <2>1. CASE RecvSpeech
    BY ConstantTypes, <2>1 DEF RecvSpeech, windowVars, lossVars
  <2>2. CASE RecvClosed \/ RecvIgnored \/ RecvSilence \/ RecvEndOfUtterance
    BY ConstantTypes, <2>2 DEF RecvClosed, RecvIgnored, RecvSilence, RecvEndOfUtterance,
              windowVars, lossVars
  <2>3. QED
    BY <1>1, <2>1, <2>2 DEF Receive
<1>2. CASE Sleep
  BY ConstantTypes, <1>2 DEF Sleep, windowVars, lossVars
<1>3. CASE SttAnswer
  <2>1. ASSUME NEW utterance \in Utterances, SttFinal(utterance) PROVE CountersOK'
    BY ConstantTypes, <2>1 DEF SttFinal, windowVars, lossVars
  <2>2. CASE SttEmpty \/ SttPartial \/ SttAuth \/ SttLocalUnavailable \/ SttError
    BY ConstantTypes, <2>2 DEF SttEmpty, SttPartial, SttAuth, SttLocalUnavailable, SttError,
              windowVars, lossVars
  <2>3. QED
    BY <1>3, <2>1, <2>2 DEF SttAnswer
<1>4. CASE MtAnswer
  BY ConstantTypes, <1>4 DEF MtAnswer, MtOk, MtAuth, MtError, GiveUp, windowVars, lossVars
<1>5. CASE TtsAnswer
  BY ConstantTypes, <1>5 DEF TtsAnswer, TtsOk, TtsAuth, TtsError, NextVoice, windowVars,
              lossVars
<1>6. CASE Proceed
  BY ConstantTypes, <1>6 DEF Proceed, Top, FlushNothing, FlushWindow, PushPiece, Aggregated,
              CommitHalted, Translate, Speak, Voice, Finish, AgedNothing, AgedFlush, Drain,
              DrainHeld, Close, GiveUp, CommitHeld, windowVars, lossVars
<1>7. CASE Outside
  BY ConstantTypes, <1>7 DEF Outside, TogglePause, ToggleTts, RequestShutdown, Abort,
              CloseChannel, ChangeCadence, CircuitElapses, TaskVars, windowVars, lossVars
<1>8. CASE UNCHANGED vars
  BY <1>8 DEF vars, windowVars, lossVars
<1>9. QED
  BY <1>1, <1>2, <1>3, <1>4, <1>5, <1>6, <1>7, <1>8 DEF Next

\* Every stage has a circuit breaker below its threshold.
LEMMA CircuitsStep == CircuitsOK /\ [Next]_vars => CircuitsOK'
<1> SUFFICES ASSUME CircuitsOK, [Next]_vars PROVE CircuitsOK'
  OBVIOUS
<1> USE DEF CircuitsOK
<1>1. CASE Receive
  BY BreakerUpdates, <1>1 DEF Receive, RecvClosed, RecvIgnored, RecvSilence,
              RecvEndOfUtterance, RecvSpeech, statusVars
<1>2. CASE Sleep
  BY BreakerUpdates, <1>2 DEF Sleep, statusVars
<1>3. CASE SttAnswer
  BY BreakerUpdates, <1>3 DEF SttAnswer, SttEmpty, SttPartial, SttAuth, SttLocalUnavailable,
              SttError, SttFinal, Success, Failure, statusVars
<1>4. CASE MtAnswer
  BY BreakerUpdates, <1>4 DEF MtAnswer, MtOk, MtAuth, MtError, Success, Failure, statusVars
<1>5. CASE TtsAnswer
  BY BreakerUpdates, <1>5 DEF TtsAnswer, TtsOk, TtsAuth, TtsError, NextVoice, Success,
              Failure, statusVars
<1>6. CASE Proceed
  BY BreakerUpdates, <1>6 DEF Proceed, Top, FlushNothing, FlushWindow, PushPiece,
              Aggregated, CommitHalted, Translate, Speak, Voice, Finish, AgedNothing,
              AgedFlush, Drain, DrainHeld, Close, CommitHeld, statusVars
<1>7. CASE Outside
  BY BreakerUpdates, <1>7 DEF Outside, TogglePause, ToggleTts, RequestShutdown, Abort,
              CloseChannel, ChangeCadence, CircuitElapses, TaskVars, statusVars
<1>8. CASE UNCHANGED vars
  BY <1>8 DEF vars, statusVars
<1>9. QED
  BY <1>1, <1>2, <1>3, <1>4, <1>5, <1>6, <1>7, <1>8 DEF Next

\* The statuses are among those the code knows.
LEMMA StatusStep == StatusOK /\ [Next]_vars => StatusOK'
<1> SUFFICES ASSUME StatusOK, [Next]_vars PROVE StatusOK'
  OBVIOUS
<1> USE DEF StatusOK
<1>1. CASE Receive
  BY <1>1 DEF Receive, RecvClosed, RecvIgnored, RecvSilence, RecvEndOfUtterance, RecvSpeech,
              statusVars
<1>2. CASE Sleep
  BY <1>2 DEF Sleep, statusVars
<1>3. CASE SttAnswer
  BY <1>3 DEF SttAnswer, SttEmpty, SttPartial, SttAuth, SttLocalUnavailable, SttError,
              SttFinal, statusVars
<1>4. CASE MtAnswer
  BY <1>4 DEF MtAnswer, MtOk, MtAuth, MtError, ListenAgain, statusVars
<1>5. CASE TtsAnswer
  BY <1>5 DEF TtsAnswer, TtsOk, TtsAuth, TtsError, NextVoice, statusVars
<1>6. CASE Proceed
  BY <1>6 DEF Proceed, Top, FlushNothing, FlushWindow, PushPiece, Aggregated, CommitHalted,
              Translate, Speak, Voice, Finish, AgedNothing, AgedFlush, Drain, DrainHeld,
              Close, ListenAgain, CommitHeld, statusVars
<1>7. CASE Outside
  BY <1>7 DEF Outside, TogglePause, ToggleTts, RequestShutdown, Abort, CloseChannel,
              ChangeCadence, CircuitElapses, TaskVars, statusVars
<1>8. CASE UNCHANGED vars
  BY <1>8 DEF vars, statusVars
<1>9. QED
  BY <1>1, <1>2, <1>3, <1>4, <1>5, <1>6, <1>7, <1>8 DEF Next

\* The control state is right when the task starts.
LEMMA ControlInit == Init => ControlOK
<1> SUFFICES ASSUME Init PROVE ControlOK
  OBVIOUS
<1>1. FlagsOK
  BY ConstantTypes DEF Init, FlagsOK
<1>2. PlaceOK
  BY DEF Init, PlaceOK, Locations, Awaits
<1>3. CountersOK
  BY DEF Init, CountersOK
<1>4. CircuitsOK
  BY ConstantTypes DEF Init, CircuitsOK, ClosedBreaker, Breaker
<1>5. StatusOK
  BY DEF Init, StatusOK
<1> QED
  BY <1>1, <1>2, <1>3, <1>4, <1>5 DEF ControlOK

\* The control state keeps its type.
LEMMA ControlStep == ControlOK /\ [Next]_vars => ControlOK'
  BY FlagsStep, PlaceStep, CountersStep, CircuitsStep, StatusStep DEF ControlOK

-----------------------------------------------------------------------------
(* A halt is final.                                                        *)

\* Wherever a request to STT or MT is made or awaited, the pipeline is not
\* halted.  A commit looks at the flag; the MT loop of a window does not, and
\* need not, because TTS, the only stage that can halt after it, is called
\* when nothing is left to translate.
HaltInv ==
  /\ pc \in {"stt", "mt"} => ~halted
  /\ mode = "window" /\ pc \in {"aggregate", "translate"} => ~halted
  /\ Speaking => todo = <<>>

\* HaltInv is inductive, given where the task can go after a batch.
LEMMA HaltStep == PlaceOK /\ HaltInv /\ [Next]_vars => HaltInv'
<1> SUFFICES ASSUME PlaceOK, HaltInv, [Next]_vars PROVE HaltInv'
  OBVIOUS
<1> USE DEF HaltInv, Speaking, PlaceOK
<1>1. CASE Receive
  BY <1>1 DEF Receive, RecvClosed, RecvIgnored, RecvSilence, RecvEndOfUtterance, RecvSpeech,
              statusVars, batchVars
<1>2. CASE Sleep
  BY <1>2 DEF Sleep, statusVars, batchVars
<1>3. CASE SttAnswer
  <2>1. ASSUME NEW utterance \in Utterances, SttFinal(utterance) PROVE HaltInv'
    BY <2>1 DEF SttFinal, statusVars, batchVars
  <2>2. CASE SttEmpty \/ SttPartial \/ SttAuth \/ SttLocalUnavailable \/ SttError
    BY <2>2 DEF SttEmpty, SttPartial, SttAuth, SttLocalUnavailable, SttError, statusVars,
              batchVars
  <2>3. QED
    BY <1>3, <2>1, <2>2 DEF SttAnswer
<1>4. CASE MtAnswer
  <2>1. CASE MtOk
    BY <2>1 DEF MtOk, statusVars, batchVars
  <2>2. CASE MtAuth \/ MtError
    BY <2>2 DEF MtAuth, MtError, GiveUp, statusVars, batchVars
  <2>3. QED
    BY <1>4, <2>1, <2>2 DEF MtAnswer
<1>5. CASE TtsAnswer
  BY <1>5 DEF TtsAnswer, TtsOk, TtsAuth, TtsError, NextVoice, statusVars, batchVars
<1>6. CASE Proceed
  BY <1>6 DEF Proceed, Top, FlushNothing, FlushWindow, PushPiece, Aggregated, CommitHalted,
              Translate, Speak, Voice, Finish, AgedNothing, AgedFlush, Drain, DrainHeld,
              Close, GiveUp, CommitHeld, statusVars, batchVars
<1>7. CASE Outside
  BY <1>7 DEF Outside, TogglePause, ToggleTts, RequestShutdown, Abort, CloseChannel,
              ChangeCadence, CircuitElapses, TaskVars, statusVars, batchVars
<1>8. CASE UNCHANGED vars
  BY <1>8 DEF vars, statusVars, batchVars
<1>9. QED
  BY <1>1, <1>2, <1>3, <1>4, <1>5, <1>6, <1>7, <1>8 DEF Next

\* No step of a halted pipeline clears the halt or begins a request.
LEMMA HaltAction == PlaceOK /\ HaltInv /\ [Next]_vars => (halted => halted' /\ ~Begins("stt") /\ ~Begins("mt"))
<1> SUFFICES ASSUME PlaceOK, HaltInv, [Next]_vars PROVE (halted => halted' /\ ~Begins("stt") /\ ~Begins("mt"))
  OBVIOUS
<1> USE DEF HaltInv, Begins, PlaceOK
<1>1. CASE Receive
  BY <1>1 DEF Receive, RecvClosed, RecvIgnored, RecvSilence, RecvEndOfUtterance, RecvSpeech,
              statusVars
<1>2. CASE Sleep
  BY <1>2 DEF Sleep, statusVars
<1>3. CASE SttAnswer
  <2>1. ASSUME NEW utterance \in Utterances, SttFinal(utterance) PROVE (halted => halted' /\ ~Begins("stt") /\ ~Begins("mt"))
    BY <2>1 DEF SttFinal, statusVars
  <2>2. CASE SttEmpty \/ SttPartial \/ SttAuth \/ SttLocalUnavailable \/ SttError
    BY <2>2 DEF SttEmpty, SttPartial, SttAuth, SttLocalUnavailable, SttError, statusVars
  <2>3. QED
    BY <1>3, <2>1, <2>2 DEF SttAnswer
<1>4. CASE MtAnswer
  BY <1>4 DEF MtAnswer, MtOk, MtAuth, MtError, GiveUp, statusVars
<1>5. CASE TtsAnswer
  BY <1>5 DEF TtsAnswer, TtsOk, TtsAuth, TtsError, NextVoice, statusVars
<1>6. CASE Proceed
  BY <1>6 DEF Proceed, Top, FlushNothing, FlushWindow, PushPiece, Aggregated, CommitHalted,
              Translate, Speak, Voice, Finish, AgedNothing, AgedFlush, Drain, DrainHeld,
              Close, GiveUp, CommitHeld, statusVars
<1>7. CASE Outside
  BY <1>7 DEF Outside, TogglePause, ToggleTts, RequestShutdown, Abort, CloseChannel,
              ChangeCadence, CircuitElapses, TaskVars, statusVars
<1>8. CASE UNCHANGED vars
  BY <1>8 DEF vars, statusVars
<1>9. QED
  BY <1>1, <1>2, <1>3, <1>4, <1>5, <1>6, <1>7, <1>8 DEF Next

\* After an authentication failure, or a local model that cannot work, nothing
\* is sent to STT or MT any more.
THEOREM HaltIsFinal == Spec => HaltStopsRequests
<1>1. Init => PlaceOK /\ HaltInv
  BY DEF Init, PlaceOK, Locations, Awaits, HaltInv, Speaking
<1>2. PlaceOK /\ HaltInv /\ [Next]_vars => (PlaceOK /\ HaltInv)'
  BY PlaceStep, HaltStep
<1>3. PlaceOK /\ HaltInv /\ [Next]_vars => [halted => halted' /\ ~Begins("stt") /\ ~Begins("mt")]_vars
  BY HaltAction
<1>4. QED
  BY <1>1, <1>2, <1>3, PTL DEF Spec, HaltStopsRequests

-----------------------------------------------------------------------------
(* The transcript follows the subtitles.                                   *)

\* The pairs shown and the segments recorded stay in step.
LEMMA TranscriptStep == PlaceOK /\ TranscriptFollowsPane /\ [Next]_vars => TranscriptFollowsPane'
<1> SUFFICES ASSUME PlaceOK, TranscriptFollowsPane, [Next]_vars PROVE TranscriptFollowsPane'
  OBVIOUS
<1> USE DEF TranscriptFollowsPane, Speaking, PlaceOK, Locations, Awaits
<1>1. CASE Receive
  BY <1>1 DEF Receive, RecvClosed, RecvIgnored, RecvSilence, RecvEndOfUtterance, RecvSpeech,
              outVars, batchVars
<1>2. CASE Sleep
  BY <1>2 DEF Sleep, outVars, batchVars
<1>3. CASE SttAnswer
  <2>1. ASSUME NEW utterance \in Utterances, SttFinal(utterance) PROVE TranscriptFollowsPane'
    BY <2>1 DEF SttFinal, outVars, batchVars
  <2>2. CASE SttEmpty \/ SttPartial \/ SttAuth \/ SttLocalUnavailable \/ SttError
    BY <2>2 DEF SttEmpty, SttPartial, SttAuth, SttLocalUnavailable, SttError, outVars,
              batchVars
  <2>3. QED
    BY <1>3, <2>1, <2>2 DEF SttAnswer
<1>4. CASE MtAnswer
  <2>1. CASE MtOk
    BY <2>1 DEF MtOk, Record, outVars, batchVars
  <2>2. CASE MtAuth \/ MtError
    BY <2>2 DEF MtAuth, MtError, GiveUp, outVars, batchVars
  <2>3. QED
    BY <1>4, <2>1, <2>2 DEF MtAnswer
<1>5. CASE TtsAnswer
  BY <1>5 DEF TtsAnswer, TtsOk, TtsAuth, TtsError, NextVoice, outVars, batchVars
<1>6. CASE Proceed
  <2>1. CASE Finish
    BY <2>1 DEF Finish, Record, outVars, batchVars
  <2>2. CASE Top \/ FlushNothing \/ FlushWindow \/ PushPiece \/ Aggregated \/ CommitHalted
            \/ Translate \/ Speak \/ Voice \/ AgedNothing \/ AgedFlush \/ Drain \/ DrainHeld
            \/ Close
    BY SMTT(60), <2>2 DEF Top, FlushNothing, FlushWindow, PushPiece, Aggregated, CommitHalted,
              Translate, Speak, Voice, AgedNothing, AgedFlush, Drain, DrainHeld, Close,
              GiveUp, CommitHeld, outVars, batchVars
  <2>3. QED
    BY <1>6, <2>1, <2>2 DEF Proceed
<1>7. CASE Outside
  BY <1>7 DEF Outside, TogglePause, ToggleTts, RequestShutdown, Abort, CloseChannel,
              ChangeCadence, CircuitElapses, TaskVars, outVars, batchVars
<1>8. CASE UNCHANGED vars
  BY <1>8 DEF vars, outVars, batchVars
<1>9. QED
  BY <1>1, <1>2, <1>3, <1>4, <1>5, <1>6, <1>7, <1>8 DEF Next

\* The recorder is given exactly the pairs that were shown, in their order; a
\* task cut off at shutdown can leave out the pairs of its last window only.
THEOREM TranscriptFollows == Spec => []TranscriptFollowsPane
<1>1. Init => PlaceOK /\ TranscriptFollowsPane
  BY DEF Init, PlaceOK, Locations, Awaits, TranscriptFollowsPane, Speaking
<1>2. PlaceOK /\ TranscriptFollowsPane /\ [Next]_vars => (PlaceOK /\ TranscriptFollowsPane)'
  BY PlaceStep, TranscriptStep
<1>3. QED
  BY <1>1, <1>2, PTL DEF Spec

-----------------------------------------------------------------------------
(* Nothing is left behind: at rest, and when the task has ended.           *)

\* What each place of the task still has in hand.
BatchInv ==
  pc # "aborted" =>
    /\ pc # "aggregate" => pieces = <<>>
    /\ pc \notin {"voice", "tts"} => voice = <<>>
    /\ pc \notin {"aggregate", "translate", "mt", "speak", "voice", "tts"} => todo = <<>>
    /\ pc \notin {"translate", "mt", "speak", "voice", "tts"} => done = <<>>
    /\ mode = "commit" /\ pc \in {"translate", "mt"} => done = <<>>
    /\ Speaking => todo = <<>>

\* When the STT state is that of a request.
SttStateInv ==
  pc # "aborted" =>
    /\ sttState = "Sending" => pc = "stt" \/ halted
    /\ sttState = "Waiting" => mode = "window" /\ pc \in {"aggregate", "translate", "mt"}

\* Where the task can be once it has left the loop for the final flushes.
Late == {"aggregate", "translate", "mt", "speak", "voice", "tts", "drainHeld", "close",
         "stopped", "aborted"}

\* The final flushes empty the stabilizer first and then the aggregator.
DrainInv ==
  /\ after \in {"drainHeld", "close"} => pc \in Late
  /\ after = "close" => pc # "aggregate"
  /\ pc = "drainHeld" \/ after \in {"drainHeld", "close"} => halted \/ buffer = NoFragment
  /\ pc \in {"close", "stopped"} \/ after = "close" =>
       halted \/ (buffer = NoFragment /\ held = NoSegment)

\* BatchInv is inductive.
LEMMA BatchStep == PlaceOK /\ BatchInv /\ [Next]_vars => BatchInv'
<1> SUFFICES ASSUME PlaceOK, BatchInv, [Next]_vars PROVE BatchInv'
  OBVIOUS
<1> USE DEF BatchInv, Speaking, PlaceOK, Locations, Awaits
<1>1. CASE Receive
  BY <1>1 DEF Receive, RecvClosed, RecvIgnored, RecvSilence, RecvEndOfUtterance, RecvSpeech,
              batchVars
<1>2. CASE Sleep
  BY <1>2 DEF Sleep, batchVars
<1>3. CASE SttAnswer
  <2>1. ASSUME NEW utterance \in Utterances, SttFinal(utterance) PROVE BatchInv'
    BY <2>1 DEF SttFinal, batchVars
  <2>2. CASE SttEmpty \/ SttPartial \/ SttAuth \/ SttLocalUnavailable \/ SttError
    BY <2>2 DEF SttEmpty, SttPartial, SttAuth, SttLocalUnavailable, SttError, batchVars
  <2>3. QED
    BY <1>3, <2>1, <2>2 DEF SttAnswer
<1>4. CASE MtAnswer
  <2>1. CASE MtOk
    BY <2>1 DEF MtOk, batchVars
  <2>2. CASE MtAuth \/ MtError
    BY <2>2 DEF MtAuth, MtError, GiveUp, batchVars
  <2>3. QED
    BY <1>4, <2>1, <2>2 DEF MtAnswer
<1>5. CASE TtsAnswer
  BY <1>5 DEF TtsAnswer, TtsOk, TtsAuth, TtsError, NextVoice, batchVars
<1>6. CASE Proceed
  BY <1>6 DEF Proceed, Top, FlushNothing, FlushWindow, PushPiece, Aggregated, CommitHalted,
              Translate, Speak, Voice, Finish, AgedNothing, AgedFlush, Drain, DrainHeld,
              Close, GiveUp, CommitHeld, batchVars
<1>7. CASE Outside
  BY <1>7 DEF Outside, TogglePause, ToggleTts, RequestShutdown, Abort, CloseChannel,
              ChangeCadence, CircuitElapses, TaskVars, batchVars
<1>8. CASE UNCHANGED vars
  BY <1>8 DEF vars, batchVars
<1>9. QED
  BY <1>1, <1>2, <1>3, <1>4, <1>5, <1>6, <1>7, <1>8 DEF Next

\* SttStateInv is inductive.
LEMMA SttStateStep == PlaceOK /\ SttStateInv /\ [Next]_vars => SttStateInv'
<1> SUFFICES ASSUME PlaceOK, SttStateInv, [Next]_vars PROVE SttStateInv'
  OBVIOUS
<1> USE DEF SttStateInv, PlaceOK, Locations, Awaits
<1>1. CASE Receive
  BY <1>1 DEF Receive, RecvClosed, RecvIgnored, RecvSilence, RecvEndOfUtterance, RecvSpeech,
              statusVars
<1>2. CASE Sleep
  BY <1>2 DEF Sleep, statusVars
<1>3. CASE SttAnswer
  <2>1. ASSUME NEW utterance \in Utterances, SttFinal(utterance) PROVE SttStateInv'
    BY <2>1 DEF SttFinal, statusVars
  <2>2. CASE SttEmpty \/ SttPartial \/ SttAuth \/ SttLocalUnavailable \/ SttError
    BY <2>2 DEF SttEmpty, SttPartial, SttAuth, SttLocalUnavailable, SttError, statusVars
  <2>3. QED
    BY <1>3, <2>1, <2>2 DEF SttAnswer
<1>4. CASE MtAnswer
  <2>1. CASE MtOk
    BY <2>1 DEF MtOk, ListenAgain, statusVars
  <2>2. CASE MtAuth \/ MtError
    BY <2>2 DEF MtAuth, MtError, ListenAgain, GiveUp, statusVars
  <2>3. QED
    BY <1>4, <2>1, <2>2 DEF MtAnswer
<1>5. CASE TtsAnswer
  BY <1>5 DEF TtsAnswer, TtsOk, TtsAuth, TtsError, NextVoice, statusVars
<1>6. CASE Proceed
  BY <1>6 DEF Proceed, Top, FlushNothing, FlushWindow, PushPiece, Aggregated, CommitHalted,
              Translate, Speak, Voice, Finish, AgedNothing, AgedFlush, Drain, DrainHeld,
              Close, GiveUp, ListenAgain, CommitHeld, statusVars
<1>7. CASE Outside
  BY <1>7 DEF Outside, TogglePause, ToggleTts, RequestShutdown, Abort, CloseChannel,
              ChangeCadence, CircuitElapses, TaskVars, statusVars
<1>8. CASE UNCHANGED vars
  BY <1>8 DEF vars, statusVars
<1>9. QED
  BY <1>1, <1>2, <1>3, <1>4, <1>5, <1>6, <1>7, <1>8 DEF Next

\* DrainInv is inductive.
LEMMA DrainStep == PlaceOK /\ DrainInv /\ [Next]_vars => DrainInv'
<1> SUFFICES ASSUME PlaceOK, DrainInv, [Next]_vars PROVE DrainInv'
  OBVIOUS
<1> USE DEF DrainInv, Late, PlaceOK, Locations, Awaits
<1>1. CASE Receive
  BY <1>1 DEF Receive, RecvClosed, RecvIgnored, RecvSilence, RecvEndOfUtterance, RecvSpeech,
              statusVars, textVars
<1>2. CASE Sleep
  BY <1>2 DEF Sleep, statusVars, textVars
<1>3. CASE SttAnswer
  <2>1. ASSUME NEW utterance \in Utterances, SttFinal(utterance) PROVE DrainInv'
    BY <2>1 DEF SttFinal, statusVars, textVars
  <2>2. CASE SttEmpty \/ SttPartial \/ SttAuth \/ SttLocalUnavailable \/ SttError
    BY <2>2 DEF SttEmpty, SttPartial, SttAuth, SttLocalUnavailable, SttError, statusVars,
              textVars
  <2>3. QED
    BY <1>3, <2>1, <2>2 DEF SttAnswer
<1>4. CASE MtAnswer
  <2>1. CASE MtOk
    BY <2>1 DEF MtOk, statusVars, textVars
  <2>2. CASE MtAuth \/ MtError
    BY <2>2 DEF MtAuth, MtError, GiveUp, statusVars, textVars
  <2>3. QED
    BY <1>4, <2>1, <2>2 DEF MtAnswer
<1>5. CASE TtsAnswer
  BY <1>5 DEF TtsAnswer, TtsOk, TtsAuth, TtsError, NextVoice, statusVars, textVars
<1>6. CASE Proceed
  BY <1>6 DEF Proceed, Top, FlushNothing, FlushWindow, PushPiece, Aggregated, CommitHalted,
              Translate, Speak, Voice, Finish, AgedNothing, AgedFlush, Drain, DrainHeld,
              Close, GiveUp, CommitHeld, statusVars, textVars
<1>7. CASE Outside
  BY <1>7 DEF Outside, TogglePause, ToggleTts, RequestShutdown, Abort, CloseChannel,
              ChangeCadence, CircuitElapses, TaskVars, statusVars, textVars
<1>8. CASE UNCHANGED vars
  BY <1>8 DEF vars, statusVars, textVars
<1>9. QED
  BY <1>1, <1>2, <1>3, <1>4, <1>5, <1>6, <1>7, <1>8 DEF Next

\* When the task waits for audio, no segment is unfinished and the STT state is
\* not that of a request, unless that request halted the pipeline.
THEOREM RestClean == Spec => []RestIsClean
<1>1. Init => PlaceOK /\ BatchInv /\ SttStateInv
  BY DEF Init, PlaceOK, Locations, Awaits, BatchInv, SttStateInv, Speaking
<1>2. PlaceOK /\ BatchInv /\ SttStateInv /\ [Next]_vars => (PlaceOK /\ BatchInv /\ SttStateInv)'
  BY PlaceStep, BatchStep, SttStateStep
<1>3. BatchInv /\ SttStateInv => RestIsClean
  BY DEF BatchInv, SttStateInv, RestIsClean
<1>4. QED
  BY <1>1, <1>2, <1>3, PTL DEF Spec

\* A task that ends by itself without being halted has nothing left in the
\* stabilizer, the aggregator or the batch.
THEOREM ShutdownDrained == Spec => []ShutdownDrains
<1>1. Init => PlaceOK /\ BatchInv /\ DrainInv
  BY DEF Init, PlaceOK, Locations, Awaits, BatchInv, DrainInv, Late, Speaking
<1>2. PlaceOK /\ BatchInv /\ DrainInv /\ [Next]_vars => (PlaceOK /\ BatchInv /\ DrainInv)'
  BY PlaceStep, BatchStep, DrainStep
<1>3. BatchInv /\ DrainInv => ShutdownDrains
  BY DEF BatchInv, DrainInv, ShutdownDrains
<1>4. QED
  BY <1>1, <1>2, <1>3, PTL DEF Spec


-----------------------------------------------------------------------------
(* Induction over the length of a text: a nonempty set of numbers has a     *)
(* least member, so a set that holds 0 and, with a number, the next one,    *)
(* holds them all.                                                          *)

Below == {ss \in Nat \X Nat : ss[1] < ss[2]}

\* A nonempty set of numbers has a least member.
LEMMA Least ==
  ASSUME NEW T, T \subseteq Nat, T # {}
  PROVE  \E n \in T : \A m \in T : n <= m
<1>1. IsWellFoundedOn(Below, Nat)
  BY NatLessThanWellFounded DEF OpToRel, Below
<1>2. PICK x \in T : \A y \in T : ~ (<<y, x>> \in Below)
  BY <1>1, WFMin
<1>3. ASSUME NEW y \in T PROVE x <= y
  <2>1. ~(y < x)
    BY <1>2, <1>3 DEF Below
  <2> QED BY <2>1
<1> QED BY <1>3

\* Induction up to a bound, as a fact about a set of numbers.
LEMMA Induct ==
  ASSUME NEW T, 0 \in T, \A n \in Nat : n \in T => n + 1 \in T
  PROVE  \A n \in Nat : n \in T
<1> SUFFICES ASSUME NEW m \in Nat, m \notin T PROVE FALSE
  OBVIOUS
<1> DEFINE U == {n \in Nat : n \notin T}
<1>1. U # {} /\ U \subseteq Nat
  OBVIOUS
<1>2. PICK n \in U : \A k \in U : n <= k
  BY <1>1, Least
<1>3. n # 0 /\ n - 1 \in Nat
  OBVIOUS
<1>4. n - 1 \in T
  BY <1>2, <1>3
<1>5. (n - 1) + 1 \in T
  BY <1>3, <1>4
<1> QED BY <1>5, <1>3

\* The functions that start with v and whose i-th value comes from the one
\* before by the i-th step.
Traces(V, v, n, step) ==
  {f \in [0 .. n -> V] : f[0] = v /\ \A i \in 1 .. n : f[i] = step[i][f[i - 1]]}

\* A function defined by what it is at the place before exists.
LEMMA Recursion ==
  ASSUME NEW V, NEW v \in V, NEW n \in Nat, NEW step \in [1 .. n -> [V -> V]]
  PROVE  Traces(V, v, n, step) # {}
<1> SUFFICES \E f \in [0 .. n -> V] : f[0] = v /\ \A i \in 1 .. n : f[i] = step[i][f[i - 1]]
  BY DEF Traces
<1> DEFINE Good(m, f) == f[0] = v /\ \A i \in 1 .. m : f[i] = step[i][f[i - 1]]
           T == {m \in Nat : m <= n => \E f \in [0 .. m -> V] : Good(m, f)}
<1>1. 0 \in T
  <2> DEFINE f == [i \in 0 .. 0 |-> v]
  <2>1. f \in [0 .. 0 -> V] /\ Good(0, f)
    OBVIOUS
  <2> QED BY <2>1
<1>2. ASSUME NEW m \in Nat, m \in T PROVE m + 1 \in T
  <2> SUFFICES ASSUME m + 1 <= n PROVE \E f \in [0 .. m + 1 -> V] : Good(m + 1, f)
    OBVIOUS
  <2>1. PICK g \in [0 .. m -> V] : Good(m, g)
    BY <1>2
  <2> DEFINE f == [i \in 0 .. m + 1 |-> IF i = m + 1 THEN step[m + 1][g[m]] ELSE g[i]]
  <2>2. step[m + 1] \in [V -> V] /\ g[m] \in V
    OBVIOUS
  <2>3. f \in [0 .. m + 1 -> V]
    BY <2>2
  <2>4. f[0] = v
    BY <2>1
  <2>5. ASSUME NEW i \in 1 .. m + 1 PROVE f[i] = step[i][f[i - 1]]
    <3>1. CASE i = m + 1
      BY <3>1
    <3>2. CASE i # m + 1
      <4>1. i \in 1 .. m /\ i - 1 \in 0 .. m /\ i - 1 # m + 1
        BY <3>2
      <4>2. f[i] = g[i] /\ f[i - 1] = g[i - 1]
        BY <4>1
      <4> QED BY <2>1, <4>1, <4>2
    <3> QED BY <3>1, <3>2
  <2> QED BY <2>3, <2>4, <2>5
<1> HIDE DEF T
<1>3. \A m \in Nat : m \in T
  BY <1>1, <1>2, Induct
<1> QED BY <1>3 DEF T

-----------------------------------------------------------------------------
(* Joining the texts of segments.                                          *)

\* Sequences of sequences, for the provers.
LEMMA Nested ==
  ASSUME NEW R, NEW s \in Seq(Seq(R))
  PROVE  /\ Len(s) \in Nat /\ DOMAIN s = 1 .. Len(s)
         /\ \A i \in 1 .. Len(s) : s[i] \in Seq(R) /\ i - 1 \in 0 .. Len(s)
         /\ \A t \in Seq(R) : <<>> \o t = t /\ t \o <<>> = t
  OBVIOUS

\* What a sequence of texts joins to, after each of them.
Joins(R, s) ==
  {f \in [0 .. Len(s) -> Seq(R)] : f[0] = <<>> /\ \A i \in 1 .. Len(s) : f[i] = f[i - 1] \o s[i]}

\* FlattenSeq is the last of them.
LEMMA FlatIs ==
  ASSUME NEW R, NEW s \in Seq(Seq(R)), NEW f \in Joins(R, s)
  PROVE  FlattenSeq(s) = f[Len(s)]
<1> USE DEF Joins
<1> DEFINE N == Len(s)
           Flat(g) == [i \in 1 .. N |-> IF i = 1 THEN s[i] ELSE g[i - 1] \o s[i]]
<1>1. CASE N = 0
  <2>1. s = <<>>
    BY <1>1
  <2> QED BY <1>1, <2>1 DEF FlattenSeq
<1>2. CASE N # 0
  <2> DEFINE flat == CHOOSE g : g = Flat(g)
             h == [i \in 1 .. N |-> f[i]]
  <2>1. FlattenSeq(s) = flat[N]
    BY <1>2 DEF FlattenSeq
  <2>2. N \in Nat /\ \A i \in 1 .. N : s[i] \in Seq(R) /\ i - 1 \in 0 .. N /\ f[i] = f[i - 1] \o s[i]
    BY Nested
  <2>3. <<>> \in Seq(R) /\ \A t \in Seq(R) : <<>> \o t = t
    BY Nested
  <2> HIDE DEF N
  <2>4. h = Flat(h)
    <3>1. ASSUME NEW i \in 1 .. N PROVE h[i] = IF i = 1 THEN s[i] ELSE h[i - 1] \o s[i]
      <4>1. h[i] = f[i]
        OBVIOUS
      <4>2. CASE i = 1
        <5>1. f[i] = <<>> \o s[i]
          <6>1. i - 1 = 0
            BY <4>2
          <6>2. f[i - 1] = <<>>
            BY <6>1
          <6> QED BY <2>2, <6>2
        <5> QED BY <4>1, <4>2, <5>1, <2>2, <2>3
      <4>3. CASE i # 1
        <5>1. i - 1 \in 1 .. N
          BY <2>2, <4>3
        <5>2. h[i - 1] = f[i - 1]
          BY <5>1
        <5> QED BY <2>2, <4>1, <4>3, <5>2
      <4> QED BY <4>2, <4>3
    <3>2. h = [i \in 1 .. N |-> h[i]]
      OBVIOUS
    <3> HIDE DEF h
    <3> QED BY <3>1, <3>2
  <2>5. flat = Flat(flat)
    <3> HIDE DEF h, Flat
    <3> QED BY <2>4
  <2> HIDE DEF flat
  <2>6. \A i \in 1 .. N : flat[i] = IF i = 1 THEN s[i] ELSE flat[i - 1] \o s[i]
    BY <2>5
  <2> DEFINE g == [i \in 0 .. N |-> IF i = 0 THEN f[0] ELSE flat[i]]
  <2>7. g[0] = f[0]
    BY <2>2
  <2>8. ASSUME NEW i \in 1 .. N, g[i - 1] = f[i - 1] PROVE g[i] = f[i]
    <3>1. g[i] = flat[i]
      BY <2>2
    <3>2. CASE i = 1
      <4>1. flat[i] = s[i]
        BY <3>2, <2>6
      <4>2. f[i] = <<>> \o s[i]
        <5>1. i - 1 = 0
          BY <3>2
        <5>2. f[i - 1] = <<>>
          BY <5>1
        <5> QED BY <2>2, <5>2
      <4> QED BY <2>2, <2>3, <3>1, <4>1, <4>2
    <3>3. CASE i # 1
      <4>1. flat[i] = flat[i - 1] \o s[i]
        BY <3>3, <2>6
      <4>2. g[i - 1] = flat[i - 1]
        BY <2>2, <3>3
      <4> QED BY <2>2, <3>1, <4>1, <4>2, <2>8
    <3> QED BY <3>2, <3>3
  <2> HIDE DEF g
  <2>9. \A i \in 0 .. N : g[i] = f[i]
    <3> DEFINE T == {m \in Nat : m <= N => g[m] = f[m]}
    <3>1. 0 \in T
      BY <2>7
    <3>2. ASSUME NEW m \in Nat, m \in T PROVE m + 1 \in T
      <4> SUFFICES ASSUME m + 1 <= N PROVE g[m + 1] = f[m + 1]
        OBVIOUS
      <4>1. m + 1 \in 1 .. N /\ (m + 1) - 1 = m /\ g[m] = f[m]
        BY <2>2, <3>2
      <4> QED BY <2>8, <4>1
    <3> HIDE DEF T
    <3>3. \A m \in Nat : m \in T
      BY <3>1, <3>2, Induct
    <3> SUFFICES ASSUME NEW i \in 0 .. N PROVE g[i] = f[i]
      OBVIOUS
    <3>4. i \in Nat /\ i <= N
      BY <2>2
    <3>5. i \in T
      BY <3>3, <3>4
    <3> QED BY <3>4, <3>5 DEF T
  <2>10. g[N] = flat[N]
    BY <1>2, <2>2 DEF g
  <2>11. N \in 0 .. N
    BY <2>2
  <2>12. g[N] = f[N]
    BY <2>9, <2>11
  <2> HIDE DEF N
  <2>13. flat[N] = f[N]
    BY <2>10, <2>12
  <2> QED BY <2>1, <2>13 DEF N
<1> QED BY <1>1, <1>2

\* There is such a function for every sequence of texts.
LEMMA FlatSteps ==
  ASSUME NEW R, NEW s \in Seq(Seq(R))
  PROVE  Joins(R, s) # {}
<1> DEFINE N == Len(s)
           V == Seq(R)
           step == [i \in 1 .. N |-> [t \in V |-> t \o s[i]]]
<1>1. N \in Nat /\ <<>> \in V /\ \A i \in 1 .. N : s[i] \in V
  OBVIOUS
<1>2. \A t, u \in V : t \o u \in V
  OBVIOUS
<1> SUFFICES \E f \in [0 .. N -> V] : f[0] = <<>> /\ \A i \in 1 .. N : f[i] = f[i - 1] \o s[i]
  BY DEF Joins
<1> HIDE DEF N, V
<1>3. \A i \in 1 .. N, t \in V : step[i][t] = t \o s[i]
  OBVIOUS
<1>4. step \in [1 .. N -> [V -> V]]
  BY <1>1, <1>2
<1> HIDE DEF step
<1>5. PICK f \in [0 .. N -> V] : f[0] = <<>> /\ \A i \in 1 .. N : f[i] = step[i][f[i - 1]]
  <2>1. Traces(V, <<>>, N, step) # {}
    BY <1>1, <1>4, Recursion
  <2> QED BY <2>1 DEF Traces
<1>6. \A i \in 1 .. N : f[i - 1] \in V
  BY <1>1
<1> QED BY <1>3, <1>5, <1>6

\* It is a text.
LEMMA FlatType ==
  ASSUME NEW R, NEW s \in Seq(Seq(R))
  PROVE  FlattenSeq(s) \in Seq(R)
<1>1. PICK f \in Joins(R, s) : TRUE
  BY FlatSteps
<1>2. f[Len(s)] \in Seq(R)
  <2>1. Len(s) \in Nat
    OBVIOUS
  <2> QED BY <2>1 DEF Joins
<1> QED BY <1>2, FlatIs

\* Joining a sequence of one text, and of none.
LEMMA FlatOne ==
  ASSUME NEW R, NEW t \in Seq(R)
  PROVE  FlattenSeq(<<t>>) = t /\ FlattenSeq(<<>>) = <<>>
<1> DEFINE f == [i \in 0 .. 1 |-> IF i = 0 THEN <<>> ELSE t]
<1>1. <<t>> \in Seq(Seq(R)) /\ Len(<<t>>) = 1 /\ <<t>>[1] = t /\ <<>> \in Seq(R) /\ <<>> \o t = t
  OBVIOUS
<1>2. f \in [0 .. 1 -> Seq(R)] /\ f[0] = <<>> /\ f[1] = t
  BY <1>1
<1> HIDE DEF f
<1>3. \A i \in 1 .. 1 : f[i] = f[i - 1] \o <<t>>[i]
  <2> SUFFICES f[1] = f[1 - 1] \o <<t>>[1]
    OBVIOUS
  <2>1. 1 - 1 = 0
    OBVIOUS
  <2> QED BY <1>1, <1>2, <2>1
<1>4. f \in Joins(R, <<t>>)
  BY <1>1, <1>2, <1>3 DEF Joins
<1>5. FlattenSeq(<<t>>) = t
  BY <1>1, <1>2, <1>4, FlatIs
<1>6. FlattenSeq(<<>>) = <<>>
  BY DEF FlattenSeq
<1> QED BY <1>5, <1>6

\* Joining two sequences of texts, one after the other.
LEMMA FlatConcat ==
  ASSUME NEW R, NEW a \in Seq(Seq(R)), NEW b \in Seq(Seq(R))
  PROVE  FlattenSeq(a \o b) = FlattenSeq(a) \o FlattenSeq(b)
<1> DEFINE M == Len(a)
           N == Len(b)
           V == Seq(R)
<1>1. /\ M \in Nat /\ N \in Nat /\ a \o b \in Seq(V) /\ Len(a \o b) = M + N
      /\ \A i \in 1 .. M : (a \o b)[i] = a[i] /\ a[i] \in V
      /\ \A i \in M + 1 .. M + N : (a \o b)[i] = b[i - M] /\ b[i - M] \in V
  OBVIOUS
<1>2. <<>> \in V /\ \A t, u \in V : t \o u \in V /\ t \o <<>> = t
  OBVIOUS
<1>17. \A t, u, v \in V : (t \o u) \o v = t \o (u \o v)
  OBVIOUS
<1>3. PICK f \in Joins(R, a) : TRUE
  BY FlatSteps
<1>4. PICK g \in Joins(R, b) : TRUE
  BY FlatSteps
<1>5. f \in [0 .. M -> V] /\ f[0] = <<>> /\ \A i \in 1 .. M : f[i] = f[i - 1] \o a[i]
  BY DEF Joins
<1>6. g \in [0 .. N -> V] /\ g[0] = <<>> /\ \A i \in 1 .. N : g[i] = g[i - 1] \o b[i]
  BY DEF Joins
<1>7. FlattenSeq(a) = f[M] /\ FlattenSeq(b) = g[N]
  BY FlatIs
<1> HIDE DEF M, N, V
<1> DEFINE h == [i \in 0 .. M + N |-> IF i <= M THEN f[i] ELSE f[M] \o g[i - M]]
<1>8. \A i \in 0 .. N : g[i] \in V
  BY <1>6
<1>9. \A i \in 0 .. M : f[i] \in V
  BY <1>5
<1>10. h \in [0 .. M + N -> V]
  <2>1. ASSUME NEW i \in 0 .. M + N, ~(i <= M) PROVE f[M] \o g[i - M] \in V
    <3>1. i - M \in 0 .. N /\ M \in 0 .. M
      BY <1>1, <2>1
    <3> QED BY <3>1, <1>2, <1>8, <1>9
  <2>2. ASSUME NEW i \in 0 .. M + N, i <= M PROVE f[i] \in V
    BY <1>1, <1>9, <2>2
  <2> QED BY <2>1, <2>2
<1>11. \A i \in 0 .. N : h[M + i] = f[M] \o g[i]
  <2> SUFFICES ASSUME NEW i \in 0 .. N PROVE h[M + i] = f[M] \o g[i]
    OBVIOUS
  <2>1. M + i \in 0 .. M + N /\ (M + i) - M = i /\ M \in 0 .. M
    BY <1>1
  <2>2. CASE i = 0
    <3>1. h[M + i] = f[M]
      BY <1>1, <2>1, <2>2
    <3> QED BY <3>1, <2>1, <2>2, <1>2, <1>6, <1>9
  <2>3. CASE i # 0
    <3>1. ~(M + i <= M)
      BY <1>1, <2>3
    <3> QED BY <3>1, <2>1
  <2> QED BY <2>2, <2>3
<1>12. \A i \in 0 .. M : h[i] = f[i]
  BY <1>1
<1> HIDE DEF h
<1>13. ASSUME NEW i \in 1 .. M + N PROVE h[i] = h[i - 1] \o (a \o b)[i]
  <2>1. CASE i <= M
    <3>1. i \in 1 .. M /\ i \in 0 .. M /\ i - 1 \in 0 .. M
      BY <1>1, <2>1
    <3> QED BY <3>1, <1>1, <1>5, <1>12
  <2>2. CASE ~(i <= M)
    <3> DEFINE j == i - M
               k == i - 1 - M
    <3>1. /\ j \in 1 .. N /\ j \in 0 .. N /\ k \in 0 .. N /\ M + j = i /\ M + k = i - 1 /\ k = j - 1
          /\ i \in M + 1 .. M + N /\ M \in 0 .. M
      BY <1>1, <2>2
    <3>2. (a \o b)[i] = b[j] /\ b[j] \in V
      BY <3>1, <1>1
    <3> HIDE DEF j, k
    <3>3. h[i] = f[M] \o g[j] /\ h[i - 1] = f[M] \o g[k]
      BY <3>1, <1>11
    <3>4. f[M] \in V /\ g[k] \in V
      BY <3>1, <1>8, <1>9
    <3>5. (f[M] \o g[k]) \o b[j] = f[M] \o (g[k] \o b[j])
      BY <3>2, <3>4, <1>17
    <3>6. g[j] = g[k] \o b[j]
      BY <3>1, <1>6
    <3> QED BY <3>2, <3>3, <3>5, <3>6
  <2> QED BY <2>1, <2>2
<1>14. 0 \in 0 .. M /\ N \in 0 .. N
  BY <1>1
<1>15. h \in Joins(R, a \o b)
  BY <1>1, <1>5, <1>10, <1>12, <1>13, <1>14 DEF Joins, V
<1>16. FlattenSeq(a \o b) = h[M + N]
  BY <1>15, <1>1, FlatIs DEF V
<1> QED BY <1>7, <1>11, <1>14, <1>16

-----------------------------------------------------------------------------
(* The words of a text.                                                    *)

\* Texts can be joined.
LEMMA TextLaws ==
  /\ <<>> \in Texts
  /\ \A t \in Texts : Len(t) \in Nat /\ t \o <<>> = t /\ <<>> \o t = t
  /\ \A t, u \in Texts : t \o u \in Texts /\ Len(t \o u) = Len(t) + Len(u)
  /\ \A t, u, v \in Texts : (t \o u) \o v = t \o (u \o v)
  BY DEF Texts

\* What joins to the text of these segments.
TextsIn(segments) == [i \in 1 .. Len(segments) |-> segments[i].text]

\* The text of a sequence of segments is a text.
LEMMA TextOfType ==
  ASSUME NEW S, \A x \in S : x.text \in Texts, NEW s \in Seq(S)
  PROVE  TextsIn(s) \in Seq(Texts) /\ TextOf(s) = FlattenSeq(TextsIn(s)) /\ TextOf(s) \in Texts
<1>1. TextsIn(s) \in Seq(Texts)
  BY DEF TextsIn
<1>2. TextOf(s) = FlattenSeq(TextsIn(s))
  BY DEF TextOf, TextsIn
<1>3. FlattenSeq(TextsIn(s)) \in Texts
  BY <1>1, FlatType DEF Texts
<1> QED BY <1>1, <1>2, <1>3

\* The text of one segment, and of none.
LEMMA TextOfOne ==
  ASSUME NEW x, x.text \in Texts
  PROVE  TextOf(<<x>>) = x.text /\ TextOf(<<>>) = <<>>
<1>1. TextsIn(<<x>>) = <<x.text>> /\ TextsIn(<<>>) = <<>>
  BY DEF TextsIn
<1>2. TextOf(<<x>>) = FlattenSeq(TextsIn(<<x>>)) /\ TextOf(<<>>) = FlattenSeq(TextsIn(<<>>))
  BY DEF TextOf, TextsIn
<1> QED BY <1>1, <1>2, FlatOne DEF Texts

\* The text of two sequences of segments, one after the other.
LEMMA TextOfConcat ==
  ASSUME NEW S, \A x \in S : x.text \in Texts, NEW a \in Seq(S), NEW b \in Seq(S)
  PROVE  TextOf(a \o b) = TextOf(a) \o TextOf(b)
<1>1. TextsIn(a \o b) = TextsIn(a) \o TextsIn(b)
  BY DEF TextsIn
<1>2. a \o b \in Seq(S)
  OBVIOUS
<1>3. TextOf(a \o b) = FlattenSeq(TextsIn(a \o b))
  BY <1>2, TextOfType
<1>4. /\ TextsIn(a) \in Seq(Seq(Run)) /\ TextOf(a) = FlattenSeq(TextsIn(a))
      /\ TextsIn(b) \in Seq(Seq(Run)) /\ TextOf(b) = FlattenSeq(TextsIn(b))
  BY TextOfType DEF Texts
<1> DEFINE p == TextsIn(a)
           q == TextsIn(b)
<1> HIDE DEF p, q
<1>5. FlattenSeq(p \o q) = FlattenSeq(p) \o FlattenSeq(q)
  BY <1>4, FlatConcat DEF p, q
<1> QED BY <1>1, <1>3, <1>4, <1>5 DEF p, q

\* The first segment and the rest.
LEMMA TextOfHead ==
  ASSUME NEW S, \A x \in S : x.text \in Texts, NEW s \in Seq(S), s # <<>>
  PROVE  /\ Head(s) \in S /\ Tail(s) \in Seq(S)
         /\ TextOf(s) = Head(s).text \o TextOf(Tail(s))
<1>1. /\ Head(s) \in S /\ Tail(s) \in Seq(S) /\ <<Head(s)>> \in Seq(S)
      /\ s = <<Head(s)>> \o Tail(s)
  OBVIOUS
<1>2. TextOf(<<Head(s)>> \o Tail(s)) = TextOf(<<Head(s)>>) \o TextOf(Tail(s))
  BY <1>1, TextOfConcat
<1>3. TextOf(<<Head(s)>>) = Head(s).text
  BY <1>1, TextOfOne
<1> QED BY <1>1, <1>2, <1>3

\* One segment more.
LEMMA TextOfAppend ==
  ASSUME NEW S, \A x \in S : x.text \in Texts, NEW s \in Seq(S), NEW x \in S
  PROVE  Append(s, x) \in Seq(S) /\ TextOf(Append(s, x)) = TextOf(s) \o x.text
<1>1. <<x>> \in Seq(S) /\ Append(s, x) = s \o <<x>> /\ Append(s, x) \in Seq(S)
  OBVIOUS
<1>2. TextOf(s \o <<x>>) = TextOf(s) \o TextOf(<<x>>)
  BY <1>1, TextOfConcat
<1>3. TextOf(<<x>>) = x.text
  BY TextOfOne
<1> QED BY <1>1, <1>2, <1>3

\* The words of two texts, one after the other.
LEMMA RunsOfConcat ==
  ASSUME NEW a \in Texts, NEW b \in Texts
  PROVE  RunsOf(a \o b) = RunsOf(a) \union RunsOf(b)
<1>1. ASSUME NEW r \in RunsOf(a \o b) PROVE r \in RunsOf(a) \union RunsOf(b)
  BY DEF RunsOf, Texts
<1>2. ASSUME NEW r \in RunsOf(a) PROVE r \in RunsOf(a \o b)
  BY DEF RunsOf, Texts
<1>3. ASSUME NEW r \in RunsOf(b) PROVE r \in RunsOf(a \o b)
  <2>1. PICK i \in 1 .. Len(b) : r = b[i]
    BY DEF RunsOf
  <2>2. Len(a) + i \in 1 .. Len(a \o b) /\ (a \o b)[Len(a) + i] = b[i]
    BY DEF Texts
  <2> QED BY <2>1, <2>2 DEF RunsOf
<1> QED BY <1>1, <1>2, <1>3

\* The words of segments are those of their text.
LEMMA RunsInIs ==
  ASSUME NEW S, \A x \in S : x.text \in Texts, NEW s \in Seq(S)
  PROVE  RunsIn(s) = RunsOf(TextOf(s))
<1> DEFINE T == {n \in Nat : \A u \in Seq(S) : Len(u) = n => RunsIn(u) = RunsOf(TextOf(u))}
<1>1. 0 \in T
  <2> SUFFICES ASSUME NEW u \in Seq(S), Len(u) = 0 PROVE RunsIn(u) = RunsOf(TextOf(u))
    OBVIOUS
  <2>1. u = <<>>
    OBVIOUS
  <2>2. TextOf(<<>>) = <<>>
    BY DEF TextOf, FlattenSeq
  <2>3. RunsIn(<<>>) = {} /\ RunsOf(<<>>) = {}
    BY DEF RunsIn, RunsOf
  <2> QED BY <2>1, <2>2, <2>3
<1>2. ASSUME NEW n \in Nat, n \in T PROVE n + 1 \in T
  <2> SUFFICES ASSUME NEW u \in Seq(S), Len(u) = n + 1 PROVE RunsIn(u) = RunsOf(TextOf(u))
    OBVIOUS
  <2>1. u # <<>>
    OBVIOUS
  <2> DEFINE h == Head(u).text
             v == Tail(u)
  <2>2. Head(u) \in S /\ v \in Seq(S) /\ TextOf(u) = h \o TextOf(v) /\ Len(v) = n /\ h \in Texts
    <3>1. Head(u) \in S /\ v \in Seq(S) /\ TextOf(u) = h \o TextOf(v)
      BY <2>1, TextOfHead
    <3>2. Len(Tail(u)) = n
      BY <2>1
    <3> QED BY <3>1, <3>2
  <2>3. RunsIn(v) = RunsOf(TextOf(v)) /\ TextOf(v) \in Texts
    <3>1. TextOf(v) \in Texts
      BY <2>2, TextOfType
    <3>2. RunsIn(v) = RunsOf(TextOf(v))
      BY <1>2, <2>2
    <3> QED BY <3>1, <3>2
  <2>4. RunsIn(u) = RunsOf(h) \union RunsIn(v)
    <3>1. ASSUME NEW r \in RunsIn(u) PROVE r \in RunsOf(h) \union RunsIn(v)
      <4>1. PICK i \in 1 .. n + 1 : r \in RunsOf(u[i].text)
        BY DEF RunsIn
      <4>2. CASE i = 1
        BY <4>1, <4>2
      <4>3. CASE i # 1
        <5>1. i - 1 \in 1 .. Len(v) /\ v[i - 1] = u[i]
          BY <2>2, <4>3
        <5> QED BY <4>1, <5>1 DEF RunsIn
      <4> QED BY <4>2, <4>3
    <3>2. ASSUME NEW r \in RunsOf(h) PROVE r \in RunsIn(u)
      <4>1. 1 \in 1 .. Len(u) /\ u[1] = Head(u)
        OBVIOUS
      <4> QED BY <4>1 DEF RunsIn
    <3>3. ASSUME NEW r \in RunsIn(v) PROVE r \in RunsIn(u)
      <4>1. PICK i \in 1 .. n : r \in RunsOf(v[i].text)
        BY <2>2 DEF RunsIn
      <4>2. i + 1 \in 1 .. Len(u) /\ v[i] = u[i + 1]
        BY <2>2
      <4> QED BY <4>1, <4>2 DEF RunsIn
    <3> QED BY <3>1, <3>2, <3>3
  <2> HIDE DEF h, v
  <2>5. RunsOf(h \o TextOf(v)) = RunsOf(h) \union RunsOf(TextOf(v))
    BY <2>2, <2>3, RunsOfConcat
  <2> QED BY <2>2, <2>3, <2>4, <2>5
<1> HIDE DEF T
<1>3. \A n \in Nat : n \in T
  BY <1>1, <1>2, Induct
<1>4. Len(s) \in Nat
  OBVIOUS
<1> QED BY <1>3, <1>4 DEF T

-----------------------------------------------------------------------------
(* Texts in the order they were heard.                                     *)

Sorted(text) == \A i, j \in 1 .. Len(text) : i < j => Before(text[i], text[j])

\* All of these words come before all of those.
Precede(runs, others) == \A r \in runs, s \in others : Before(r, s)

\* Words are strictly ordered.
LEMMA BeforeStrict ==
  /\ \A r \in Run : ~Before(r, r)
  /\ \A A \in SUBSET Run, B \in SUBSET Run : Precede(A, B) => A \intersect B = {}
<1>1. \A r \in Run : ~Before(r, r)
  BY DEF Before, Run
<1> QED BY <1>1 DEF Precede

\* A text holds runs.
LEMMA RunsOfType ==
  ASSUME NEW t \in Texts
  PROVE  RunsOf(t) \subseteq Run /\ \A i \in 1 .. Len(t) : t[i] \in RunsOf(t)
  BY DEF Texts, RunsOf

\* A text is in order when its two parts are and the first precedes the second.
LEMMA SortedConcat ==
  ASSUME NEW a \in Texts, NEW b \in Texts
  PROVE  Sorted(a \o b) <=> Sorted(a) /\ Sorted(b) /\ Precede(RunsOf(a), RunsOf(b))
<1> DEFINE M == Len(a)
           N == Len(b)
           c == a \o b
<1>1. /\ M \in Nat /\ N \in Nat /\ Len(c) = M + N
      /\ \A i \in 1 .. M : c[i] = a[i]
      /\ \A i \in M + 1 .. M + N : c[i] = b[i - M]
      /\ \A i \in 1 .. N : c[M + i] = b[i]
  BY DEF Texts
<1> HIDE DEF c, M, N
<1>2. ASSUME Sorted(c) PROVE Sorted(a) /\ Sorted(b) /\ Precede(RunsOf(a), RunsOf(b))
  <2>1. \A i, j \in 1 .. M + N : i < j => Before(c[i], c[j])
    BY <1>1, <1>2 DEF Sorted
  <2>2. ASSUME NEW i \in 1 .. M, NEW j \in 1 .. M, i < j PROVE Before(a[i], a[j])
    <3>1. i \in 1 .. M + N /\ j \in 1 .. M + N
      BY <1>1
    <3>2. Before(c[i], c[j])
      BY <2>1, <2>2, <3>1
    <3> QED BY <1>1, <3>2
  <2>3. ASSUME NEW i \in 1 .. N, NEW j \in 1 .. N, i < j PROVE Before(b[i], b[j])
    <3>1. M + i \in 1 .. M + N /\ M + j \in 1 .. M + N /\ M + i < M + j
      BY <1>1, <2>3
    <3>2. Before(c[M + i], c[M + j])
      BY <2>1, <3>1
    <3>3. c[M + i] = b[i] /\ c[M + j] = b[j]
      BY <1>1
    <3> QED BY <3>2, <3>3
  <2>4. ASSUME NEW i \in 1 .. M, NEW j \in 1 .. N PROVE Before(a[i], b[j])
    <3>1. i \in 1 .. M + N /\ M + j \in 1 .. M + N /\ i < M + j
      BY <1>1
    <3>2. Before(c[i], c[M + j])
      BY <2>1, <3>1
    <3>3. c[i] = a[i] /\ c[M + j] = b[j]
      BY <1>1
    <3> QED BY <3>2, <3>3
  <2> QED BY <2>2, <2>3, <2>4 DEF Sorted, Precede, RunsOf, M, N
<1>3. ASSUME Sorted(a), Sorted(b), Precede(RunsOf(a), RunsOf(b)) PROVE Sorted(c)
  <2> SUFFICES ASSUME NEW i \in 1 .. M + N, NEW j \in 1 .. M + N, i < j PROVE Before(c[i], c[j])
    BY <1>1 DEF Sorted
  <2>1. CASE j <= M
    <3>1. i \in 1 .. M /\ j \in 1 .. M
      BY <1>1, <2>1
    <3>2. Before(a[i], a[j])
      BY <1>3, <3>1 DEF Sorted, M
    <3> QED BY <1>1, <3>1, <3>2
  <2>2. CASE i > M
    <3>1. /\ i \in M + 1 .. M + N /\ j \in M + 1 .. M + N
          /\ i - M \in 1 .. N /\ j - M \in 1 .. N /\ i - M < j - M
      BY <1>1, <2>2
    <3>2. Before(b[i - M], b[j - M])
      BY <1>3, <3>1 DEF Sorted, N
    <3>3. c[i] = b[i - M] /\ c[j] = b[j - M]
      BY <1>1, <3>1
    <3> QED BY <3>2, <3>3
  <2>3. CASE i <= M /\ j > M
    <3>1. i \in 1 .. M /\ j \in M + 1 .. M + N /\ j - M \in 1 .. N
      BY <1>1, <2>3
    <3>2. a[i] \in RunsOf(a) /\ b[j - M] \in RunsOf(b)
      BY <3>1 DEF RunsOf, M, N
    <3>3. c[i] = a[i] /\ c[j] = b[j - M]
      BY <1>1, <3>1
    <3> QED BY <1>3, <3>2, <3>3 DEF Precede
  <2> QED BY <1>1, <2>1, <2>2, <2>3
<1> QED BY <1>2, <1>3 DEF c

\* A text in order has as many words as places.
LEMMA SortedCount ==
  ASSUME NEW t \in Texts, Sorted(t)
  PROVE  IsFiniteSet(RunsOf(t)) /\ Cardinality(RunsOf(t)) = Len(t)
<1> DEFINE N == Len(t)
           R == RunsOf(t)
<1>1. N \in Nat /\ t \in [1 .. N -> R] /\ \A i \in 1 .. N : t[i] \in Run
  BY DEF Texts, RunsOf
<1>2. \A i, j \in 1 .. N : i # j => t[i] # t[j]
  <2> SUFFICES ASSUME NEW i \in 1 .. N, NEW j \in 1 .. N, i # j, t[i] = t[j] PROVE FALSE
    OBVIOUS
  <2>1. i < j \/ j < i
    BY <1>1
  <2>2. Before(t[i], t[i])
    BY <2>1 DEF Sorted
  <2> QED BY <1>1, <2>2, BeforeStrict
<1>3. t \in Bijection(1 .. N, R)
  <2>1. t \in Injection(1 .. N, R)
    BY <1>1, <1>2 DEF Injection, IsInjective
  <2>2. t \in Surjection(1 .. N, R)
    BY <1>1 DEF Surjection, RunsOf
  <2> QED BY <2>1, <2>2 DEF Bijection
<1>4. ExistsBijection(1 .. N, R)
  BY <1>3 DEF ExistsBijection
<1>5. IsFiniteSet(1 .. N) /\ Cardinality(1 .. N) = N
  BY <1>1, FS_Interval
<1> QED BY <1>4, <1>5, FS_Bijection

-----------------------------------------------------------------------------
(* Cutting a text in pieces and putting the pieces together.               *)

\* Two texts with the same runs at the same places are the same.
LEMMA SameText ==
  ASSUME NEW t \in Texts, NEW u \in Texts, Len(t) = Len(u), \A i \in 1 .. Len(t) : t[i] = u[i]
  PROVE  t = u
  BY DEF Texts

\* Two adjacent stretches of a text.
LEMMA SubSeqJoin ==
  ASSUME NEW t \in Texts, NEW k \in 0 .. Len(t), NEW m \in 0 .. Len(t), k <= m
  PROVE  /\ SubSeq(t, k + 1, m) \in Texts
         /\ SubSeq(t, 1, k) \o SubSeq(t, k + 1, m) = SubSeq(t, 1, m)
<1> DEFINE p == SubSeq(t, 1, k)
           q == SubSeq(t, k + 1, m)
           r == SubSeq(t, 1, m)
<1>1. p \in Texts /\ Len(p) = k /\ \A i \in 1 .. k : p[i] = t[i]
  BY DEF Texts
<1>2. q \in Texts /\ Len(q) = m - k /\ \A i \in 1 .. m - k : q[i] = t[k + i]
  BY DEF Texts
<1>3. r \in Texts /\ Len(r) = m /\ \A i \in 1 .. m : r[i] = t[i]
  BY DEF Texts
<1> HIDE DEF p, q, r
<1>4. k \in Nat /\ m \in Nat
  BY DEF Texts
<1>5. /\ p \o q \in Texts /\ Len(p \o q) = m
      /\ \A i \in 1 .. m : (p \o q)[i] = IF i <= k THEN p[i] ELSE q[i - k]
  BY <1>1, <1>2, <1>4 DEF Texts
<1>6. ASSUME NEW i \in 1 .. m PROVE (p \o q)[i] = r[i]
  <2>1. CASE i <= k
    BY <1>1, <1>3, <1>4, <1>5, <2>1
  <2>2. CASE ~(i <= k)
    <3>1. i - k \in 1 .. m - k /\ k + (i - k) = i
      BY <1>4, <2>2
    <3> QED BY <1>2, <1>3, <1>5, <2>2, <3>1
  <2> QED BY <2>1, <2>2
<1>7. p \o q = r
  BY <1>3, <1>5, <1>6, SameText
<1> QED BY <1>2, <1>7 DEF p, q, r

\* Where to cut a text in n pieces, and the pieces.
Cuts(t, n) ==
  {c \in [0 .. n -> 0 .. Len(t)] : c[0] = 0 /\ \A i \in 1 .. n : c[i - 1] <= c[i]}
Slice(t, n, c) == [i \in 1 .. n |-> SubSeq(t, c[i - 1] + 1, c[i])]

\* The pieces between cuts join to the text up to the last cut.
LEMMA Slices ==
  ASSUME NEW t \in Texts, NEW n \in Nat, NEW c \in Cuts(t, n)
  PROVE  Slice(t, n, c) \in Seq(Texts) /\ FlattenSeq(Slice(t, n, c)) = SubSeq(t, 1, c[n])
<1> USE DEF Cuts, Slice
<1> DEFINE s == [i \in 1 .. n |-> SubSeq(t, c[i - 1] + 1, c[i])]
           f == [i \in 0 .. n |-> SubSeq(t, 1, c[i])]
<1>1. \A k \in 0 .. Len(t) : SubSeq(t, 1, k) \in Texts
  BY DEF Texts
<1>2. \A k, m \in 0 .. Len(t) : k <= m =>
        /\ SubSeq(t, k + 1, m) \in Texts
        /\ SubSeq(t, 1, k) \o SubSeq(t, k + 1, m) = SubSeq(t, 1, m)
  BY SubSeqJoin
<1>3. \A i \in 1 .. n : i - 1 \in 0 .. n /\ i \in 0 .. n
  OBVIOUS
<1>4. \A i \in 0 .. n : c[i] \in 0 .. Len(t)
  OBVIOUS
<1>5. \A i \in 1 .. n : s[i] = SubSeq(t, c[i - 1] + 1, c[i]) /\ s[i] \in Texts
  BY <1>2, <1>3, <1>4
<1>6. s \in Seq(Texts) /\ Len(s) = n
  BY <1>5
<1>7. \A i \in 0 .. n : f[i] = SubSeq(t, 1, c[i]) /\ f[i] \in Texts
  BY <1>1, <1>4
<1>8. f \in [0 .. n -> Texts]
  BY <1>7
<1>9. f[0] = <<>>
  <2>1. SubSeq(t, 1, 0) = <<>>
    BY DEF Texts
  <2> QED BY <2>1, <1>7
<1> HIDE DEF s, f
<1>10. \A i \in 1 .. n : f[i] = f[i - 1] \o s[i]
  BY <1>2, <1>3, <1>4, <1>5, <1>7
<1>11. f \in Joins(Run, s)
  BY <1>6, <1>8, <1>9, <1>10 DEF Joins, Texts
<1>12. FlattenSeq(s) = f[n]
  BY <1>6, <1>11, FlatIs DEF Texts
<1> QED
  <2>1. n \in 0 .. n
    OBVIOUS
  <2> QED BY <1>6, <1>7, <1>12, <2>1 DEF s

\* A set of numbers up to a limit has a greatest.
LEMMA Greatest ==
  ASSUME NEW k \in Int, NEW T, T \subseteq {i \in Int : i <= k}, T # {}
  PROVE  \E n \in T : \A m \in T : m <= n
<1> DEFINE U == {n \in Nat : k - n \in T}
<1>1. PICK i \in T : TRUE
  OBVIOUS
<1>2. k - i \in Nat /\ k - (k - i) = i
  OBVIOUS
<1>3. U # {} /\ U \subseteq Nat
  BY <1>2
<1>4. PICK n \in U : \A m \in U : n <= m
  BY <1>3, Least
<1>5. ASSUME NEW m \in T PROVE m <= k - n
  <2>1. k - m \in Nat /\ k - (k - m) = m
    OBVIOUS
  <2>2. k - m \in U
    BY <2>1
  <2>3. n <= k - m
    BY <1>4, <2>2
  <2> QED BY <2>3
<1> QED BY <1>4, <1>5

\* A cut moves on, and not beyond the end.
LEMMA NextCutBound ==
  ASSUME NEW t \in Texts, NEW from \in 0 .. Len(t)
  PROVE  /\ NextCut(t, from) \in 0 .. Len(t)
         /\ from <= NextCut(t, from) /\ (from < Len(t) => from < NextCut(t, from))
<1> DEFINE limit == from + MaxRuns
           marked == {i \in from + 1 .. limit : i <= Len(t) /\ t[i].mark # "none"}
<1>1. Len(t) \in Nat /\ MaxRuns \in Nat \ {0}
  BY SegmentationAssumption DEF SegmentationAssumption, Texts
<1>2. CASE Len(t) <= limit
  <2>1. NextCut(t, from) = Len(t)
    BY <1>2 DEF NextCut
  <2> QED BY <1>1, <2>1
<1>3. CASE ~(Len(t) <= limit) /\ marked # {}
  <2>1. NextCut(t, from) = CHOOSE i \in marked : \A j \in marked : j <= i
    BY <1>3 DEF NextCut
  <2>2. marked \subseteq {i \in Int : i <= limit} /\ limit \in Int
    BY <1>1
  <2>3. \E i \in marked : \A j \in marked : j <= i
    <3> HIDE DEF marked, limit
    <3> QED BY <1>3, <2>2, Greatest
  <2>4. NextCut(t, from) \in marked
    <3> HIDE DEF marked
    <3> QED BY <2>1, <2>3
  <2> QED BY <1>1, <2>4
<1>4. CASE ~(Len(t) <= limit) /\ marked = {}
  <2>1. NextCut(t, from) = limit
    BY <1>4 DEF NextCut
  <2> QED BY <1>1, <1>4, <2>1
<1> QED BY <1>2, <1>3, <1>4

\* The pieces of a long text join to the text.
LEMMA SplitAllJoins ==
  ASSUME NEW t \in Texts
  PROVE  SplitAll(t) \in Seq(Texts) /\ FlattenSeq(SplitAll(t)) = t
<1> DEFINE N == Len(t)
           V == 0 .. N
           Cut(g) == [i \in 0 .. N |-> IF i = 0 THEN 0 ELSE NextCut(t, g[i - 1])]
           cut == CHOOSE g : g = Cut(g)
           parts == {i \in 1 .. N : cut[i - 1] < N}
<1>1. SplitAll(t) = [i \in 1 .. Cardinality(parts) |-> SubSeq(t, cut[i - 1] + 1, cut[i])]
  BY DEF SplitAll
<1>2. N \in Nat /\ 0 \in V
  BY DEF Texts
<1>3. \A k \in V : NextCut(t, k) \in V /\ k <= NextCut(t, k) /\ (k < N => k < NextCut(t, k))
  BY NextCutBound
<1> HIDE DEF N, V
<1>4. cut = Cut(cut)
  <2> DEFINE step == [i \in 1 .. N |-> [k \in V |-> NextCut(t, k)]]
  <2>1. step \in [1 .. N -> [V -> V]] /\ \A i \in 1 .. N, k \in V : step[i][k] = NextCut(t, k)
    BY <1>3
  <2> HIDE DEF step
  <2>2. Traces(V, 0, N, step) # {}
    BY <1>2, <2>1, Recursion
  <2>3. PICK f \in [0 .. N -> V] : f[0] = 0 /\ \A i \in 1 .. N : f[i] = step[i][f[i - 1]]
    BY <2>2 DEF Traces
  <2>4. ASSUME NEW i \in 0 .. N PROVE f[i] = IF i = 0 THEN 0 ELSE NextCut(t, f[i - 1])
    <3>1. CASE i = 0
      BY <2>3, <3>1
    <3>2. CASE i # 0
      <4>1. i \in 1 .. N /\ i - 1 \in 0 .. N
        BY <1>2, <3>2
      <4>2. f[i - 1] \in V
        BY <4>1
      <4> QED BY <2>1, <2>3, <3>2, <4>1, <4>2
    <3> QED BY <3>1, <3>2
  <2>5. f = Cut(f)
    BY <2>4
  <2> HIDE DEF Cut
  <2> QED BY <2>5
<1> HIDE DEF cut
<1>5. cut[0] = 0 /\ \A i \in 1 .. N : cut[i] = NextCut(t, cut[i - 1])
  <2>1. \A i \in 0 .. N : cut[i] = IF i = 0 THEN 0 ELSE NextCut(t, cut[i - 1])
    BY <1>4
  <2>2. 0 \in 0 .. N /\ \A i \in 1 .. N : i \in 0 .. N /\ i # 0
    BY <1>2
  <2> HIDE DEF Cut
  <2> QED BY <2>1, <2>2
<1> HIDE DEF Cut
<1>6. \A i \in 0 .. N : cut[i] \in V /\ i <= cut[i]
  <2> DEFINE T == {i \in Nat : i <= N => cut[i] \in V /\ i <= cut[i]}
  <2>1. 0 \in T
    BY <1>2, <1>5
  <2>2. ASSUME NEW i \in Nat, i \in T PROVE i + 1 \in T
    <3> SUFFICES ASSUME i + 1 <= N PROVE cut[i + 1] \in V /\ i + 1 <= cut[i + 1]
      OBVIOUS
    <3>1. i + 1 \in 1 .. N /\ (i + 1) - 1 = i /\ cut[i] \in V /\ i <= cut[i]
      BY <1>2, <2>2
    <3>2. cut[i + 1] = NextCut(t, cut[i])
      BY <1>5, <3>1
    <3>3. cut[i] < N \/ cut[i] = N
      BY <1>2, <3>1 DEF V
    <3> QED BY <1>2, <1>3, <3>1, <3>2, <3>3 DEF V
  <2> HIDE DEF T
  <2>3. \A i \in Nat : i \in T
    BY <2>1, <2>2, Induct
  <2> QED BY <1>2, <2>3 DEF T
<1>7. PICK n \in 0 .. N : cut[n] = N /\ \A m \in 0 .. N : cut[m] = N => n <= m
  <2> DEFINE T == {i \in 0 .. N : cut[i] = N}
  <2>1. N \in 0 .. N
    BY <1>2
  <2>2. cut[N] = N
    BY <1>2, <1>6, <2>1 DEF V
  <2>3. T # {} /\ T \subseteq Nat
    BY <1>2, <2>1, <2>2
  <2>4. PICK n \in T : \A m \in T : n <= m
    BY <2>3, Least
  <2> QED BY <2>4
<1>8. \A i \in 0 .. N : n <= i => cut[i] = N
  <2> DEFINE T == {i \in Nat : n <= i /\ i <= N => cut[i] = N}
  <2>1. 0 \in T
    BY <1>2, <1>7
  <2>2. ASSUME NEW i \in Nat, i \in T PROVE i + 1 \in T
    <3> SUFFICES ASSUME n <= i + 1, i + 1 <= N PROVE cut[i + 1] = N
      OBVIOUS
    <3>1. CASE n = i + 1
      BY <1>7, <3>1
    <3>2. CASE n # i + 1
      <4>1. cut[i] = N /\ i + 1 \in 1 .. N /\ (i + 1) - 1 = i /\ N \in V
        BY <1>2, <2>2, <3>2 DEF V
      <4>2. cut[i + 1] = NextCut(t, N)
        BY <1>5, <4>1
      <4> QED BY <1>2, <1>3, <4>1, <4>2 DEF V
    <3> QED BY <3>1, <3>2
  <2> HIDE DEF T
  <2>3. \A i \in Nat : i \in T
    BY <2>1, <2>2, Induct
  <2> QED BY <1>2, <2>3 DEF T
<1>9. parts = 1 .. n
  <2>1. ASSUME NEW i \in 1 .. n PROVE i \in parts
    <3>1. i \in 1 .. N /\ i - 1 \in 0 .. N /\ ~(n <= i - 1)
      BY <1>2
    <3>2. cut[i - 1] # N /\ cut[i - 1] \in V
      BY <1>6, <1>7, <3>1
    <3> QED BY <1>2, <3>1, <3>2 DEF V
  <2>2. ASSUME NEW i \in parts PROVE i \in 1 .. n
    <3>1. i \in 1 .. N /\ cut[i - 1] < N /\ i - 1 \in 0 .. N
      BY <1>2
    <3>2. ~(n <= i - 1)
      BY <1>2, <1>8, <3>1
    <3> QED BY <3>1, <3>2
  <2> QED BY <2>1, <2>2
<1>10. Cardinality(parts) = n
  <2>1. Cardinality(1 .. n) = IF 1 > n THEN 0 ELSE n - 1 + 1
    <3>1. 1 \in Int /\ n \in Int
      BY <1>2
    <3> QED BY <3>1, FS_Interval
  <2>2. Cardinality(1 .. n) = n
    BY <1>2, <2>1
  <2> HIDE DEF parts
  <2> QED BY <1>9, <2>2
<1> HIDE DEF parts
<1> DEFINE c == [i \in 0 .. n |-> cut[i]]
<1>11. /\ c \in [0 .. n -> 0 .. Len(t)] /\ c[0] = 0 /\ c[n] = N
       /\ \A i \in 1 .. n : c[i - 1] <= c[i] /\ c[i - 1] = cut[i - 1] /\ c[i] = cut[i]
  <2>1. \A i \in 0 .. n : i \in 0 .. N /\ cut[i] \in 0 .. Len(t)
    BY <1>2, <1>6 DEF V, N
  <2>2. 0 \in 0 .. n /\ n \in 0 .. n /\ \A i \in 1 .. n : i \in 1 .. N /\ i \in 0 .. n /\ i - 1 \in 0 .. n /\ i - 1 \in 0 .. N
    BY <1>2
  <2>3. ASSUME NEW i \in 1 .. n PROVE cut[i - 1] <= cut[i]
    <3>1. cut[i] = NextCut(t, cut[i - 1]) /\ cut[i - 1] \in V
      BY <1>5, <1>6, <2>2
    <3> QED BY <1>3, <3>1
  <2> QED BY <1>5, <1>7, <2>1, <2>2, <2>3
<1> HIDE DEF c
<1>12. SplitAll(t) = Slice(t, n, c)
  BY <1>1, <1>10, <1>11 DEF Slice
<1>13. Slice(t, n, c) \in Seq(Texts) /\ FlattenSeq(Slice(t, n, c)) = SubSeq(t, 1, c[n])
  <2>1. n \in Nat /\ c \in Cuts(t, n)
    BY <1>2, <1>11 DEF Cuts
  <2> QED BY <2>1, Slices
<1>14. SubSeq(t, 1, N) = t
  BY DEF N, Texts
<1> QED BY <1>11, <1>12, <1>13, <1>14

\* The sentence ends of a text, in their order.
LEMMA StopsOrder ==
  ASSUME NEW t \in Texts
  PROVE  /\ Stops(t) \in Seq(1 .. Len(t))
         /\ \A i, j \in 1 .. Len(Stops(t)) : i < j => Stops(t)[i] < Stops(t)[j]
<1> DEFINE N == Len(t)
           V == Seq(Nat)
           More(u, n) == IF t[n].mark = "stop" THEN Append(u, n) ELSE u
           Def(g) == [n \in 0 .. N |-> IF n = 0 THEN <<>> ELSE More(g[n - 1], n)]
           before == CHOOSE g : g = Def(g)
<1>1. Stops(t) = before[N]
  BY DEF Stops
<1>2. N \in Nat /\ <<>> \in V /\ \A n \in Nat, u \in V : More(u, n) \in V
  BY DEF Texts
<1> HIDE DEF N, V
<1>3. before = Def(before)
  <2> DEFINE step == [n \in 1 .. N |-> [u \in V |-> More(u, n)]]
  <2>1. step \in [1 .. N -> [V -> V]] /\ \A n \in 1 .. N, u \in V : step[n][u] = More(u, n)
    <3> HIDE DEF More
    <3> QED BY <1>2
  <2> HIDE DEF step, More
  <2>2. Traces(V, <<>>, N, step) # {}
    BY <1>2, <2>1, Recursion
  <2>3. PICK f \in [0 .. N -> V] : f[0] = <<>> /\ \A n \in 1 .. N : f[n] = step[n][f[n - 1]]
    BY <2>2 DEF Traces
  <2>4. ASSUME NEW n \in 0 .. N PROVE f[n] = IF n = 0 THEN <<>> ELSE More(f[n - 1], n)
    <3>1. CASE n = 0
      BY <2>3, <3>1
    <3>2. CASE n # 0
      <4>1. n \in 1 .. N /\ n - 1 \in 0 .. N
        BY <1>2, <3>2
      <4>2. f[n - 1] \in V
        BY <4>1
      <4> QED BY <2>1, <2>3, <3>2, <4>1, <4>2
    <3> QED BY <3>1, <3>2
  <2>5. f = Def(f)
    BY <2>4
  <2> HIDE DEF Def
  <2> QED BY <2>5
<1> HIDE DEF before
<1>4. before[0] = <<>> /\ \A n \in 1 .. N : before[n] = More(before[n - 1], n)
  <2> HIDE DEF More
  <2>1. \A n \in 0 .. N : before[n] = IF n = 0 THEN <<>> ELSE More(before[n - 1], n)
    BY <1>3
  <2>2. 0 \in 0 .. N /\ \A n \in 1 .. N : n \in 0 .. N /\ n # 0
    BY <1>2
  <2> HIDE DEF Def
  <2> QED BY <2>1, <2>2
<1> HIDE DEF Def
<1> DEFINE Good(u, n) ==
             /\ u \in Seq(1 .. n)
             /\ \A i, j \in 1 .. Len(u) : i < j => u[i] < u[j]
           T == {n \in Nat : n <= N => Good(before[n], n)}
<1>5. 0 \in T
  <2>1. Good(<<>>, 0)
    OBVIOUS
  <2> QED BY <1>4, <2>1
<1>6. ASSUME NEW n \in Nat, n \in T PROVE n + 1 \in T
  <2> SUFFICES ASSUME n + 1 <= N PROVE Good(before[n + 1], n + 1)
    OBVIOUS
  <2>1. n + 1 \in 1 .. N /\ (n + 1) - 1 = n /\ Good(before[n], n)
    BY <1>2, <1>6
  <2> DEFINE u == before[n]
             m == n + 1
  <2>2. before[m] = More(u, m)
    BY <1>4, <2>1
  <2>3. Good(u, n)
    BY <2>1
  <2> HIDE DEF u
  <2>4. CASE t[m].mark = "stop"
    <3>1. before[m] = Append(u, m)
      BY <2>2, <2>4
    <3>2. Append(u, m) \in Seq(1 .. m) /\ Len(u) \in Nat /\ Len(Append(u, m)) = Len(u) + 1
      BY <2>3
    <3>3. /\ \A i \in 1 .. Len(u) : Append(u, m)[i] = u[i] /\ u[i] \in 1 .. n
          /\ Append(u, m)[Len(u) + 1] = m
      BY <2>3
    <3>4. ASSUME NEW i \in 1 .. Len(u) + 1, NEW j \in 1 .. Len(u) + 1, i < j
          PROVE  Append(u, m)[i] < Append(u, m)[j]
      <4>1. i \in 1 .. Len(u)
        BY <3>2, <3>4
      <4>2. CASE j = Len(u) + 1
        BY <3>3, <4>1, <4>2
      <4>3. CASE j # Len(u) + 1
        <5>1. j \in 1 .. Len(u)
          BY <3>2, <4>3
        <5> QED BY <2>3, <3>3, <3>4, <4>1, <5>1
      <4> QED BY <4>2, <4>3
    <3> QED BY <3>1, <3>2, <3>4
  <2>5. CASE t[m].mark # "stop"
    <3>1. before[m] = u
      BY <2>2, <2>5
    <3>2. u \in Seq(1 .. m)
      BY <2>3
    <3> QED BY <2>3, <3>1, <3>2
  <2> QED BY <2>4, <2>5
<1> HIDE DEF T
<1>7. \A n \in Nat : n \in T
  BY <1>5, <1>6, Induct
<1>8. Good(before[N], N)
  BY <1>2, <1>7 DEF T
<1> QED BY <1>1, <1>8 DEF N

\* split_and_hold loses nothing: the sentences and what is held after them make
\* up the joined text, and they are segments again.
LEMMA SplitAndHold ==
  ASSUME NEW s \in Segment
  PROVE  /\ Sentences(s) \in Seq(Segment) /\ HeldAfter(s) \in Segment
         /\ TextOf(Sentences(s)) \o HeldAfter(s).text = s.text
<1> DEFINE t == s.text
           stops == Stops(t)
           n == Len(stops)
           tail == TailOf(t)
           c == [i \in 0 .. n |-> IF i = 0 THEN 0 ELSE stops[i]]
<1>1. t \in Texts /\ s.ctx \in Nat /\ s.keys \in Seq(Seq(Content)) /\ s.split \in Nat
  BY DEF Segment
<1>2. /\ stops \in Seq(1 .. Len(t)) /\ n \in Nat
      /\ \A i, j \in 1 .. n : i < j => stops[i] < stops[j]
  BY <1>1, StopsOrder
<1>3. Len(t) \in Nat
  BY <1>1 DEF Texts
<1>4. TailOf(t) = IF stops = <<>> THEN t ELSE SubSeq(t, Last(stops) + 1, Len(t))
  BY DEF TailOf
<1>5. /\ Len(Sentences(s)) = n
      /\ \A i \in 1 .. n :
           /\ Sentences(s)[i].text = SubSeq(t, (IF i = 1 THEN 0 ELSE stops[i - 1]) + 1, stops[i])
           /\ Sentences(s)[i].ctx = s.ctx
           /\ Sentences(s)[i].keys = IF tail = <<>> THEN s.keys ELSE <<>>
           /\ Sentences(s)[i].split = s.split + i - 1
  BY <1>2 DEF Sentences
<1>6. HeldAfter(s) = IF tail = <<>> THEN NoSegment
                     ELSE [text |-> tail, ctx |-> s.ctx, keys |-> s.keys, split |-> s.split + n]
  BY DEF HeldAfter
<1>7. Sentences(s) = [i \in 1 .. n |->
         [text |-> SubSeq(t, (IF i = 1 THEN 0 ELSE stops[i - 1]) + 1, stops[i]), ctx |-> s.ctx,
          keys |-> IF tail = <<>> THEN s.keys ELSE <<>>, split |-> s.split + i - 1]]
  BY DEF Sentences
<1> HIDE DEF t, stops, n, tail
<1>8. /\ c \in Cuts(t, n) /\ \A i \in 0 .. n : c[i] \in 0 .. Len(t)
      /\ \A i \in 1 .. n : c[i] = stops[i] /\ c[i - 1] = IF i = 1 THEN 0 ELSE stops[i - 1]
  <2>1. \A i \in 1 .. n : stops[i] \in 1 .. Len(t)
    BY <1>2 DEF n
  <2>2. \A i \in 0 .. n : c[i] \in 0 .. Len(t)
    BY <1>2, <1>3, <2>1
  <2>3. \A i \in 1 .. n : c[i] = stops[i] /\ c[i - 1] = IF i = 1 THEN 0 ELSE stops[i - 1]
    BY <1>2
  <2>4. ASSUME NEW i \in 1 .. n PROVE c[i - 1] <= c[i]
    <3>1. CASE i = 1
      BY <1>3, <2>1, <2>3, <3>1
    <3>2. CASE i # 1
      <4>1. i - 1 \in 1 .. n /\ i - 1 < i
        BY <1>2, <3>2
      <4>2. stops[i - 1] < stops[i] /\ stops[i - 1] \in Int /\ stops[i] \in Int
        BY <1>2, <2>1, <4>1
      <4> QED BY <2>3, <3>2, <4>2
    <3> QED BY <3>1, <3>2
  <2>5. c[0] = 0
    BY <1>2
  <2> QED BY <2>2, <2>3, <2>4, <2>5 DEF Cuts
<1> HIDE DEF c
<1>9. \A i \in 1 .. n : Slice(t, n, c)[i] = Sentences(s)[i].text
  BY <1>5, <1>8 DEF Slice
<1>10. TextOf(Sentences(s)) = FlattenSeq(Slice(t, n, c))
  <2>1. Slice(t, n, c) = [i \in 1 .. n |-> Slice(t, n, c)[i]]
    BY DEF Slice
  <2>2. [i \in 1 .. Len(Sentences(s)) |-> Sentences(s)[i].text] = Slice(t, n, c)
    BY <1>5, <1>9, <2>1
  <2> QED BY <2>2 DEF TextOf
<1>11. Slice(t, n, c) \in Seq(Texts) /\ FlattenSeq(Slice(t, n, c)) = SubSeq(t, 1, c[n])
  BY <1>1, <1>2, <1>8, Slices
<1>12. \A i \in 1 .. n : Sentences(s)[i].text \in Texts
  <2>1. Len(Slice(t, n, c)) = n
    BY <1>2 DEF Slice
  <2> QED BY <1>9, <1>11, <2>1
<1>13. tail \in Texts /\ SubSeq(t, 1, c[n]) \o tail = t
  <2>1. CASE stops = <<>>
    <3>1. n = 0 /\ tail = t /\ c[0] = 0
      BY <1>4, <1>8, <2>1 DEF n, tail, Cuts
    <3>2. SubSeq(t, 1, 0) = <<>>
      BY <1>1 DEF Texts
    <3> QED BY <1>1, <3>1, <3>2, TextLaws
  <2>2. CASE stops # <<>>
    <3>1. n \in 1 .. n /\ Last(stops) = stops[n] /\ c[n] = stops[n] /\ c[n] \in 0 .. Len(t)
      BY <1>2, <1>8, <2>2 DEF n, Last
    <3>2. tail = SubSeq(t, c[n] + 1, Len(t))
      BY <1>4, <2>2, <3>1 DEF tail
    <3>3. Len(t) \in 0 .. Len(t) /\ c[n] <= Len(t)
      BY <1>3, <3>1
    <3>4. /\ SubSeq(t, c[n] + 1, Len(t)) \in Texts
          /\ SubSeq(t, 1, c[n]) \o SubSeq(t, c[n] + 1, Len(t)) = SubSeq(t, 1, Len(t))
      BY <1>1, <3>1, <3>3, SubSeqJoin
    <3>5. SubSeq(t, 1, Len(t)) = t
      BY <1>1 DEF Texts
    <3> QED BY <3>2, <3>4, <3>5
  <2> QED BY <2>1, <2>2
<1>14. HeldAfter(s).text = tail /\ HeldAfter(s) \in Segment
  <2>1. CASE tail = <<>>
    BY <1>6, <2>1, TextLaws DEF NoSegment, Segment
  <2>2. CASE tail # <<>>
    <3>1. HeldAfter(s) = [text |-> tail, ctx |-> s.ctx, keys |-> s.keys, split |-> s.split + n]
      BY <1>6, <2>2
    <3>2. s.split + n \in Nat
      BY <1>1, <1>2
    <3> QED BY <1>1, <1>13, <3>1, <3>2 DEF Segment
  <2> QED BY <2>1, <2>2
<1>15. Sentences(s) \in Seq(Segment)
  <2> DEFINE e(i) == [text |-> SubSeq(t, (IF i = 1 THEN 0 ELSE stops[i - 1]) + 1, stops[i]),
                      ctx |-> s.ctx, keys |-> IF tail = <<>> THEN s.keys ELSE <<>>,
                      split |-> s.split + i - 1]
  <2>1. ASSUME NEW i \in 1 .. n PROVE e(i) \in Segment
    <3>1. SubSeq(t, (IF i = 1 THEN 0 ELSE stops[i - 1]) + 1, stops[i]) \in Texts
      BY <1>5, <1>12
    <3>2. (IF tail = <<>> THEN s.keys ELSE <<>>) \in Seq(Seq(Content))
      BY <1>1
    <3>3. s.split + i - 1 \in Nat
      BY <1>1, <1>2
    <3> QED BY <1>1, <3>1, <3>2, <3>3 DEF Segment
  <2>2. Sentences(s) = [i \in 1 .. n |-> e(i)]
    BY <1>7
  <2> HIDE DEF e
  <2> QED BY <1>2, <2>1, <2>2
<1> QED BY <1>10, <1>11, <1>13, <1>14, <1>15 DEF t

\* What a window says: its words are in order and marked with its number.
LEMMA HeardText ==
  ASSUME NEW w \in Nat, NEW u \in Seq(Content)
  PROVE  /\ Heard(w, u) \in Texts /\ Sorted(Heard(w, u))
         /\ \A r \in RunsOf(Heard(w, u)) : r.win = w
<1> DEFINE h == Heard(w, u)
<1>1. Len(u) \in Nat /\ \A i \in 1 .. Len(u) : u[i].word \in Words /\ u[i].mark \in Marks
  <2>1. Len(u) \in Nat /\ \A i \in 1 .. Len(u) : u[i] \in Content
    OBVIOUS
  <2> QED BY <2>1 DEF Content
<1>2. \A i \in 1 .. Len(u) : [win |-> w, pos |-> i, word |-> u[i].word, mark |-> u[i].mark] \in Run
  BY <1>1 DEF Run
<1>3. h \in Texts /\ Len(h) = Len(u)
  BY <1>1, <1>2 DEF Heard, Texts
<1>4. \A i \in 1 .. Len(u) : h[i].win = w /\ h[i].pos = i
  BY DEF Heard
<1> HIDE DEF h
<1>5. Sorted(h)
  BY <1>1, <1>3, <1>4 DEF Sorted, Before
<1>6. \A r \in RunsOf(h) : r.win = w
  BY <1>3, <1>4 DEF RunsOf
<1> QED BY <1>3, <1>5, <1>6 DEF h

\* The deduplication key of a text.
LEMMA NormalizeType ==
  ASSUME NEW t \in Texts
  PROVE  Normalize(t) \in Seq(Content)
<1>1. Len(t) \in Nat /\ \A i \in 1 .. Len(t) : t[i].word \in Words /\ t[i].mark \in Marks
  <2>1. Len(t) \in Nat /\ \A i \in 1 .. Len(t) : t[i] \in Run
    BY DEF Texts
  <2> QED BY <2>1 DEF Run
<1> DEFINE e(i) == [word |-> t[i].word, mark |-> IF i = Len(t) THEN "none" ELSE t[i].mark]
<1>2. \A i \in 1 .. Len(t) : e(i) \in Content
  BY <1>1 DEF Content, Marks
<1>3. Normalize(t) = [i \in 1 .. Len(t) |-> e(i)]
  BY DEF Normalize
<1> HIDE DEF e
<1> QED BY <1>1, <1>2, <1>3

\* The pieces of a fragment are pieces and make up its text.
LEMMA PiecesText ==
  ASSUME NEW f \in Fragment
  PROVE  Pieces(f) \in Seq(Piece) /\ TextOf(Pieces(f)) = f.text
<1> DEFINE parts == SplitAll(f.text)
           n == Len(parts)
<1>1. f.text \in Texts /\ f.ctx \in Nat /\ Normalize(f.text) \in Seq(Content)
  BY NormalizeType DEF Fragment
<1>2. parts \in Seq(Texts) /\ FlattenSeq(parts) = f.text
  BY <1>1, SplitAllJoins
<1> DEFINE e(i) == [text |-> parts[i], ctx |-> f.ctx, key |-> Normalize(f.text)]
<1>3. Pieces(f) = [i \in 1 .. n |-> e(i)]
  BY DEF Pieces
<1> HIDE DEF parts
<1>4. n \in Nat /\ \A i \in 1 .. n : parts[i] \in Texts
  BY <1>2
<1>5. \A i \in 1 .. n : e(i) \in Piece /\ e(i).text = parts[i]
  BY <1>1, <1>4 DEF Piece
<1> HIDE DEF e
<1>6. Pieces(f) \in Seq(Piece) /\ Len(Pieces(f)) = n
  BY <1>3, <1>4, <1>5
<1>7. [i \in 1 .. Len(Pieces(f)) |-> Pieces(f)[i].text] = parts
  <2>1. \A i \in 1 .. n : Pieces(f)[i].text = parts[i]
    BY <1>3, <1>5
  <2>2. parts = [i \in 1 .. n |-> parts[i]]
    BY <1>2
  <2> HIDE DEF n
  <2> QED BY <1>6, <2>1, <2>2
<1> QED BY <1>2, <1>6, <1>7 DEF TextOf

\* The held text with a piece behind it is a segment.
LEMMA JoinType ==
  ASSUME NEW h \in Segment, NEW p \in Piece
  PROVE  Join(h, p) \in Segment /\ Join(h, p).text = h.text \o p.text
<1>1. /\ h.text \in Texts /\ p.text \in Texts /\ p.ctx \in Nat /\ h.split \in Nat
      /\ h.keys \in Seq(Seq(Content)) /\ p.key \in Seq(Content)
  BY DEF Segment, Piece
<1>2. h.text \o p.text \in Texts
  BY <1>1, TextLaws
<1>3. Append(h.keys, p.key) \in Seq(Seq(Content))
  BY <1>1
<1> QED BY <1>1, <1>2, <1>3 DEF Join, Segment

\* Pieces and segments have texts.
LEMMA TextTypes ==
  /\ \A x \in Segment : x.text \in Texts
  /\ \A x \in Piece : x.text \in Texts
  /\ \A x \in Fragment : x.text \in Texts
  /\ NoFragment \in Fragment /\ NoFragment.text = <<>>
  /\ NoSegment \in Segment /\ NoSegment.text = <<>>
  BY TextLaws DEF Segment, Piece, Fragment, NoFragment, NoSegment

\* The buffered short text in front of a new one.
LEMMA MergeText ==
  ASSUME NEW f \in Fragment, NEW g \in Fragment
  PROVE  MergePending(f, g) \in Fragment /\ MergePending(f, g).text = f.text \o g.text
<1>1. f.text \in Texts /\ g.text \in Texts /\ f.ctx \in Nat
  BY DEF Fragment
<1>2. CASE f = NoFragment
  BY <1>1, <1>2, TextLaws, TextTypes DEF MergePending
<1>3. CASE f # NoFragment
  <2>1. MergePending(f, g) = [text |-> f.text \o g.text, ctx |-> f.ctx]
    BY <1>3 DEF MergePending
  <2>2. f.text \o g.text \in Texts
    BY <1>1, TextLaws
  <2> QED BY <1>1, <2>1, <2>2 DEF Fragment
<1> QED BY <1>2, <1>3

-----------------------------------------------------------------------------
(* Every word is accounted for.                                            *)

\* What is translated and not yet shown.
Unshown == IF Speaking \/ mode = "commit" THEN <<>> ELSE TextOf(done)

\* All that was shown or is on its way, in the order in which it was heard.
Chain ==
  TextOf(pane) \o (Unshown \o (TextOf(todo) \o (held.text \o (TextOf(pieces) \o buffer.text))))

\* Where the words of all that was heard are: in the chain, lost or doubled.
Accounted(chain, heard, lost, doubled) ==
  /\ chain \in Texts /\ heard \in Texts
  /\ Sorted(chain) /\ Sorted(heard)
  /\ RunsOf(heard) = RunsOf(chain) \union lost \union doubled
  /\ RunsOf(chain) \intersect (lost \union doubled) = {}
  /\ lost \intersect doubled = {}

WordsInv == pc # "aborted" => Accounted(Chain, spoken, failed, suppressed)

\* There is something to translate, and something to speak.
TodoInv ==
  /\ pc \in {"translate", "mt"} => todo # <<>>
  /\ pc = "tts" => voice # <<>>

\* What was heard comes from the windows before the next one, and before the
\* one STT is working on.
HeardInv ==
  /\ \A r \in RunsOf(spoken) : r.win < seq
  /\ pc = "stt" => seq # 0 /\ \A r \in RunsOf(spoken) : r.win < seq - 1

\* The window is full only on its way to be sent, and a window is begun only
\* if it may be sent.
PendingInv ==
  /\ pc # "flush" => pending < WindowCap
  /\ pending > 0 => seq < MaxWindows

-----------------------------------------------------------------------------
(* Type correctness of the texts.                                          *)

\* There is always something to translate at "translate" and "mt", and to speak
\* at "tts".
LEMMA TodoStep == PlaceOK /\ TodoInv /\ [Next]_vars => TodoInv'
<1> SUFFICES ASSUME PlaceOK, TodoInv, [Next]_vars PROVE TodoInv'
  OBVIOUS
<1> USE DEF TodoInv, PlaceOK, Locations, Awaits
<1>1. CASE Receive
  BY <1>1 DEF Receive, RecvClosed, RecvIgnored, RecvSilence, RecvEndOfUtterance, RecvSpeech,
              batchVars
<1>2. CASE Sleep
  BY <1>2 DEF Sleep, batchVars
<1>3. CASE SttAnswer
  BY <1>3 DEF SttAnswer, SttEmpty, SttPartial, SttAuth, SttLocalUnavailable, SttError,
              SttFinal, batchVars
<1>4. CASE MtAnswer
  <2>1. CASE MtOk
    BY <2>1 DEF MtOk, batchVars
  <2>2. CASE MtAuth \/ MtError
    BY <2>2 DEF MtAuth, MtError, GiveUp, batchVars
  <2>3. QED
    BY <1>4, <2>1, <2>2 DEF MtAnswer
<1>5. CASE TtsAnswer
  BY <1>5 DEF TtsAnswer, TtsOk, TtsAuth, TtsError, NextVoice, batchVars
<1>6. CASE Proceed
  BY <1>6 DEF Proceed, Top, FlushNothing, FlushWindow, PushPiece, Aggregated, CommitHalted,
              Translate, Speak, Voice, Finish, AgedNothing, AgedFlush, Drain, DrainHeld,
              Close, GiveUp, CommitHeld, batchVars
<1>7. CASE Outside
  BY <1>7 DEF Outside, TogglePause, ToggleTts, RequestShutdown, Abort, CloseChannel,
              ChangeCadence, CircuitElapses, TaskVars, batchVars
<1>8. CASE UNCHANGED vars
  BY <1>8 DEF vars, batchVars
<1>9. QED
  BY <1>1, <1>2, <1>3, <1>4, <1>5, <1>6, <1>7, <1>8 DEF Next

\* The steps that touch no text.
QuietStep ==
  \/ Receive \/ Sleep \/ Outside
  \/ SttEmpty \/ SttPartial \/ SttAuth \/ SttLocalUnavailable \/ SttError
  \/ Top \/ FlushNothing \/ FlushWindow \/ Aggregated \/ AgedNothing \/ Close

\* They leave every text where it is.
LEMMA QuietTexts ==
  ASSUME QuietStep \/ UNCHANGED vars
  PROVE  UNCHANGED <<buffer, recent, held, pieces, todo, done, voice, pane, log, refused,
                     spoken, failed, suppressed>>
<1> USE DEF textVars, batchVars, outVars, historyVars
<1>1. CASE Receive
  BY <1>1 DEF Receive, RecvClosed, RecvIgnored, RecvSilence, RecvEndOfUtterance, RecvSpeech
<1>2. CASE Sleep
  BY <1>2 DEF Sleep
<1>3. CASE Outside
  BY <1>3 DEF Outside, TogglePause, ToggleTts, RequestShutdown, Abort, CloseChannel,
              ChangeCadence, CircuitElapses, TaskVars
<1>4. CASE SttEmpty \/ SttPartial \/ SttAuth \/ SttLocalUnavailable \/ SttError
  BY <1>4 DEF SttEmpty, SttPartial, SttAuth, SttLocalUnavailable, SttError
<1>5. CASE Top \/ FlushNothing \/ FlushWindow \/ Aggregated \/ AgedNothing \/ Close
  BY <1>5 DEF Top, FlushNothing, FlushWindow, Aggregated, AgedNothing, Close
<1>6. CASE UNCHANGED vars
  BY <1>6 DEF vars
<1>7. QED
  BY <1>1, <1>2, <1>3, <1>4, <1>5, <1>6 DEF QuietStep

\* The other steps.
LoudStep ==
  \/ \E utterance \in Utterances : SttFinal(utterance)
  \/ PushPiece \/ CommitHalted \/ Translate \/ MtOk \/ MtAuth \/ MtError
  \/ Speak \/ Voice \/ TtsAnswer \/ Finish \/ AgedFlush \/ Drain \/ DrainHeld

\* Every step is one or the other.
LEMMA QuietOrLoud == [Next]_vars => QuietStep \/ LoudStep \/ UNCHANGED vars
  BY DEF Next, SttAnswer, MtAnswer, Proceed, QuietStep, LoudStep

\* Every text keeps its type.
LEMMA TextsStep == PlaceOK /\ CountersOK /\ HeardInv /\ TodoInv /\ TextsOK /\ [Next]_vars => TextsOK'
<1> SUFFICES ASSUME PlaceOK, CountersOK, HeardInv, TodoInv, TextsOK, [Next]_vars PROVE TextsOK'
  OBVIOUS
<1>1. /\ buffer \in Fragment /\ held \in Segment /\ pieces \in Seq(Piece)
      /\ todo \in Seq(Segment) /\ done \in Seq(Segment) /\ voice \in Seq(Segment)
      /\ pane \in Seq(Segment) /\ log \in Seq(Segment)
  BY DEF TextsOK
<1> SUFFICES /\ buffer' \in Fragment /\ held' \in Segment /\ pieces' \in Seq(Piece)
             /\ todo' \in Seq(Segment) /\ done' \in Seq(Segment) /\ voice' \in Seq(Segment)
             /\ pane' \in Seq(Segment) /\ log' \in Seq(Segment)
  BY DEF TextsOK
<1>2. <<>> \in Seq(Segment) /\ <<>> \in Seq(Piece) /\ NoFragment \in Fragment /\ NoSegment \in Segment
  BY TextTypes
<1>3. /\ \A s \in Seq(Segment) : s # <<>> => Head(s) \in Segment /\ Tail(s) \in Seq(Segment)
      /\ \A s, u \in Seq(Segment) : s \o u \in Seq(Segment)
      /\ \A s \in Seq(Segment), x \in Segment : Append(s, x) \in Seq(Segment) /\ <<x>> \in Seq(Segment)
  OBVIOUS
<1> USE DEF textVars, batchVars, outVars
<1>4. ASSUME NEW utterance \in Utterances, SttFinal(utterance) PROVE TextsOK'
  <2> DEFINE new == [text |-> Heard(seq - 1, utterance), ctx |-> seq - 1]
             full == MergePending(buffer, new)
  <2>1. /\ buffer' \in {full, NoFragment} /\ pieces' \in {pieces, Pieces(full)}
        /\ UNCHANGED <<held, todo, done, voice, pane, log>> /\ pc = "stt"
    BY <1>4 DEF SttFinal
  <2>2. seq - 1 \in Nat /\ utterance \in Seq(Content)
    BY <2>1, OrchestratorAssumption DEF OrchestratorAssumption, HeardInv, CountersOK
  <2>3. new \in Fragment
    BY <2>2, HeardText DEF Fragment
  <2> HIDE DEF new
  <2>4. full \in Fragment
    BY <1>1, <2>3, MergeText
  <2>5. Pieces(full) \in Seq(Piece)
    BY <2>4, PiecesText
  <2> QED BY <1>1, <1>2, <2>1, <2>4, <2>5 DEF TextsOK
<1>5. CASE PushPiece
  <2> DEFINE joined == Join(held, Head(pieces))
             tail == HeldAfter(joined)
  <2>1. Head(pieces) \in Piece /\ Tail(pieces) \in Seq(Piece)
    BY <1>1, <1>5 DEF PushPiece
  <2>2. joined \in Segment
    BY <1>1, <2>1, JoinType
  <2>3. Sentences(joined) \in Seq(Segment) /\ tail \in Segment
    BY <2>2, SplitAndHold
  <2>4. /\ pieces' = Tail(pieces) /\ UNCHANGED <<buffer, done, voice, pane, log>>
        /\ \/ todo' = todo \o Sentences(joined) /\ held' = tail
           \/ todo' = todo \o Append(Sentences(joined), tail) /\ held' = NoSegment
    BY <1>5 DEF PushPiece
  <2> HIDE DEF tail, joined
  <2> QED BY <1>1, <1>2, <1>3, <2>1, <2>3, <2>4
<1>6. CASE Translate \/ MtAuth \/ MtError \/ CommitHalted
  <2>1. todo' \in {todo, <<>>, Tail(todo)} /\ done' \in {done, <<>>} /\ todo # <<>>
    BY <1>6 DEF Translate, MtAuth, MtError, CommitHalted, GiveUp, TodoInv
  <2>2. UNCHANGED <<buffer, held, pieces, voice, pane, log>>
    BY <1>6 DEF Translate, MtAuth, MtError, CommitHalted
  <2> QED BY <1>1, <1>2, <1>3, <2>1, <2>2
<1>7. CASE MtOk
  <2> DEFINE translated == Append(done, Head(todo))
  <2>1. /\ done' = translated /\ todo' = Tail(todo) /\ todo # <<>>
        /\ pane' \in {pane, pane \o translated} /\ log' \in {log, log \o translated}
        /\ UNCHANGED <<buffer, held, pieces, voice>>
    BY <1>7 DEF MtOk, Record, TodoInv
  <2> QED BY <1>1, <1>2, <1>3, <2>1
<1>8. CASE Speak \/ Voice \/ TtsAnswer
  <2>1. UNCHANGED <<buffer, held, pieces, todo, done, pane, log>>
    BY <1>8 DEF Speak, Voice, TtsAnswer, TtsOk, TtsAuth, TtsError, NextVoice
  <2>2. voice' \in {done, <<>>, voice} \/ (voice # <<>> /\ voice' = Tail(voice))
    <3>1. CASE Speak
      BY <3>1 DEF Speak
    <3>2. CASE Voice
      BY <3>2 DEF Voice
    <3>3. CASE TtsAnswer
      BY <3>3 DEF TtsAnswer, TtsOk, TtsAuth, TtsError, NextVoice, TodoInv
    <3> QED BY <1>8, <3>1, <3>2, <3>3
  <2>3. voice' \in Seq(Segment)
    <3>1. voice # <<>> => Tail(voice) \in Seq(Segment)
      BY <1>1
    <3> QED BY <1>1, <1>2, <2>2, <3>1
  <2> QED BY <1>1, <2>1, <2>3
<1>9. CASE Finish
  BY <1>1, <1>2, <1>3, <1>9 DEF Finish, Record
<1>10. CASE AgedFlush \/ DrainHeld
  BY <1>1, <1>2, <1>3, <1>10 DEF AgedFlush, DrainHeld, CommitHeld
<1>11. CASE Drain
  <2> DEFINE last == [text |-> buffer.text, ctx |-> buffer.ctx, key |-> Normalize(buffer.text)]
  <2>1. /\ buffer' \in {buffer, NoFragment} /\ UNCHANGED <<held, todo, done, voice, pane, log>>
        /\ pieces' \in {pieces, <<last>>}
    BY <1>11 DEF Drain
  <2>2. last \in Piece
    BY <1>1, NormalizeType DEF Fragment, Piece
  <2> HIDE DEF last
  <2>3. <<last>> \in Seq(Piece)
    BY <2>2
  <2> QED BY <1>1, <1>2, <2>1, <2>3
<1>12. CASE QuietStep \/ UNCHANGED vars
  BY <1>1, <1>12, QuietTexts
<1> QED
  BY <1>4, <1>5, <1>6, <1>7, <1>8, <1>9, <1>10, <1>11, <1>12, QuietOrLoud DEF LoudStep, TextsOK

\* No window is heard before it is numbered, nor twice.
LEMMA HeardStep ==
  PlaceOK /\ CountersOK /\ spoken \in Texts /\ HeardInv /\ [Next]_vars => HeardInv' /\ spoken' \in Texts
<1> SUFFICES ASSUME PlaceOK, CountersOK, spoken \in Texts, HeardInv, [Next]_vars
             PROVE  HeardInv' /\ spoken' \in Texts
  OBVIOUS
<1>1. \A r \in RunsOf(spoken) : r.win \in Nat
  BY RunsOfType DEF Run
<1>2. seq \in Nat
  BY DEF CountersOK
<1> USE DEF PlaceOK, Locations, Awaits, windowVars, historyVars
<1>3. ASSUME NEW utterance \in Utterances, SttFinal(utterance) PROVE HeardInv' /\ spoken' \in Texts
  <2> DEFINE h == Heard(seq - 1, utterance)
  <2>1. spoken' = spoken \o h /\ seq' = seq /\ pc = "stt" /\ pc' # "stt"
    BY <1>3 DEF SttFinal
  <2>2. seq - 1 \in Nat /\ utterance \in Seq(Content)
    BY <1>2, <2>1, OrchestratorAssumption DEF OrchestratorAssumption, HeardInv
  <2>3. h \in Texts /\ \A r \in RunsOf(h) : r.win = seq - 1
    BY <2>2, HeardText
  <2> HIDE DEF h
  <2>4. RunsOf(spoken \o h) = RunsOf(spoken) \union RunsOf(h) /\ spoken \o h \in Texts
    BY <2>3, RunsOfConcat, TextLaws
  <2>5. \A r \in RunsOf(spoken) \union RunsOf(h) : r.win < seq
    BY <1>1, <1>2, <2>3 DEF HeardInv
  <2> QED BY <2>1, <2>4, <2>5 DEF HeardInv
<1>4. CASE FlushWindow
  <2>1. seq' = seq + 1 /\ spoken' = spoken
    BY <1>4 DEF FlushWindow
  <2>2. \A r \in RunsOf(spoken) : r.win < seq /\ r.win < seq + 1 /\ r.win < (seq + 1) - 1
    BY <1>1, <1>2 DEF HeardInv
  <2> QED BY <1>2, <2>1, <2>2 DEF HeardInv
<1>5. ASSUME seq' = seq, spoken' = spoken, pc' = "stt" => pc = "stt" PROVE HeardInv' /\ spoken' \in Texts
  BY <1>5 DEF HeardInv
<1>6. CASE Receive
  BY <1>5, <1>6 DEF Receive, RecvClosed, RecvIgnored, RecvSilence, RecvEndOfUtterance, RecvSpeech
<1>7. CASE Sleep
  BY <1>5, <1>7 DEF Sleep
<1>8. CASE SttEmpty \/ SttPartial \/ SttAuth \/ SttLocalUnavailable \/ SttError
  BY <1>5, <1>8 DEF SttEmpty, SttPartial, SttAuth, SttLocalUnavailable, SttError
<1>9. CASE MtAnswer
  BY <1>5, <1>9 DEF MtAnswer, MtOk, MtAuth, MtError, GiveUp
<1>10. CASE TtsAnswer
  BY <1>5, <1>10 DEF TtsAnswer, TtsOk, TtsAuth, TtsError, NextVoice
<1>11. CASE Top \/ FlushNothing \/ PushPiece \/ Aggregated \/ CommitHalted \/ Translate \/ Speak \/ Voice \/ Finish
  BY <1>5, <1>11 DEF Top, FlushNothing, PushPiece, Aggregated, CommitHalted, Translate, Speak,
              Voice, Finish, GiveUp
<1>12. CASE AgedNothing \/ AgedFlush \/ Drain \/ DrainHeld \/ Close
  BY <1>5, <1>12 DEF AgedNothing, AgedFlush, Drain, DrainHeld, Close, CommitHeld
<1>13. CASE Outside
  BY <1>5, <1>13 DEF Outside, TogglePause, ToggleTts, RequestShutdown, Abort, CloseChannel,
              ChangeCadence, CircuitElapses, TaskVars
<1>14. CASE UNCHANGED vars
  BY <1>5, <1>14 DEF vars
<1> QED
  BY <1>3, <1>4, <1>6, <1>7, <1>8, <1>9, <1>10, <1>11, <1>12, <1>13, <1>14
  DEF Next, SttAnswer, Proceed

-----------------------------------------------------------------------------
(* The accounts.                                                           *)

\* New words are heard.
LEMMA AccountHeard ==
  ASSUME NEW c, NEW h, NEW l, NEW d, Accounted(c, h, l, d),
         NEW t \in Texts, Sorted(t), Precede(RunsOf(h), RunsOf(t))
  PROVE  Accounted(c \o t, h \o t, l, d)
<1> USE DEF Accounted
<1>1. c \o t \in Texts /\ h \o t \in Texts
  BY TextLaws
<1>2. RunsOf(c \o t) = RunsOf(c) \union RunsOf(t) /\ RunsOf(h \o t) = RunsOf(h) \union RunsOf(t)
  BY RunsOfConcat
<1>3. RunsOf(h) \subseteq Run /\ RunsOf(t) \subseteq Run
  BY RunsOfType
<1>4. RunsOf(h) \intersect RunsOf(t) = {}
  BY <1>3, BeforeStrict
<1>5. Precede(RunsOf(c), RunsOf(t))
  BY DEF Precede
<1>6. Sorted(c \o t) /\ Sorted(h \o t)
  BY <1>5, SortedConcat
<1> QED BY <1>1, <1>2, <1>4, <1>6

\* What the parts of a chain know of one another.
LEMMA ChainParts ==
  ASSUME NEW a \in Texts, NEW b \in Texts, NEW c \in Texts, Sorted(a \o (b \o c))
  PROVE  /\ a \o c \in Texts /\ Sorted(a \o c)
         /\ RunsOf(a \o (b \o c)) = RunsOf(a \o c) \union RunsOf(b)
         /\ RunsOf(a \o c) \intersect RunsOf(b) = {}
<1>1. b \o c \in Texts /\ a \o c \in Texts
  BY TextLaws
<1>2. /\ RunsOf(b \o c) = RunsOf(b) \union RunsOf(c)
      /\ RunsOf(a \o (b \o c)) = RunsOf(a) \union RunsOf(b \o c)
      /\ RunsOf(a \o c) = RunsOf(a) \union RunsOf(c)
  BY <1>1, RunsOfConcat
<1>3. Sorted(a) /\ Sorted(b \o c) /\ Precede(RunsOf(a), RunsOf(b \o c))
  BY <1>1, SortedConcat
<1>4. Sorted(b) /\ Sorted(c) /\ Precede(RunsOf(b), RunsOf(c))
  BY <1>3, SortedConcat
<1>5. Precede(RunsOf(a), RunsOf(b)) /\ Precede(RunsOf(a), RunsOf(c))
  BY <1>2, <1>3 DEF Precede
<1>6. Sorted(a \o c)
  BY <1>3, <1>4, <1>5, SortedConcat
<1>7. RunsOf(a) \subseteq Run /\ RunsOf(b) \subseteq Run /\ RunsOf(c) \subseteq Run
  BY RunsOfType
<1>8. RunsOf(a) \intersect RunsOf(b) = {} /\ RunsOf(b) \intersect RunsOf(c) = {}
  BY <1>4, <1>5, <1>7, BeforeStrict
<1> QED BY <1>1, <1>2, <1>6, <1>8

\* Words are lost out of the chain, or dropped as doubled.
LEMMA AccountLost ==
  ASSUME NEW a \in Texts, NEW b \in Texts, NEW c \in Texts, NEW h, NEW l, NEW d,
         Accounted(a \o (b \o c), h, l, d)
  PROVE  /\ Accounted(a \o c, h, l \union RunsOf(b), d)
         /\ Accounted(a \o c, h, l, d \union RunsOf(b))
<1> DEFINE whole == a \o (b \o c)
           rest == a \o c
<1>1. /\ rest \in Texts /\ Sorted(rest) /\ RunsOf(whole) = RunsOf(rest) \union RunsOf(b)
      /\ RunsOf(rest) \intersect RunsOf(b) = {}
  BY ChainParts DEF Accounted
<1>2. /\ h \in Texts /\ Sorted(h) /\ RunsOf(h) = RunsOf(whole) \union l \union d
      /\ RunsOf(whole) \intersect (l \union d) = {} /\ l \intersect d = {}
  BY DEF Accounted
<1> HIDE DEF whole, rest
<1>3. Accounted(rest, h, l \union RunsOf(b), d)
  BY <1>1, <1>2 DEF Accounted
<1>4. Accounted(rest, h, l, d \union RunsOf(b))
  BY <1>1, <1>2 DEF Accounted
<1> QED BY <1>3, <1>4 DEF rest

-----------------------------------------------------------------------------
(* Every step keeps the accounts.                                          *)

\* The parts of the chain are texts.
LEMMA ChainTypes ==
  ASSUME TextsOK
  PROVE  /\ TextOf(pane) \in Texts /\ TextOf(done) \in Texts /\ TextOf(todo) \in Texts
         /\ held.text \in Texts /\ TextOf(pieces) \in Texts /\ buffer.text \in Texts
         /\ Unshown \in Texts
<1>1. /\ pane \in Seq(Segment) /\ done \in Seq(Segment) /\ todo \in Seq(Segment)
      /\ held \in Segment /\ pieces \in Seq(Piece) /\ buffer \in Fragment
  BY DEF TextsOK
<1>2. /\ TextOf(pane) \in Texts /\ TextOf(done) \in Texts /\ TextOf(todo) \in Texts
  BY <1>1, TextTypes, TextOfType
<1>3. TextOf(pieces) \in Texts
  BY <1>1, TextTypes, TextOfType
<1>4. Unshown \in Texts
  BY <1>2, TextLaws DEF Unshown
<1> QED BY <1>1, <1>2, <1>3, <1>4, TextTypes

\* Empty parts of a chain.
LEMMA EmptyParts ==
  ASSUME NEW p \in Texts, NEW h \in Texts, NEW b \in Texts
  PROVE  /\ p \o (<<>> \o (<<>> \o (h \o (<<>> \o b)))) = p \o (h \o b)
         /\ p \o (<<>> \o (<<>> \o (h \o (b \o <<>>)))) = p \o (h \o b)
         /\ p \o (<<>> \o (<<>> \o (h \o (<<>> \o <<>>)))) = p \o h
  BY TextLaws

\* Joining is associative.
LEMMA TextAssoc == \A t, u, v \in Texts : (t \o u) \o v = t \o (u \o v)
  BY DEF Texts

\* Two texts make one.
LEMMA TextClosed == \A t, u \in Texts : t \o u \in Texts
  BY DEF Texts

\* New words are heard behind the buffer.
LEMMA HeardBehind ==
  ASSUME NEW p \in Texts, NEW h \in Texts, NEW b \in Texts, NEW t \in Texts,
         NEW s, NEW l, NEW d, Accounted(p \o (h \o b), s, l, d),
         Sorted(t), Precede(RunsOf(s), RunsOf(t))
  PROVE  Accounted(p \o (h \o (b \o t)), s \o t, l, d)
<1>1. Accounted((p \o (h \o b)) \o t, s \o t, l, d)
  BY AccountHeard
<1>2. h \o b \in Texts
  BY TextClosed
<1>3. (p \o (h \o b)) \o t = p \o ((h \o b) \o t)
  BY <1>2, TextAssoc
<1>4. (h \o b) \o t = h \o (b \o t)
  BY TextAssoc
<1> QED BY <1>1, <1>3, <1>4

\* The last part is dropped as doubled.
LEMMA LastDoubled ==
  ASSUME NEW p \in Texts, NEW h \in Texts, NEW b \in Texts,
         NEW s, NEW l, NEW d, Accounted(p \o (h \o b), s, l, d)
  PROVE  Accounted(p \o h, s, l, d \union RunsOf(b))
<1>1. p \o h \in Texts /\ <<>> \in Texts
  BY TextClosed, TextLaws
<1>2. (p \o h) \o b = p \o (h \o b)
  BY TextAssoc
<1>3. b \o <<>> = b /\ (p \o h) \o <<>> = p \o h
  BY <1>1, TextLaws
<1>4. Accounted((p \o h) \o (b \o <<>>), s, l, d)
  BY <1>2, <1>3
<1>5. Accounted((p \o h) \o <<>>, s, l, d \union RunsOf(b))
  BY <1>1, <1>4, AccountLost
<1> QED BY <1>3, <1>5

\* The steps that touch no text keep what is not shown yet.
LEMMA QuietPlace ==
  ASSUME PlaceOK, BatchInv, QuietStep \/ UNCHANGED vars, pc' # "aborted"
  PROVE  pc # "aborted" /\ (done = <<>> \/ (mode' = mode /\ Speaking' = Speaking))
<1> USE DEF PlaceOK, Locations, Awaits, BatchInv, Speaking
<1>1. CASE Receive
  BY <1>1 DEF Receive, RecvClosed, RecvIgnored, RecvSilence, RecvEndOfUtterance, RecvSpeech
<1>2. CASE Sleep
  BY <1>2 DEF Sleep
<1>3. CASE Outside
  BY <1>3 DEF Outside, TogglePause, ToggleTts, RequestShutdown, Abort, CloseChannel,
              ChangeCadence, CircuitElapses, TaskVars
<1>4. CASE SttEmpty \/ SttPartial \/ SttAuth \/ SttLocalUnavailable \/ SttError
  BY <1>4 DEF SttEmpty, SttPartial, SttAuth, SttLocalUnavailable, SttError
<1>5. CASE Top \/ FlushNothing \/ FlushWindow \/ Aggregated \/ AgedNothing \/ Close
  BY <1>5 DEF Top, FlushNothing, FlushWindow, Aggregated, AgedNothing, Close
<1>6. CASE UNCHANGED vars
  BY <1>6 DEF vars
<1>7. QED
  BY <1>1, <1>2, <1>3, <1>4, <1>5, <1>6 DEF QuietStep

\* They keep the accounts.
LEMMA QuietWords ==
  PlaceOK /\ BatchInv /\ TextsOK /\ WordsInv /\ (QuietStep \/ UNCHANGED vars) => WordsInv'
<1> SUFFICES ASSUME PlaceOK, BatchInv, TextsOK, WordsInv, QuietStep \/ UNCHANGED vars, pc' # "aborted"
             PROVE  Accounted(Chain, spoken, failed, suppressed)'
  BY DEF WordsInv
<1>1. UNCHANGED <<buffer, held, pieces, todo, done, pane, spoken, failed, suppressed>>
  BY QuietTexts
<1>2. Unshown' = Unshown
  <2>1. CASE done = <<>>
    BY <1>1, <2>1, TextOfOne, TextTypes DEF Unshown
  <2>2. CASE done # <<>>
    BY <1>1, <2>2, QuietPlace DEF Unshown
  <2> QED BY <2>1, <2>2
<1>3. Chain' = Chain
  BY <1>1, <1>2 DEF Chain
<1>4. Accounted(Chain, spoken, failed, suppressed)
  BY QuietPlace DEF WordsInv
<1> QED BY <1>1, <1>3, <1>4 DEF Accounted

\* A final result is put in the buffer, cut into pieces or dropped.
LEMMA FinalWords ==
  ASSUME PlaceOK, CountersOK, BatchInv, HeardInv, TextsOK, WordsInv,
         NEW utterance \in Utterances, SttFinal(utterance)
  PROVE  Accounted(Chain, spoken, failed, suppressed)'
<1> DEFINE t == Heard(seq - 1, utterance)
           new == [text |-> t, ctx |-> seq - 1]
           full == MergePending(buffer, new)
           p == TextOf(pane)
           h == held.text
           b == buffer.text
<1>1. pc = "stt" /\ seq - 1 \in Nat /\ utterance \in Seq(Content)
  BY OrchestratorAssumption DEF OrchestratorAssumption, HeardInv, CountersOK, SttFinal
<1>2. t \in Texts /\ Sorted(t) /\ \A r \in RunsOf(t) : r.win = seq - 1
  BY <1>1, HeardText
<1>3. /\ UNCHANGED <<held, todo, done, pane, failed>> /\ spoken' = spoken \o t
      /\ \/ buffer' = NoFragment /\ pieces' = pieces /\ suppressed' = suppressed \union RunsOf(full.text)
         \/ buffer' = full /\ pieces' = pieces /\ suppressed' = suppressed
         \/ buffer' = NoFragment /\ pieces' = Pieces(full) /\ suppressed' = suppressed
  BY DEF SttFinal
<1>4. todo = <<>> /\ done = <<>> /\ pieces = <<>>
  BY <1>1 DEF BatchInv
<1>5. TextOf(<<>>) = <<>>
  BY TextOfOne, TextTypes
<1>6. Unshown = <<>> /\ Unshown' = <<>>
  BY <1>3, <1>4, <1>5 DEF Unshown
<1>7. Accounted(Chain, spoken, failed, suppressed)
  BY <1>1 DEF WordsInv
<1>8. p \in Texts /\ h \in Texts /\ b \in Texts
  BY ChainTypes
<1>9. full \in Fragment /\ full.text = b \o t
  <2>1. new \in Fragment /\ new.text = t
    BY <1>1, <1>2 DEF Fragment
  <2>2. buffer \in Fragment
    BY DEF TextsOK
  <2> HIDE DEF new
  <2> QED BY <2>1, <2>2, MergeText
<1>10. Pieces(full) \in Seq(Piece) /\ TextOf(Pieces(full)) = full.text
  BY <1>9, PiecesText
<1> HIDE DEF t, full, p, h, b
<1>11. Precede(RunsOf(spoken), RunsOf(t))
  <2>1. spoken \in Texts
    BY <1>7 DEF Accounted
  <2>2. RunsOf(spoken) \subseteq Run /\ RunsOf(t) \subseteq Run
    BY <1>2, <2>1, RunsOfType
  <2>3. \A r \in RunsOf(spoken) : r.win < seq - 1
    BY <1>1 DEF HeardInv
  <2> QED BY <1>2, <2>2, <2>3 DEF Precede, Before, Run
<1>12. Chain = p \o (h \o b)
  <2>1. Chain = p \o (<<>> \o (<<>> \o (h \o (<<>> \o b))))
    BY <1>4, <1>5, <1>6 DEF Chain, p, h, b
  <2> QED BY <1>8, <2>1, EmptyParts
<1>13. Accounted(p \o (h \o (b \o t)), spoken', failed, suppressed)
  <2>1. t \in Texts /\ Sorted(t)
    BY <1>2
  <2>2. Accounted(p \o (h \o b), spoken, failed, suppressed)
    BY <1>7, <1>12
  <2>3. Accounted(p \o (h \o (b \o t)), spoken \o t, failed, suppressed)
    BY <1>8, <1>11, <2>1, <2>2, HeardBehind
  <2> QED BY <1>3, <2>3
<1>14. b \o t \in Texts
  BY <1>2, <1>8, TextLaws
<1>15. CASE buffer' = NoFragment /\ pieces' = pieces /\ suppressed' = suppressed \union RunsOf(full.text)
  <2>1. Chain' = p \o h
    <3>1. Chain' = p \o (<<>> \o (<<>> \o (h \o (<<>> \o <<>>))))
      BY <1>3, <1>4, <1>5, <1>6, <1>15, TextTypes DEF Chain, p, h
    <3> QED BY <1>8, <3>1, EmptyParts
  <2>3. Accounted(p \o h, spoken', failed, suppressed \union RunsOf(b \o t))
    BY <1>8, <1>13, <1>14, LastDoubled
  <2> QED BY <1>3, <1>9, <1>15, <2>1, <2>3 DEF Accounted
<1>16. CASE buffer' = full /\ pieces' = pieces /\ suppressed' = suppressed
  <2>1. Chain' = p \o (h \o (b \o t))
    <3>1. Chain' = p \o (<<>> \o (<<>> \o (h \o (<<>> \o (b \o t)))))
      BY <1>3, <1>4, <1>5, <1>6, <1>9, <1>16 DEF Chain, p, h
    <3> QED BY <1>8, <1>14, <3>1, EmptyParts
  <2> QED BY <1>3, <1>13, <1>16, <2>1 DEF Accounted
<1>17. CASE buffer' = NoFragment /\ pieces' = Pieces(full) /\ suppressed' = suppressed
  <2>1. Chain' = p \o (h \o (b \o t))
    <3>1. Chain' = p \o (<<>> \o (<<>> \o (h \o ((b \o t) \o <<>>))))
      BY <1>3, <1>4, <1>5, <1>6, <1>9, <1>10, <1>17, TextTypes DEF Chain, p, h
    <3> QED BY <1>8, <1>14, <3>1, EmptyParts
  <2> QED BY <1>3, <1>13, <1>17, <2>1 DEF Accounted
<1> QED BY <1>3, <1>15, <1>16, <1>17

\* The chain before a piece is aggregated, after its sentences s have gone to be
\* translated and the rest g is held, and after the rest has gone with them.
BeforePiece(p, u, t, h, x, y, b) == p \o (u \o (t \o (h \o ((x \o y) \o b))))
AfterPiece(p, u, t, s, g, y, b) == p \o (u \o ((t \o s) \o (g \o (y \o b))))
AfterJudged(p, u, t, s, g, y, b) == p \o (u \o ((t \o (s \o g)) \o (<<>> \o (y \o b))))

\* A piece joins what is held: its sentences go to be translated and the rest is
\* held, or goes with them.
LEMMA PieceMoves ==
  ASSUME NEW p \in Texts, NEW u \in Texts, NEW t \in Texts, NEW h \in Texts, NEW x \in Texts,
         NEW y \in Texts, NEW b \in Texts, NEW s \in Texts, NEW g \in Texts,
         NEW k, NEW l, NEW d, s \o g = h \o x,
         Accounted(BeforePiece(p, u, t, h, x, y, b), k, l, d)
  PROVE  /\ Accounted(AfterPiece(p, u, t, s, g, y, b), k, l, d)
         /\ Accounted(AfterJudged(p, u, t, s, g, y, b), k, l, d)
<1> USE DEF BeforePiece, AfterPiece, AfterJudged
<1> DEFINE Cat(v, w) == v \o w
           Acc(c) == Accounted(c, k, l, d)
<1>1. \A v, w \in Texts : Cat(v, w) \in Texts /\ Cat(<<>>, w) = w
  <2>1. \A w \in Texts : <<>> \o w = w
    BY TextLaws
  <2> QED BY <2>1, TextClosed
<1>2. \A v, w, z \in Texts : Cat(Cat(v, w), z) = Cat(v, Cat(w, z))
  BY TextAssoc
<1>3. Acc(Cat(p, Cat(u, Cat(t, Cat(h, Cat(Cat(x, y), b)))))) /\ Cat(s, g) = Cat(h, x)
  OBVIOUS
<1> HIDE DEF Cat, Acc
<1>4. Cat(Cat(x, y), b) = Cat(x, Cat(y, b)) /\ Cat(y, b) \in Texts
  BY <1>1, <1>2
<1>5. Cat(h, Cat(x, Cat(y, b))) = Cat(Cat(s, g), Cat(y, b))
  BY <1>2, <1>3, <1>4
<1>6. Cat(Cat(t, s), Cat(g, Cat(y, b))) = Cat(t, Cat(Cat(s, g), Cat(y, b)))
  BY <1>1, <1>2, <1>4
<1>7. Cat(Cat(t, Cat(s, g)), Cat(<<>>, Cat(y, b))) = Cat(t, Cat(Cat(s, g), Cat(y, b)))
  BY <1>1, <1>2, <1>4
<1>8. Acc(Cat(p, Cat(u, Cat(t, Cat(Cat(s, g), Cat(y, b))))))
  BY <1>3, <1>4, <1>5
<1>9. /\ Acc(Cat(p, Cat(u, Cat(Cat(t, s), Cat(g, Cat(y, b))))))
      /\ Acc(Cat(p, Cat(u, Cat(Cat(t, Cat(s, g)), Cat(<<>>, Cat(y, b))))))
  BY <1>6, <1>7, <1>8
<1> QED BY <1>9 DEF Cat, Acc

\* The aggregator takes a piece.
LEMMA PushWords ==
  ASSUME PlaceOK, BatchInv, TextsOK, WordsInv, PushPiece
  PROVE  Accounted(Chain, spoken, failed, suppressed)'
<1> DEFINE joined == Join(held, Head(pieces))
           tail == HeldAfter(joined)
           p == TextOf(pane)
           u == Unshown
           t == TextOf(todo)
           h == held.text
           x == Head(pieces).text
           y == TextOf(Tail(pieces))
           b == buffer.text
           s == TextOf(Sentences(joined))
           g == tail.text
<1>1. /\ pc = "aggregate" /\ pieces # <<>> /\ pieces' = Tail(pieces)
      /\ \/ todo' = todo \o Sentences(joined) /\ held' = tail
         \/ todo' = todo \o Append(Sentences(joined), tail) /\ held' = NoSegment
      /\ UNCHANGED <<pc, mode, buffer, done, pane, spoken, failed, suppressed>>
  BY DEF PushPiece, outVars, historyVars
<1>2. pieces \in Seq(Piece) /\ held \in Segment /\ todo \in Seq(Segment)
  BY DEF TextsOK
<1>3. Head(pieces) \in Piece /\ Tail(pieces) \in Seq(Piece) /\ TextOf(pieces) = x \o y
  BY <1>1, <1>2, TextOfHead, TextTypes
<1>4. joined \in Segment /\ joined.text = h \o x
  BY <1>2, <1>3, JoinType
<1>5. Sentences(joined) \in Seq(Segment) /\ tail \in Segment /\ s \o g = h \o x
  <2> HIDE DEF joined
  <2> QED BY <1>4, SplitAndHold
<1>6. p \in Texts /\ u \in Texts /\ t \in Texts /\ h \in Texts /\ b \in Texts
  BY ChainTypes
<1>7. x \in Texts /\ y \in Texts
  BY <1>3, TextTypes, TextOfType
<1> HIDE DEF joined, tail
<1>8. s \in Texts /\ g \in Texts
  BY <1>5, TextTypes, TextOfType
<1>9. TextOf(todo \o Sentences(joined)) = t \o s
  BY <1>2, <1>5, TextTypes, TextOfConcat
<1>10. TextOf(todo \o Append(Sentences(joined), tail)) = t \o (s \o g)
  <2>1. Append(Sentences(joined), tail) \in Seq(Segment)
        /\ TextOf(Append(Sentences(joined), tail)) = s \o g
    BY <1>5, TextTypes, TextOfAppend
  <2>2. TextOf(todo \o Append(Sentences(joined), tail)) = t \o TextOf(Append(Sentences(joined), tail))
    BY <1>2, <2>1, TextTypes, TextOfConcat
  <2> QED BY <2>1, <2>2
<1>11. Unshown' = u
  BY <1>1 DEF Unshown, Speaking
<1>12. Accounted(BeforePiece(p, u, t, h, x, y, b), spoken, failed, suppressed)
  <2>1. Accounted(Chain, spoken, failed, suppressed)
    BY <1>1 DEF WordsInv
  <2>2. Chain = p \o (u \o (t \o (h \o ((x \o y) \o b))))
    BY <1>3 DEF Chain
  <2> QED BY <2>1, <2>2 DEF BeforePiece
<1>13. TextOf(pane') = p /\ TextOf(pieces') = y /\ buffer'.text = b
  BY <1>1
<1> HIDE DEF p, u, t, h, x, y, b, s, g
<1>14. /\ Accounted(AfterPiece(p, u, t, s, g, y, b), spoken, failed, suppressed)
       /\ Accounted(AfterJudged(p, u, t, s, g, y, b), spoken, failed, suppressed)
  <2>1. s \o g = h \o x
    BY <1>5
  <2> QED BY <1>6, <1>7, <1>8, <1>12, <2>1, PieceMoves
<1>15. CASE todo' = todo \o Sentences(joined) /\ held' = tail
  <2>1. Chain' = p \o (u \o ((t \o s) \o (g \o (y \o b))))
    BY <1>9, <1>11, <1>13, <1>15 DEF Chain, g
  <2> QED BY <1>1, <1>14, <2>1 DEF Accounted, AfterPiece
<1>16. CASE todo' = todo \o Append(Sentences(joined), tail) /\ held' = NoSegment
  <2>1. Chain' = p \o (u \o ((t \o (s \o g)) \o (<<>> \o (y \o b))))
    BY <1>10, <1>11, <1>13, <1>16, TextTypes DEF Chain
  <2> QED BY <1>1, <1>14, <2>1 DEF Accounted, AfterJudged
<1> QED BY <1>1, <1>15, <1>16

\* Words are lost: what was translated and what was to be, or the first of what
\* was to be translated.
LEMMA MiddleLost ==
  ASSUME NEW p \in Texts, NEW u \in Texts, NEW x \in Texts, NEW y \in Texts, NEW r \in Texts,
         NEW k, NEW l, NEW d
  PROVE  /\ Accounted(p \o (u \o (x \o r)), k, l, d)
              => Accounted(p \o (<<>> \o (<<>> \o r)), k, (l \union RunsOf(u)) \union RunsOf(x), d)
         /\ Accounted(p \o (<<>> \o ((x \o y) \o r)), k, l, d)
              => Accounted(p \o (<<>> \o (y \o r)), k, l \union RunsOf(x), d)
<1>1. x \o r \in Texts
  BY TextClosed
<1>2. y \o r \in Texts
  BY TextClosed
<1>3. (x \o y) \o r = x \o (y \o r)
  BY TextAssoc
<1>4. x \o (y \o r) \in Texts
  BY <1>2, TextClosed
<1>5. /\ <<>> \o r = r /\ <<>> \o (y \o r) = y \o r /\ <<>> \o (x \o (y \o r)) = x \o (y \o r)
  BY <1>2, <1>4, TextLaws
<1>6. ASSUME Accounted(p \o (u \o (x \o r)), k, l, d)
      PROVE  Accounted(p \o (<<>> \o (<<>> \o r)), k, (l \union RunsOf(u)) \union RunsOf(x), d)
  <2>1. Accounted(p \o (x \o r), k, l \union RunsOf(u), d)
    BY <1>1, <1>6, AccountLost
  <2>2. Accounted(p \o r, k, (l \union RunsOf(u)) \union RunsOf(x), d)
    BY <2>1, AccountLost
  <2> QED BY <1>5, <2>2
<1>7. ASSUME Accounted(p \o (<<>> \o ((x \o y) \o r)), k, l, d)
      PROVE  Accounted(p \o (<<>> \o (y \o r)), k, l \union RunsOf(x), d)
  <2>1. Accounted(p \o (x \o (y \o r)), k, l, d)
    BY <1>3, <1>5, <1>7
  <2>2. Accounted(p \o (y \o r), k, l \union RunsOf(x), d)
    BY <1>2, <2>1, AccountLost
  <2> QED BY <1>5, <2>2
<1> QED BY <1>6, <1>7

\* A batch, or one segment, is given up.
LEMMA GiveUpWords ==
  ASSUME PlaceOK, BatchInv, TodoInv, TextsOK, WordsInv, pc \in {"translate", "mt"}, GiveUp,
         UNCHANGED <<mode, buffer, held, pieces, pane, spoken, suppressed>>
  PROVE  Accounted(Chain, spoken, failed, suppressed)'
<1> DEFINE p == TextOf(pane)
           u == TextOf(done)
           t == TextOf(todo)
           x == Head(todo).text
           y == TextOf(Tail(todo))
           r == held.text \o (TextOf(pieces) \o buffer.text)
<1>1. todo # <<>> /\ todo \in Seq(Segment) /\ done \in Seq(Segment)
  BY DEF TodoInv, TextsOK
<1>2. Head(todo) \in Segment /\ Tail(todo) \in Seq(Segment) /\ t = x \o y
  BY <1>1, TextOfHead, TextTypes
<1>3. p \in Texts /\ u \in Texts /\ t \in Texts /\ r \in Texts
  BY ChainTypes, TextClosed
<1>4. x \in Texts /\ y \in Texts
  BY <1>2, TextTypes, TextOfType
<1>5. done' = <<>> /\ TextOf(<<>>) = <<>>
  BY TextOfOne, TextTypes DEF GiveUp
<1>6. Unshown' = <<>>
  BY <1>5 DEF Unshown
<1>7. Accounted(Chain, spoken, failed, suppressed)
  BY DEF WordsInv
<1>8. Chain = p \o (Unshown \o (t \o r)) /\ Chain' = p \o (<<>> \o (TextOf(todo') \o r))
  BY <1>6 DEF Chain
<1>9. mode = "window" \/ mode = "commit"
  BY DEF PlaceOK
<1>10. RunsIn(done) = RunsOf(u) /\ RunsIn(todo) = RunsOf(t)
  BY <1>1, RunsInIs, TextTypes
<1>11. CASE mode = "window"
  <2>1. Unshown = u
    BY <1>11 DEF Unshown, Speaking
  <2>2. todo' = <<>> /\ failed' = (failed \union RunsOf(u)) \union RunsOf(t)
    BY <1>10, <1>11 DEF GiveUp
  <2>3. Accounted(p \o (u \o (t \o r)), spoken, failed, suppressed)
    BY <1>7, <1>8, <2>1
  <2>4. Chain' = p \o (<<>> \o (<<>> \o r))
    BY <1>5, <1>8, <2>2
  <2> HIDE DEF p, u, t, r
  <2>5. Accounted(p \o (<<>> \o (<<>> \o r)), spoken, (failed \union RunsOf(u)) \union RunsOf(t), suppressed)
    BY <1>3, <2>3, MiddleLost
  <2> QED BY <2>2, <2>4, <2>5 DEF Accounted
<1>12. CASE mode = "commit"
  <2>1. Unshown = <<>>
    BY <1>12 DEF Unshown
  <2>2. todo' = Tail(todo) /\ failed' = failed \union RunsOf(x)
    BY <1>9, <1>12 DEF GiveUp
  <2>3. Chain' = p \o (<<>> \o (y \o r))
    BY <1>8, <2>2
  <2> HIDE DEF p, u, t, r, x, y
  <2>4. Accounted(p \o (<<>> \o ((x \o y) \o r)), spoken, failed, suppressed)
    BY <1>2, <1>7, <1>8, <2>1
  <2>5. Accounted(p \o (<<>> \o (y \o r)), spoken, failed \union RunsOf(x), suppressed)
    BY <1>3, <1>4, <2>4, MiddleLost
  <2> QED BY <2>2, <2>3, <2>5 DEF Accounted
<1> QED BY <1>9, <1>11, <1>12

\* The first text to be translated joins those translated, shown or not.
LEMMA TranslatedMoves ==
  ASSUME NEW p \in Texts, NEW u \in Texts, NEW x \in Texts, NEW y \in Texts, NEW r \in Texts,
         NEW k, NEW l, NEW d, Accounted(p \o (u \o ((x \o y) \o r)), k, l, d)
  PROVE  /\ Accounted((p \o (u \o x)) \o (<<>> \o (y \o r)), k, l, d)
         /\ Accounted(p \o ((u \o x) \o (y \o r)), k, l, d)
<1> DEFINE Cat(v, w) == v \o w
           Acc(c) == Accounted(c, k, l, d)
<1>1. \A v, w \in Texts : Cat(v, w) \in Texts /\ Cat(<<>>, w) = w
  <2>1. \A w \in Texts : <<>> \o w = w
    BY TextLaws
  <2> QED BY <2>1, TextClosed
<1>2. \A v, w, z \in Texts : Cat(Cat(v, w), z) = Cat(v, Cat(w, z))
  BY TextAssoc
<1>3. Acc(Cat(p, Cat(u, Cat(Cat(x, y), r))))
  OBVIOUS
<1> HIDE DEF Cat, Acc
<1>4. Cat(Cat(x, y), r) = Cat(x, Cat(y, r)) /\ Cat(y, r) \in Texts
  BY <1>1, <1>2
<1>5. Cat(u, Cat(x, Cat(y, r))) = Cat(Cat(u, x), Cat(y, r)) /\ Cat(u, x) \in Texts
  BY <1>1, <1>2, <1>4
<1>6. Cat(p, Cat(Cat(u, x), Cat(y, r))) = Cat(Cat(p, Cat(u, x)), Cat(<<>>, Cat(y, r)))
  BY <1>1, <1>2, <1>4, <1>5
<1>7. /\ Acc(Cat(Cat(p, Cat(u, x)), Cat(<<>>, Cat(y, r))))
      /\ Acc(Cat(p, Cat(Cat(u, x), Cat(y, r))))
  BY <1>3, <1>4, <1>5, <1>6
<1> QED BY <1>7 DEF Cat, Acc

\* A translation arrives.
LEMMA MtOkWords ==
  ASSUME PlaceOK, BatchInv, TodoInv, TextsOK, WordsInv, MtOk
  PROVE  Accounted(Chain, spoken, failed, suppressed)'
<1> DEFINE p == TextOf(pane)
           u == TextOf(done)
           x == Head(todo).text
           y == TextOf(Tail(todo))
           r == held.text \o (TextOf(pieces) \o buffer.text)
           translated == Append(done, Head(todo))
<1>1. /\ pc = "mt" /\ done' = translated /\ todo' = Tail(todo)
      /\ UNCHANGED <<mode, buffer, held, pieces, spoken, failed, suppressed>>
      /\ \/ pane' = pane \o translated /\ pc' = "speak"
         \/ pane' = pane /\ pc' = "translate" /\ mode # "commit"
  BY DEF MtOk, outVars, historyVars
<1>2. todo # <<>> /\ todo \in Seq(Segment) /\ done \in Seq(Segment) /\ pane \in Seq(Segment)
  BY <1>1 DEF TodoInv, TextsOK
<1>3. Head(todo) \in Segment /\ Tail(todo) \in Seq(Segment) /\ TextOf(todo) = x \o y
  BY <1>2, TextOfHead, TextTypes
<1>4. translated \in Seq(Segment) /\ TextOf(translated) = u \o x
  BY <1>2, <1>3, TextOfAppend, TextTypes
<1> HIDE DEF translated
<1>5. TextOf(pane \o translated) = p \o (u \o x)
  BY <1>2, <1>4, TextOfConcat, TextTypes
<1>6. p \in Texts /\ u \in Texts /\ r \in Texts
  BY ChainTypes, TextClosed
<1>7. x \in Texts /\ y \in Texts
  BY <1>3, TextTypes, TextOfType
<1>8. mode = "window" \/ mode = "commit"
  BY DEF PlaceOK
<1>9. Unshown = u
  <2>1. CASE mode = "commit"
    <3>1. done = <<>>
      BY <1>1, <2>1 DEF BatchInv
    <3> QED BY <2>1, <3>1, TextOfOne, TextTypes DEF Unshown
  <2>2. CASE mode = "window"
    BY <1>1, <2>2 DEF Unshown, Speaking
  <2> QED BY <1>8, <2>1, <2>2
<1>10. Accounted(p \o (u \o ((x \o y) \o r)), spoken, failed, suppressed)
  <2>1. Accounted(Chain, spoken, failed, suppressed)
    BY <1>1 DEF WordsInv
  <2>2. Chain = p \o (u \o ((x \o y) \o r))
    BY <1>3, <1>9 DEF Chain
  <2> QED BY <2>1, <2>2
<1>11. Chain' = TextOf(pane') \o (Unshown' \o (y \o r))
  BY <1>1 DEF Chain
<1>12. CASE pane' = pane \o translated /\ pc' = "speak"
  <2>1. Unshown' = <<>>
    BY <1>1, <1>8, <1>12 DEF Unshown, Speaking
  <2>2. Chain' = (p \o (u \o x)) \o (<<>> \o (y \o r))
    BY <1>5, <1>11, <1>12, <2>1
  <2> HIDE DEF p, u, x, y, r
  <2>3. Accounted((p \o (u \o x)) \o (<<>> \o (y \o r)), spoken, failed, suppressed)
    BY <1>6, <1>7, <1>10, TranslatedMoves
  <2> QED BY <1>1, <2>2, <2>3 DEF Accounted
<1>13. CASE pane' = pane /\ pc' = "translate" /\ mode # "commit"
  <2>1. Unshown' = u \o x
    BY <1>1, <1>4, <1>13 DEF Unshown, Speaking
  <2>2. Chain' = p \o ((u \o x) \o (y \o r))
    BY <1>11, <1>13, <2>1
  <2> HIDE DEF p, u, x, y, r
  <2>3. Accounted(p \o ((u \o x) \o (y \o r)), spoken, failed, suppressed)
    BY <1>6, <1>7, <1>10, TranslatedMoves
  <2> QED BY <1>1, <2>2, <2>3 DEF Accounted
<1> QED BY <1>1, <1>12, <1>13

\* Steps at the batch that move no word.
LEMMA StillWords ==
  ASSUME PlaceOK, BatchInv, TextsOK, WordsInv,
         Speak \/ Voice \/ TtsAnswer \/ Finish \/ (Translate /\ pc' = "mt")
  PROVE  Accounted(Chain, spoken, failed, suppressed)'
<1>1. UNCHANGED <<mode, buffer, held, pieces, todo, pane, spoken, failed, suppressed>>
  <2> USE DEF textVars, outVars, historyVars
  <2>1. CASE Speak \/ Voice \/ TtsAnswer
    BY <2>1 DEF Speak, Voice, TtsAnswer, TtsOk, TtsAuth, TtsError, NextVoice
  <2>2. CASE Finish
    BY <2>2 DEF Finish
  <2>3. CASE Translate /\ pc' = "mt"
    BY <2>3 DEF Translate, GiveUp, PlaceOK
  <2> QED BY <2>1, <2>2, <2>3
<1>2. pc # "aborted" /\ Unshown' = Unshown
  <2>1. CASE Speak \/ Voice \/ TtsAnswer
    <3>1. pc \in {"speak", "voice", "tts"} /\ pc' \in {"speak", "voice", "tts"}
      BY <2>1 DEF Speak, Voice, TtsAnswer, TtsOk, TtsAuth, TtsError, NextVoice
    <3>2. mode \in {"window", "commit"}
      BY DEF PlaceOK
    <3> QED BY <1>1, <3>1, <3>2 DEF Unshown, Speaking
  <2>2. CASE Finish
    <3>1. pc = "voice" /\ done' = <<>>
      BY <2>2 DEF Finish
    <3>2. mode \in {"window", "commit"}
      BY DEF PlaceOK
    <3>3. Unshown = <<>>
      BY <3>1, <3>2 DEF Unshown, Speaking
    <3>4. Unshown' = <<>>
      BY <3>1, TextOfOne, TextTypes DEF Unshown
    <3> QED BY <3>1, <3>3, <3>4
  <2>3. CASE Translate /\ pc' = "mt"
    <3>1. pc = "translate"
      BY <2>3 DEF Translate
    <3>2. done' = done
      BY <2>3 DEF Translate, GiveUp, PlaceOK
    <3> QED BY <1>1, <2>3, <3>1, <3>2 DEF Unshown, Speaking
  <2> QED BY <2>1, <2>2, <2>3
<1>3. Chain' = Chain
  BY <1>1, <1>2 DEF Chain
<1> QED BY <1>1, <1>2, <1>3 DEF Accounted, WordsInv

\* What is held is sent to translation.
LEMMA HeldWords ==
  ASSUME PlaceOK, BatchInv, TextsOK, WordsInv, AgedFlush \/ DrainHeld
  PROVE  Accounted(Chain, spoken, failed, suppressed)'
<1> DEFINE p == TextOf(pane)
           h == held.text
           b == buffer.text
<1>1. /\ pc \in {"aged", "drainHeld"}
      /\ UNCHANGED <<buffer, pieces, done, pane, spoken, failed, suppressed>>
      /\ \/ todo' = <<held>> /\ held' = NoSegment
         \/ todo' = todo /\ held' = held
  BY DEF AgedFlush, DrainHeld, CommitHeld, outVars, historyVars
<1>2. todo = <<>> /\ done = <<>> /\ pieces = <<>> /\ done' = <<>>
  BY <1>1 DEF BatchInv
<1>3. TextOf(<<>>) = <<>> /\ TextOf(<<held>>) = h
  BY ChainTypes, TextOfOne
<1>4. Unshown = <<>> /\ Unshown' = <<>>
  BY <1>2, <1>3 DEF Unshown
<1>5. p \in Texts /\ h \in Texts /\ b \in Texts
  BY ChainTypes
<1>6. Accounted(Chain, spoken, failed, suppressed)
  BY <1>1 DEF WordsInv
<1>7. Chain = p \o (<<>> \o (<<>> \o (h \o (<<>> \o b))))
  BY <1>2, <1>3, <1>4 DEF Chain
<1>8. CASE todo' = <<held>> /\ held' = NoSegment
  <2>1. Chain' = p \o (<<>> \o (h \o (<<>> \o (<<>> \o b))))
    BY <1>1, <1>2, <1>3, <1>4, <1>8, TextTypes DEF Chain
  <2> HIDE DEF p, h, b
  <2>2. <<>> \o b = b /\ <<>> \o (h \o b) = h \o b
    BY <1>5, TextClosed, TextLaws
  <2>3. Chain' = Chain
    BY <1>7, <2>1, <2>2
  <2> QED BY <1>1, <1>6, <2>3 DEF Accounted
<1>9. CASE todo' = todo /\ held' = held
  <2>1. Chain' = Chain
    BY <1>1, <1>4, <1>9 DEF Chain
  <2> QED BY <1>1, <1>6, <2>1 DEF Accounted
<1> QED BY <1>1, <1>8, <1>9

\* The buffer is sent to the aggregator or dropped.
LEMMA DrainWords ==
  ASSUME PlaceOK, BatchInv, TextsOK, WordsInv, Drain
  PROVE  Accounted(Chain, spoken, failed, suppressed)'
<1> DEFINE p == TextOf(pane)
           h == held.text
           b == buffer.text
           last == [text |-> b, ctx |-> buffer.ctx, key |-> Normalize(b)]
<1>1. /\ pc = "drain" /\ UNCHANGED <<held, todo, done, pane, spoken, failed>>
      /\ \/ buffer' = buffer /\ pieces' = pieces /\ suppressed' = suppressed
         \/ buffer' = NoFragment /\ pieces' = pieces /\ suppressed' = suppressed \union RunsOf(b)
         \/ buffer' = NoFragment /\ pieces' = <<last>> /\ suppressed' = suppressed
  BY DEF Drain, outVars
<1>2. todo = <<>> /\ done = <<>> /\ pieces = <<>>
  BY <1>1 DEF BatchInv
<1>3. p \in Texts /\ h \in Texts /\ b \in Texts
  BY ChainTypes
<1>4. last.text = b
  OBVIOUS
<1>5. TextOf(<<>>) = <<>> /\ TextOf(<<last>>) = b
  <2> HIDE DEF last
  <2> QED BY <1>3, <1>4, TextOfOne
<1>6. Unshown = <<>> /\ Unshown' = <<>>
  BY <1>1, <1>2, <1>5 DEF Unshown
<1>7. Accounted(Chain, spoken, failed, suppressed)
  BY <1>1 DEF WordsInv
<1> HIDE DEF last
<1>8. Chain = p \o (<<>> \o (<<>> \o (h \o (<<>> \o b))))
  BY <1>2, <1>5, <1>6 DEF Chain
<1>9. CASE buffer' = buffer /\ pieces' = pieces /\ suppressed' = suppressed
  <2>1. Chain' = Chain
    BY <1>1, <1>6, <1>9 DEF Chain
  <2> QED BY <1>1, <1>7, <1>9, <2>1 DEF Accounted
<1>10. CASE buffer' = NoFragment /\ pieces' = pieces /\ suppressed' = suppressed \union RunsOf(b)
  <2>1. Chain' = p \o (<<>> \o (<<>> \o (h \o (<<>> \o <<>>))))
    BY <1>1, <1>2, <1>5, <1>6, <1>10, TextTypes DEF Chain
  <2> HIDE DEF p, h, b
  <2>2. Chain' = p \o h /\ Chain = p \o (h \o b)
    BY <1>3, <1>8, <2>1, EmptyParts
  <2>3. Accounted(p \o h, spoken, failed, suppressed \union RunsOf(b))
    BY <1>3, <1>7, <2>2, LastDoubled
  <2> QED BY <1>1, <1>10, <2>2, <2>3 DEF Accounted
<1>11. CASE buffer' = NoFragment /\ pieces' = <<last>> /\ suppressed' = suppressed
  <2>1. Chain' = p \o (<<>> \o (<<>> \o (h \o (b \o <<>>))))
    BY <1>1, <1>2, <1>5, <1>6, <1>11, TextTypes DEF Chain
  <2> HIDE DEF p, h, b
  <2>2. Chain' = Chain
    BY <1>3, <1>8, <2>1, EmptyParts
  <2> QED BY <1>1, <1>7, <1>11, <2>2 DEF Accounted
<1> QED BY <1>1, <1>9, <1>10, <1>11

\* Every step keeps the accounts.
LEMMA WordsStep ==
  PlaceOK /\ CountersOK /\ BatchInv /\ TodoInv /\ HeardInv /\ TextsOK /\ WordsInv /\ [Next]_vars
    => WordsInv'
<1> SUFFICES ASSUME PlaceOK, CountersOK, BatchInv, TodoInv, HeardInv, TextsOK, WordsInv, [Next]_vars
             PROVE  WordsInv'
  OBVIOUS
<1>1. CASE QuietStep \/ UNCHANGED vars
  BY <1>1, QuietWords
<1>2. ASSUME NEW utterance \in Utterances, SttFinal(utterance) PROVE WordsInv'
  BY <1>2, FinalWords DEF WordsInv
<1>3. CASE PushPiece
  BY <1>3, PushWords DEF WordsInv
<1>4. CASE CommitHalted
  <2> DEFINE p == TextOf(pane)
             t == TextOf(todo)
             r == held.text \o (TextOf(pieces) \o buffer.text)
  <2>1. /\ pc = "translate" /\ mode = "commit" /\ todo' = <<>> /\ failed' = failed \union RunsIn(todo)
        /\ UNCHANGED <<mode, buffer, held, pieces, pane, spoken, suppressed>>
    BY <1>4 DEF CommitHalted, textVars, outVars
  <2>2. p \in Texts /\ t \in Texts /\ r \in Texts /\ <<>> \in Texts
    BY ChainTypes, TextClosed, TextLaws
  <2>3. Unshown = <<>> /\ Unshown' = <<>> /\ TextOf(<<>>) = <<>>
    BY <2>1, TextOfOne, TextTypes DEF Unshown
  <2>4. RunsIn(todo) = RunsOf(t)
    BY RunsInIs, TextTypes DEF TextsOK
  <2>5. Accounted(p \o (<<>> \o (t \o r)), spoken, failed, suppressed)
    BY <2>1, <2>3 DEF WordsInv, Chain
  <2>6. Chain' = p \o (<<>> \o (<<>> \o r))
    BY <2>1, <2>3 DEF Chain
  <2> HIDE DEF p, t, r
  <2>7. Accounted(p \o (<<>> \o (<<>> \o r)), spoken, (failed \union RunsOf(<<>>)) \union RunsOf(t), suppressed)
    BY <2>2, <2>5, MiddleLost
  <2>8. RunsOf(<<>>) = {}
    BY DEF RunsOf
  <2>9. failed' = (failed \union RunsOf(<<>>)) \union RunsOf(t)
    BY <2>1, <2>4, <2>8
  <2> QED BY <2>1, <2>6, <2>7, <2>9 DEF Accounted, WordsInv
<1>5. CASE Translate \/ MtAuth \/ MtError
  <2>1. CASE Translate /\ pc' = "mt"
    BY <2>1, StillWords DEF WordsInv
  <2>2. pc \in {"translate", "mt"} /\ (GiveUp \/ (Translate /\ pc' = "mt"))
        /\ UNCHANGED <<mode, buffer, held, pieces, pane, spoken, suppressed>>
    BY <1>5 DEF Translate, MtAuth, MtError, textVars, outVars
  <2>3. CASE GiveUp
    BY <2>2, <2>3, GiveUpWords DEF WordsInv
  <2> QED BY <2>1, <2>2, <2>3
<1>6. CASE MtOk
  BY <1>6, MtOkWords DEF WordsInv
<1>7. CASE Speak \/ Voice \/ TtsAnswer \/ Finish
  BY <1>7, StillWords DEF WordsInv
<1>8. CASE AgedFlush \/ DrainHeld
  BY <1>8, HeldWords DEF WordsInv
<1>9. CASE Drain
  BY <1>9, DrainWords DEF WordsInv
<1> QED
  BY <1>1, <1>2, <1>3, <1>4, <1>5, <1>6, <1>7, <1>8, <1>9, QuietOrLoud DEF LoudStep

\* What must be known of every state to keep the accounts.
AccountsInv ==
  /\ PlaceOK /\ CountersOK /\ BatchInv /\ TodoInv /\ HeardInv /\ TextsOK /\ WordsInv
  /\ spoken \in Texts

\* It holds when the task starts.
LEMMA AccountsInit == Init => AccountsInv
<1> SUFFICES ASSUME Init PROVE AccountsInv
  OBVIOUS
<1>1. PlaceOK /\ CountersOK /\ BatchInv /\ TodoInv
  BY DEF Init, PlaceOK, Locations, Awaits, CountersOK, BatchInv, TodoInv
<1>2. <<>> \in Texts /\ RunsOf(<<>>) = {} /\ Sorted(<<>>)
  BY TextLaws DEF RunsOf, Sorted
<1>3. spoken = <<>> /\ HeardInv
  BY <1>2 DEF Init, HeardInv
<1>4. TextsOK
  BY TextTypes DEF Init, TextsOK
<1>5. Chain = <<>>
  <2>1. TextOf(<<>>) = <<>>
    BY TextOfOne, TextTypes
  <2>2. Unshown = <<>>
    BY <2>1 DEF Init, Unshown
  <2>3. Chain = <<>> \o (<<>> \o (<<>> \o (<<>> \o (<<>> \o <<>>))))
    BY <2>1, <2>2, TextTypes DEF Init, Chain
  <2>4. <<>> \o <<>> = <<>>
    BY <1>2, TextLaws
  <2> QED BY <2>3, <2>4
<1>6. WordsInv
  BY <1>2, <1>3, <1>5 DEF Init, WordsInv, Accounted
<1> QED BY <1>1, <1>2, <1>3, <1>4, <1>6 DEF AccountsInv

\* Every step keeps it.
LEMMA AccountsStep == AccountsInv /\ [Next]_vars => AccountsInv'
  BY PlaceStep, CountersStep, BatchStep, TodoStep, HeardStep, TextsStep, WordsStep DEF AccountsInv

\* The words under way and shown are those of the chain, each counted once.
LEMMA KeptWords ==
  ASSUME TextsOK, Accounted(Chain, spoken, failed, suppressed)
  PROVE  LET kept == UnderWay \o TextOf(pane)
         IN  /\ RunsOf(spoken) = RunsOf(kept) \union failed \union suppressed
             /\ Len(spoken) = Len(kept) + Cardinality(failed) + Cardinality(suppressed)
<1> DEFINE p == TextOf(pane)
           u == Unshown
           t == TextOf(todo)
           h == held.text
           x == TextOf(pieces)
           b == buffer.text
           kept == UnderWay \o p
<1>1. kept = ((((b \o h) \o x) \o t) \o u) \o p
  BY DEF UnderWay, Unshown
<1>2. Chain = p \o (u \o (t \o (h \o (x \o b))))
  BY DEF Chain
<1>3. /\ p \in Texts /\ u \in Texts /\ t \in Texts
      /\ h \in Texts /\ x \in Texts /\ b \in Texts
  BY ChainTypes
<1> HIDE DEF p, u, t, h, x, b, kept
<1>4. /\ kept \in Texts /\ Len(kept) = Len(Chain)
      /\ RunsOf(kept) = RunsOf(Chain)
  <2>1. /\ b \o h \in Texts /\ RunsOf(b \o h) = RunsOf(b) \union RunsOf(h)
        /\ Len(b \o h) = Len(b) + Len(h)
    BY <1>3, TextLaws, RunsOfConcat
  <2>2. /\ (b \o h) \o x \in Texts /\ RunsOf((b \o h) \o x) = RunsOf(b \o h) \union RunsOf(x)
        /\ Len((b \o h) \o x) = Len(b \o h) + Len(x)
    BY <1>3, <2>1, TextLaws, RunsOfConcat
  <2>3. /\ ((b \o h) \o x) \o t \in Texts
        /\ RunsOf(((b \o h) \o x) \o t) = RunsOf((b \o h) \o x) \union RunsOf(t)
        /\ Len(((b \o h) \o x) \o t) = Len((b \o h) \o x) + Len(t)
    BY <1>3, <2>2, TextLaws, RunsOfConcat
  <2>4. /\ (((b \o h) \o x) \o t) \o u \in Texts
        /\ RunsOf((((b \o h) \o x) \o t) \o u) = RunsOf(((b \o h) \o x) \o t) \union RunsOf(u)
        /\ Len((((b \o h) \o x) \o t) \o u) = Len(((b \o h) \o x) \o t) + Len(u)
    BY <1>3, <2>3, TextLaws, RunsOfConcat
  <2>5. /\ kept \in Texts
        /\ RunsOf(kept) = RunsOf((((b \o h) \o x) \o t) \o u) \union RunsOf(p)
        /\ Len(kept) = Len((((b \o h) \o x) \o t) \o u) + Len(p)
    BY <1>1, <1>3, <2>4, TextLaws, RunsOfConcat
  <2>6. x \o b \in Texts /\ RunsOf(x \o b) = RunsOf(x) \union RunsOf(b) /\ Len(x \o b) = Len(x) + Len(b)
    BY <1>3, TextLaws, RunsOfConcat
  <2>7. /\ h \o (x \o b) \in Texts /\ RunsOf(h \o (x \o b)) = RunsOf(h) \union RunsOf(x \o b)
        /\ Len(h \o (x \o b)) = Len(h) + Len(x \o b)
    BY <1>3, <2>6, TextLaws, RunsOfConcat
  <2>8. /\ t \o (h \o (x \o b)) \in Texts
        /\ RunsOf(t \o (h \o (x \o b))) = RunsOf(t) \union RunsOf(h \o (x \o b))
        /\ Len(t \o (h \o (x \o b))) = Len(t) + Len(h \o (x \o b))
    BY <1>3, <2>7, TextLaws, RunsOfConcat
  <2>9. /\ u \o (t \o (h \o (x \o b))) \in Texts
        /\ RunsOf(u \o (t \o (h \o (x \o b)))) = RunsOf(u) \union RunsOf(t \o (h \o (x \o b)))
        /\ Len(u \o (t \o (h \o (x \o b)))) = Len(u) + Len(t \o (h \o (x \o b)))
    BY <1>3, <2>8, TextLaws, RunsOfConcat, ZenonT(60)
  <2>10. /\ RunsOf(Chain) = RunsOf(p) \union RunsOf(u \o (t \o (h \o (x \o b))))
         /\ Len(Chain) = Len(p) + Len(u \o (t \o (h \o (x \o b))))
    BY <1>2, <1>3, <2>9, TextLaws, RunsOfConcat
  <2>11. /\ Len(p) \in Nat /\ Len(u) \in Nat /\ Len(t) \in Nat /\ Len(h) \in Nat /\ Len(x) \in Nat
         /\ Len(b) \in Nat
    BY <1>3, TextLaws
  <2>12. RunsOf(kept) = RunsOf(Chain)
    BY <2>1, <2>2, <2>3, <2>4, <2>5, <2>6, <2>7, <2>8, <2>9, <2>10
  <2>13. Len(kept) = Len(Chain)
    BY <2>1, <2>2, <2>3, <2>4, <2>5, <2>6, <2>7, <2>8, <2>9, <2>10, <2>11
  <2> QED BY <2>5, <2>12, <2>13
<1>5. /\ Chain \in Texts /\ spoken \in Texts /\ Sorted(Chain) /\ Sorted(spoken)
      /\ RunsOf(spoken) = RunsOf(Chain) \union failed \union suppressed
      /\ RunsOf(Chain) \intersect (failed \union suppressed) = {}
      /\ failed \intersect suppressed = {}
  BY DEF Accounted
<1>6. /\ IsFiniteSet(RunsOf(Chain)) /\ Cardinality(RunsOf(Chain)) = Len(Chain)
      /\ IsFiniteSet(RunsOf(spoken)) /\ Cardinality(RunsOf(spoken)) = Len(spoken)
  BY <1>5, SortedCount
<1>7. IsFiniteSet(failed) /\ IsFiniteSet(suppressed)
  BY <1>5, <1>6, FS_Subset
<1>8. /\ IsFiniteSet(failed \union suppressed)
      /\ Cardinality(failed \union suppressed) = Cardinality(failed) + Cardinality(suppressed)
  <2>1. Cardinality(failed \intersect suppressed) = 0
    BY <1>5, FS_EmptySet
  <2>2. Cardinality(failed) \in Nat /\ Cardinality(suppressed) \in Nat
    BY <1>7, FS_CardinalityType
  <2>3. /\ IsFiniteSet(failed \union suppressed)
        /\ Cardinality(failed \union suppressed)
             = Cardinality(failed) + Cardinality(suppressed) - Cardinality(failed \intersect suppressed)
    BY <1>7, FS_Union
  <2> QED BY <2>1, <2>2, <2>3
<1>9. Cardinality(RunsOf(Chain) \union (failed \union suppressed))
        = Cardinality(RunsOf(Chain)) + Cardinality(failed \union suppressed)
  <2>1. Cardinality(RunsOf(Chain) \intersect (failed \union suppressed)) = 0
    BY <1>5, FS_EmptySet
  <2>2. Cardinality(RunsOf(Chain)) \in Nat /\ Cardinality(failed \union suppressed) \in Nat
    BY <1>6, <1>8, FS_CardinalityType
  <2>3. Cardinality(RunsOf(Chain) \union (failed \union suppressed))
          = Cardinality(RunsOf(Chain)) + Cardinality(failed \union suppressed)
              - Cardinality(RunsOf(Chain) \intersect (failed \union suppressed))
    BY <1>6, <1>8, FS_Union
  <2> QED BY <2>1, <2>2, <2>3
<1>10. RunsOf(spoken) = RunsOf(Chain) \union (failed \union suppressed)
  BY <1>5
<1>11. Len(kept) \in Nat /\ Cardinality(failed) \in Nat /\ Cardinality(suppressed) \in Nat
  BY <1>4, <1>7, TextLaws, FS_CardinalityType
<1>12. Len(spoken) = Len(kept) + Cardinality(failed) + Cardinality(suppressed)
  BY <1>4, <1>6, <1>8, <1>9, <1>10, <1>11
<1>13. RunsOf(spoken) = RunsOf(kept) \union failed \union suppressed
  BY <1>4, <1>5
<1> QED BY <1>12, <1>13 DEF kept, p

\* Every word of every final STT result is in exactly one place: on its way,
\* shown, given up after a failed or refused translation, or dropped as a
\* duplicate.
THEOREM WordsAccounted == Spec => []NoWordVanishes
<1>1. AccountsInv => NoWordVanishes
  BY KeptWords DEF AccountsInv, WordsInv, NoWordVanishes
<1>2. QED
  BY <1>1, AccountsInit, AccountsStep, PTL DEF Spec

-----------------------------------------------------------------------------
(* The subtitles are in the order of the speech.                           *)

\* What is shown, held and buffered is in order, after an abort too.
OrderInv == Sorted((TextOf(pane) \o held.text) \o buffer.text)

\* The chain is in order, and what is left of it without its middle.
LEMMA ChainOrder ==
  ASSUME TextsOK, Accounted(Chain, spoken, failed, suppressed)
  PROVE  OrderInv
<1> DEFINE p == TextOf(pane)
           u == Unshown
           t == TextOf(todo)
           h == held.text
           x == TextOf(pieces)
           b == buffer.text
<1>1. Sorted(p \o (u \o (t \o (h \o (x \o b)))))
  BY DEF Accounted, Chain
<1>2. /\ p \in Texts /\ u \in Texts /\ t \in Texts
      /\ h \in Texts /\ x \in Texts /\ b \in Texts
  BY ChainTypes
<1> HIDE DEF p, u, t, h, x, b
<1>3. x \o b \in Texts
  BY <1>2, TextClosed
<1>4. h \o (x \o b) \in Texts
  BY <1>2, <1>3, TextClosed
<1>5. t \o (h \o (x \o b)) \in Texts
  BY <1>2, <1>4, TextClosed
<1>6. Sorted(p \o (t \o (h \o (x \o b))))
  BY <1>1, <1>2, <1>5, ChainParts
<1>7. Sorted(p \o (h \o (x \o b)))
  BY <1>2, <1>4, <1>6, ChainParts
<1>8. (p \o h) \o (x \o b) = p \o (h \o (x \o b))
  <2>1. p \in Texts /\ h \in Texts
    BY <1>2
  <2> QED BY <1>3, <2>1, TextAssoc
<1>9. p \o h \in Texts
  BY <1>2, TextClosed
<1>10. Sorted((p \o h) \o b)
  BY <1>2, <1>7, <1>8, <1>9, ChainParts
<1> QED BY <1>10 DEF OrderInv, p, h, b

\* Only an abort, or nothing, leads to where an abort leads.
LEMMA AbortIsQuiet ==
  ASSUME PlaceOK, [Next]_vars, pc' = "aborted"
  PROVE  QuietStep \/ UNCHANGED vars
<1> SUFFICES ASSUME LoudStep PROVE FALSE
  BY QuietOrLoud
<1> USE DEF PlaceOK
<1>1. ASSUME NEW utterance \in Utterances, SttFinal(utterance) PROVE FALSE
  BY <1>1 DEF SttFinal
<1>2. CASE PushPiece \/ CommitHalted \/ Translate
  BY <1>2 DEF PushPiece, CommitHalted, Translate, GiveUp
<1>3. CASE MtOk \/ MtAuth \/ MtError
  BY <1>3 DEF MtOk, MtAuth, MtError, GiveUp
<1>4. CASE Speak \/ Voice \/ TtsAnswer \/ Finish
  BY <1>4 DEF Speak, Voice, TtsAnswer, TtsOk, TtsAuth, TtsError, NextVoice, Finish
<1>5. CASE AgedFlush \/ Drain \/ DrainHeld
  BY <1>5 DEF AgedFlush, Drain, DrainHeld, CommitHeld
<1> QED BY <1>1, <1>2, <1>3, <1>4, <1>5 DEF LoudStep

\* The order is kept.
LEMMA OrderStep == AccountsInv /\ OrderInv /\ AccountsInv' /\ [Next]_vars => OrderInv'
<1> SUFFICES ASSUME AccountsInv, OrderInv, AccountsInv', [Next]_vars PROVE OrderInv'
  OBVIOUS
<1>1. CASE pc' = "aborted"
  <2>1. UNCHANGED <<buffer, held, pane>>
    BY <1>1, AbortIsQuiet, QuietTexts DEF AccountsInv
  <2> QED BY <2>1 DEF OrderInv
<1>2. CASE pc' # "aborted"
  <2>1. (TextsOK /\ Accounted(Chain, spoken, failed, suppressed) => OrderInv)'
    BY ChainOrder, PTL
  <2> QED BY <1>2, <2>1 DEF AccountsInv, WordsInv
<1> QED BY <1>1, <1>2

\* The subtitles are in the order of the speech, whatever was buffered, held or
\* flushed in between, and what is on its way comes after them.
THEOREM SpokenOrder == Spec => []ShownInSpokenOrder
<1>1. Init => OrderInv
  <2>1. Init => AccountsInv /\ pc # "aborted"
    BY AccountsInit DEF Init
  <2> QED BY <2>1, ChainOrder DEF AccountsInv, WordsInv
<1>2. AccountsInv /\ OrderInv /\ [Next]_vars => (AccountsInv /\ OrderInv)'
  BY AccountsStep, OrderStep
<1>3. AccountsInv /\ OrderInv => ShownInSpokenOrder
  <2> SUFFICES ASSUME AccountsInv, OrderInv PROVE ShownInSpokenOrder
    OBVIOUS
  <2> DEFINE shown == (TextOf(pane) \o held.text) \o buffer.text
  <2>1. shown \in Texts
    BY ChainTypes, TextClosed DEF AccountsInv
  <2>2. Sorted(shown)
    BY DEF OrderInv
  <2> HIDE DEF shown
  <2>3. Len(shown) \in Nat
    BY <2>1 DEF Texts
  <2>4. \A i \in 1 .. Len(shown) - 1 : Before(shown[i], shown[i + 1])
    BY <2>2, <2>3 DEF Sorted
  <2> QED BY <2>4 DEF ShownInSpokenOrder, shown
<1>4. QED
  BY <1>1, <1>2, <1>3, AccountsInit, PTL DEF Spec

-----------------------------------------------------------------------------
(* Type correctness.                                                       *)

\* The deduplication windows.
Windows == {r \in Seq(Seq(Content)) : Len(r) <= DedupWindow}

\* One key more leaves the window within its bound.
LEMMA RecordKeyType ==
  ASSUME NEW r \in Windows, NEW k \in Seq(Content)
  PROVE  RecordKey(r, k) \in Windows
<1> DEFINE K == Seq(Content)
           longer == Append(r, k)
<1>1. r \in Seq(K) /\ Len(r) \in Nat /\ Len(r) <= DedupWindow
  BY DEF Windows
<1>2. DedupWindow \in Nat \ {0}
  BY SegmentationAssumption DEF SegmentationAssumption
<1>3. k \in K
  OBVIOUS
<1> HIDE DEF K
<1>4. longer \in Seq(K) /\ Len(longer) = Len(r) + 1 /\ longer # <<>>
  BY <1>1, <1>3
<1> HIDE DEF longer
<1>5. Tail(longer) \in Seq(K) /\ Len(Tail(longer)) = Len(r)
  BY <1>1, <1>4
<1>6. RecordKey(r, k) \in {r, IF Len(longer) > DedupWindow THEN Tail(longer) ELSE longer}
  BY DEF RecordKey, longer
<1> DEFINE w == IF Len(longer) > DedupWindow THEN Tail(longer) ELSE longer
<1>7. w \in Seq(K) /\ Len(w) <= DedupWindow
  BY <1>1, <1>2, <1>4, <1>5
<1> HIDE DEF w
<1>8. w \in Windows
  BY <1>7 DEF Windows, K
<1> QED BY <1>6, <1>8 DEF w

\* Nor do many.
LEMMA RecordKeysType ==
  ASSUME NEW r \in Windows, NEW keys \in Seq(Seq(Content))
  PROVE  RecordKeys(r, keys) \in Windows
<1> DEFINE N == Len(keys)
           More(w, n) == RecordKey(w, keys[n])
           Def(g) == [n \in 0 .. N |-> IF n = 0 THEN r ELSE More(g[n - 1], n)]
           trace == CHOOSE g : g = Def(g)
<1>1. RecordKeys(r, keys) = trace[N]
  BY DEF RecordKeys
<1>2. N \in Nat /\ \A n \in 1 .. N : keys[n] \in Seq(Content)
  OBVIOUS
<1>3. \A n \in 1 .. N, w \in Windows : More(w, n) \in Windows
  BY <1>2, RecordKeyType
<1> HIDE DEF N, More
<1> DEFINE step == [n \in 1 .. N |-> [w \in Windows |-> More(w, n)]]
<1>4. step \in [1 .. N -> [Windows -> Windows]] /\ \A n \in 1 .. N, w \in Windows : step[n][w] = More(w, n)
  BY <1>3
<1> HIDE DEF step
<1>5. Traces(Windows, r, N, step) # {}
  BY <1>2, <1>4, Recursion
<1>6. PICK f \in [0 .. N -> Windows] : f[0] = r /\ \A n \in 1 .. N : f[n] = step[n][f[n - 1]]
  BY <1>5 DEF Traces
<1>7. ASSUME NEW n \in 0 .. N PROVE f[n] = IF n = 0 THEN r ELSE More(f[n - 1], n)
  <2>1. CASE n = 0
    BY <1>6, <2>1
  <2>2. CASE n # 0
    <3>1. n \in 1 .. N /\ n - 1 \in 0 .. N
      BY <1>2, <2>2
    <3>2. f[n - 1] \in Windows
      BY <3>1
    <3> QED BY <1>4, <1>6, <2>2, <3>1, <3>2
  <2> QED BY <2>1, <2>2
<1>8. f = Def(f)
  BY <1>7
<1>9. trace = Def(trace)
  <2> HIDE DEF Def
  <2> QED BY <1>8
<1> HIDE DEF trace
<1>10. \A n \in 0 .. N : trace[n] = IF n = 0 THEN r ELSE More(trace[n - 1], n)
  BY <1>9
<1> HIDE DEF Def
<1> DEFINE T == {n \in Nat : n <= N => trace[n] \in Windows}
<1>11. 0 \in T
  <2>1. 0 \in 0 .. N
    BY <1>2
  <2> QED BY <1>10, <2>1
<1>12. ASSUME NEW n \in Nat, n \in T PROVE n + 1 \in T
  <2> SUFFICES ASSUME n + 1 <= N PROVE trace[n + 1] \in Windows
    OBVIOUS
  <2>1. n + 1 \in 0 .. N /\ n + 1 \in 1 .. N /\ n + 1 # 0 /\ (n + 1) - 1 = n /\ n <= N
    BY <1>2
  <2>2. trace[n] \in Windows
    BY <1>12, <2>1
  <2>3. trace[n + 1] = More(trace[n], n + 1)
    BY <1>10, <2>1
  <2> QED BY <1>3, <2>1, <2>2, <2>3
<1> HIDE DEF T
<1>13. \A n \in Nat : n \in T
  BY <1>11, <1>12, Induct
<1> QED BY <1>1, <1>2, <1>13 DEF T

\* The keys given out with a batch of segments.
LEMMA KeysType ==
  ASSUME NEW s \in Seq(Segment)
  PROVE  FlattenSeq([i \in 1 .. Len(s) |-> s[i].keys]) \in Seq(Seq(Content))
<1> DEFINE K == Seq(Content)
           e(i) == s[i].keys
<1>1. Len(s) \in Nat /\ \A i \in 1 .. Len(s) : s[i] \in Segment
  OBVIOUS
<1>2. \A i \in 1 .. Len(s) : e(i) \in Seq(K)
  BY <1>1 DEF Segment
<1> HIDE DEF e, K
<1>3. [i \in 1 .. Len(s) |-> e(i)] \in Seq(Seq(K))
  BY <1>1, <1>2
<1>4. FlattenSeq([i \in 1 .. Len(s) |-> e(i)]) \in Seq(K)
  BY <1>3, FlatType
<1> QED BY <1>4 DEF e, K

\* The window of deduplication keys keeps its type and its bound.
LEMMA DedupStep == PlaceOK /\ TodoInv /\ TextsOK /\ DedupOK /\ [Next]_vars => DedupOK'
<1> SUFFICES ASSUME PlaceOK, TodoInv, TextsOK, DedupOK, [Next]_vars PROVE DedupOK'
  OBVIOUS
<1>1. CASE MtOk
  <2> DEFINE translated == Append(done, Head(todo))
             keys == FlattenSeq([i \in 1 .. Len(translated) |-> translated[i].keys])
  <2>1. pc = "mt" /\ recent' \in {recent, RecordKeys(recent, keys)}
    BY <1>1 DEF MtOk
  <2>2. todo # <<>> /\ todo \in Seq(Segment) /\ done \in Seq(Segment)
    BY <2>1 DEF TodoInv, TextsOK
  <2>3. Head(todo) \in Segment
    BY <2>2
  <2>4. translated \in Seq(Segment)
    BY <2>2, <2>3
  <2> HIDE DEF translated
  <2>5. keys \in Seq(Seq(Content))
    BY <2>4, KeysType
  <2> HIDE DEF keys
  <2>6. recent \in Windows
    BY DEF DedupOK, Windows
  <2>7. recent' \in Windows
    BY <2>1, <2>5, <2>6, RecordKeysType
  <2> QED BY <2>7 DEF DedupOK, Windows
<1>2. ASSUME recent' = recent PROVE DedupOK'
  BY <1>2 DEF DedupOK
<1>3. CASE QuietStep \/ UNCHANGED vars
  BY <1>2, <1>3, QuietTexts
<1>4. ASSUME NEW utterance \in Utterances, SttFinal(utterance) PROVE DedupOK'
  BY <1>2, <1>4 DEF SttFinal
<1>5. CASE LoudStep /\ ~MtOk /\ ~(\E utterance \in Utterances : SttFinal(utterance))
  BY <1>2, <1>5 DEF LoudStep, PushPiece, CommitHalted, Translate, MtAuth, MtError, Speak, Voice,
     TtsAnswer, TtsOk, TtsAuth, TtsError, NextVoice, Finish, AgedFlush, Drain, DrainHeld,
     textVars
<1> QED BY <1>1, <1>3, <1>4, <1>5, QuietOrLoud

\* The window fills up only to be sent, and only so many windows are numbered.
LEMMA WindowStep == PlaceOK /\ CountersOK /\ PendingInv /\ WindowOK /\ [Next]_vars => (PendingInv /\ WindowOK)'
<1> SUFFICES ASSUME PlaceOK, CountersOK, PendingInv, WindowOK, [Next]_vars PROVE (PendingInv /\ WindowOK)'
  OBVIOUS
<1>1. /\ WindowCap \in Nat \ {0} /\ MaxWindows \in Nat /\ pending \in Nat /\ seq \in Nat
  BY OrchestratorAssumption DEF OrchestratorAssumption, CountersOK
<1>2. /\ pc # "flush" => pending < WindowCap
      /\ pending > 0 => seq < MaxWindows
      /\ pending < 2 * WindowCap /\ seq <= MaxWindows
  BY DEF PendingInv, WindowOK
<1> SUFFICES /\ pc' # "flush" => pending' < WindowCap
             /\ pending' > 0 => seq' < MaxWindows
             /\ pending' < 2 * WindowCap /\ seq' <= MaxWindows
  BY DEF PendingInv, WindowOK
<1> USE DEF PlaceOK, windowVars
<1>3. CASE RecvSpeech
  <2>1. PICK chunks \in 1 .. (IF HasVad THEN WindowCap ELSE 1) : pending' = pending + chunks
    BY <1>3 DEF RecvSpeech
  <2>2. chunks \in 1 .. WindowCap
    BY <1>1, <2>1
  <2>3. /\ pc = "select" /\ seq < MaxWindows /\ seq' = seq
        /\ pending' >= WindowCap => pc' = "flush"
    BY <1>3 DEF RecvSpeech
  <2> QED BY <1>1, <1>2, <2>1, <2>2, <2>3
<1>4. CASE RecvIgnored \/ FlushNothing
  <2>1. pending' = 0 /\ seq' = seq
    BY <1>4 DEF RecvIgnored, FlushNothing
  <2> QED BY <1>1, <1>2, <2>1
<1>5. CASE FlushWindow
  <2>1. pending > 0 /\ pending' = 0 /\ seq' = seq + 1
    BY <1>5 DEF FlushWindow
  <2> QED BY <1>1, <1>2, <2>1
<1>6. ASSUME UNCHANGED <<pending, seq>>, pc = "flush" => pc' = "flush" \/ pc' = pc
      PROVE  /\ pc' # "flush" => pending' < WindowCap
             /\ pending' > 0 => seq' < MaxWindows
             /\ pending' < 2 * WindowCap /\ seq' <= MaxWindows
  BY <1>2, <1>6
<1>7. CASE RecvClosed \/ RecvSilence \/ RecvEndOfUtterance
  BY <1>6, <1>7 DEF RecvClosed, RecvSilence, RecvEndOfUtterance
<1>8. CASE Sleep
  BY <1>6, <1>8 DEF Sleep
<1>9. CASE SttAnswer
  BY <1>6, <1>9 DEF SttAnswer, SttEmpty, SttPartial, SttAuth, SttLocalUnavailable, SttError, SttFinal
<1>10. CASE MtAnswer
  BY <1>6, <1>10 DEF MtAnswer, MtOk, MtAuth, MtError
<1>11. CASE TtsAnswer
  BY <1>6, <1>11 DEF TtsAnswer, TtsOk, TtsAuth, TtsError, NextVoice
<1>12. CASE Top \/ PushPiece \/ Aggregated \/ CommitHalted \/ Translate \/ Speak \/ Voice \/ Finish
  BY <1>6, <1>12 DEF Top, PushPiece, Aggregated, CommitHalted, Translate, Speak, Voice, Finish
<1>13. CASE AgedNothing \/ AgedFlush \/ Drain \/ DrainHeld \/ Close
  BY <1>6, <1>13 DEF AgedNothing, AgedFlush, Drain, DrainHeld, Close
<1>14. CASE Outside
  BY <1>6, <1>14 DEF Outside, TogglePause, ToggleTts, RequestShutdown, Abort, Awaits, CloseChannel,
              ChangeCadence, CircuitElapses, TaskVars
<1>15. CASE UNCHANGED vars
  BY <1>6, <1>15 DEF vars
<1> QED
  BY <1>3, <1>4, <1>5, <1>7, <1>8, <1>9, <1>10, <1>11, <1>12, <1>13, <1>14, <1>15
  DEF Next, Receive, Proceed

\* What the recorder refused was recorded before.
LEMMA RefusedStep == PlaceOK /\ TodoInv /\ TextsOK /\ RefusedOK /\ [Next]_vars => RefusedOK'
<1> SUFFICES ASSUME PlaceOK, TodoInv, TextsOK, RefusedOK, [Next]_vars PROVE RefusedOK'
  OBVIOUS
<1>1. log \in Seq(Segment) /\ done \in Seq(Segment)
  BY DEF TextsOK
<1>2. ASSUME NEW s \in Seq(Segment), Record(s) PROVE RefusedOK'
  <2>1. PICK answer \in [1 .. Len(s) -> RecorderAnswers] :
          refused' = refused \union {Len(log) + i : i \in {j \in 1 .. Len(s) : answer[j] = "err"}}
    BY <1>2 DEF Record
  <2>2. log' = log \o s
    BY <1>2 DEF Record
  <2>3. Len(log) \in Nat /\ Len(s) \in Nat /\ Len(log \o s) = Len(log) + Len(s)
    BY <1>1
  <2>4. \A i \in 1 .. Len(s) : Len(log) + i \in 1 .. Len(log) + Len(s)
    BY <2>3
  <2>5. refused \subseteq 1 .. Len(log) + Len(s)
    BY <2>3 DEF RefusedOK
  <2>6. refused' \subseteq 1 .. Len(log) + Len(s)
    BY <2>1, <2>4, <2>5
  <2> QED BY <2>2, <2>3, <2>6 DEF RefusedOK
<1>3. ASSUME UNCHANGED <<log, refused>> PROVE RefusedOK'
  BY <1>3 DEF RefusedOK
<1>4. CASE MtOk
  <2> DEFINE translated == Append(done, Head(todo))
  <2>1. pc = "mt" /\ (Record(translated) \/ UNCHANGED <<log, refused>>)
    BY <1>4 DEF MtOk, outVars
  <2>2. Head(todo) \in Segment
    BY <2>1 DEF TodoInv, TextsOK
  <2>3. translated \in Seq(Segment)
    BY <1>1, <2>2
  <2> HIDE DEF translated
  <2> QED BY <1>2, <1>3, <2>1, <2>3
<1>5. CASE Finish
  <2>1. Record(done) \/ UNCHANGED <<log, refused>>
    BY <1>5 DEF Finish
  <2> QED BY <1>1, <1>2, <1>3, <2>1
<1>6. CASE QuietStep \/ UNCHANGED vars
  BY <1>3, <1>6, QuietTexts
<1>7. ASSUME NEW utterance \in Utterances, SttFinal(utterance) PROVE RefusedOK'
  BY <1>3, <1>7 DEF SttFinal
<1>8. CASE PushPiece \/ CommitHalted \/ Translate \/ MtAuth \/ MtError \/ Speak \/ Voice
           \/ TtsAnswer \/ AgedFlush \/ Drain \/ DrainHeld
  BY <1>3, <1>8 DEF PushPiece, CommitHalted, Translate, MtAuth, MtError, Speak, Voice,
     TtsAnswer, TtsOk, TtsAuth, TtsError, NextVoice, AgedFlush, Drain, DrainHeld, outVars
<1> QED BY <1>4, <1>5, <1>6, <1>7, <1>8, QuietOrLoud DEF LoudStep

\* What was lost or dropped was heard.
LEMMA HistoryStep == AccountsInv /\ AccountsInv' /\ HistoryOK /\ [Next]_vars => HistoryOK'
<1> SUFFICES ASSUME AccountsInv, AccountsInv', HistoryOK, [Next]_vars PROVE HistoryOK'
  OBVIOUS
<1>1. CASE pc' = "aborted"
  <2>1. UNCHANGED <<spoken, failed, suppressed>>
    BY <1>1, AbortIsQuiet, QuietTexts DEF AccountsInv
  <2> QED BY <2>1 DEF HistoryOK
<1>2. CASE pc' # "aborted"
  BY <1>2 DEF AccountsInv, WordsInv, Accounted, HistoryOK
<1> QED BY <1>1, <1>2

\* Every variable has its type in every reachable state: the texts as well as
\* the control state, the speech window and the window of keys within their
\* bounds, and what the recorder refused among what it was given.
THEOREM TypeCorrect == Spec => []TypeOK
<1>1. Init => ControlOK /\ AccountsInv /\ PendingInv /\ WindowOK /\ DedupOK /\ RefusedOK /\ HistoryOK
  <2> SUFFICES ASSUME Init
               PROVE  PendingInv /\ WindowOK /\ DedupOK /\ RefusedOK /\ HistoryOK
    BY ControlInit, AccountsInit
  <2>1. PendingInv /\ WindowOK
    BY OrchestratorAssumption DEF OrchestratorAssumption, Init, PendingInv, WindowOK
  <2>2. DedupOK
    BY SegmentationAssumption DEF SegmentationAssumption, Init, DedupOK
  <2>3. RefusedOK /\ HistoryOK
    BY TextLaws DEF Init, RefusedOK, HistoryOK
  <2> QED BY <2>1, <2>2, <2>3
<1>2. ControlOK /\ [Next]_vars => ControlOK'
  BY ControlStep
<1>3. /\ ControlOK /\ AccountsInv /\ PendingInv /\ WindowOK /\ DedupOK /\ RefusedOK /\ HistoryOK
      /\ [Next]_vars
      => (ControlOK /\ AccountsInv /\ PendingInv /\ WindowOK /\ DedupOK /\ RefusedOK /\ HistoryOK)'
  BY <1>2, AccountsStep, DedupStep, WindowStep, RefusedStep, HistoryStep DEF AccountsInv
<1>4. ControlOK /\ AccountsInv /\ PendingInv /\ WindowOK /\ DedupOK /\ RefusedOK /\ HistoryOK => TypeOK
  BY DEF TypeOK, AccountsInv
<1>5. QED
  BY <1>1, <1>3, <1>4, PTL DEF Spec
=============================================================================
