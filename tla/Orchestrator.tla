---------------------------- MODULE Orchestrator ----------------------------
(***************************************************************************)
(* run_orchestrator of src/src/pipeline/mod.rs: the task that takes audio  *)
(* chunks, sends speech windows to speech-to-text (STT), the text to       *)
(* machine translation (MT), shows the pair, optionally speaks it (TTS)    *)
(* and records it.  One instance runs per slot.                            *)
(*                                                                         *)
(* pc is where the task is.  Every .await of the code is a place where it  *)
(* can be ("select", "stt", "mt", "tts", "close"), and so is every read of *)
(* a flag another thread writes; what the user interface does (pausing,    *)
(* switching speech on and off, quitting) happens between any two steps.   *)
(* The retries of with_retry are inside one answer of a provider.          *)
(***************************************************************************)
EXTENDS SentenceAggregator, CircuitBreaker

CONSTANTS Utterances,        \* what a final STT result may say: sequences of Content
          SttAnswers,        \* subset of {"final","partial","empty","auth","local","err"}
          MtAnswers,         \* subset of {"ok","auth","err"}
          TtsAnswers,        \* subset of {"ok","auth","err"}
          RecorderAnswers,   \* subset of {"ok","err"}
          Cadences,          \* values of streaming
          Controls,          \* subset of {"pause","tts"}: the switches the user works
          WindowCap,         \* chunks in a full speech window (pipeline_max_window_ms)
          MaxWindows,        \* BOUND: speech windows heard in a behaviour
          ProviderIsLocal,   \* ctx.provider_is_local: the CPU gate may refuse windows
          LocalIsFatal,      \* ctx.local_unavailable_is_fatal
          HasVad,            \* ctx.vad_config is Some
          EarlyFlush,        \* ctx.pipeline_early_flush_on_vad_end
          HasJudge,          \* the aggregator has a CompletenessJudge
          TtsActive          \* ctx.tts_active_for_slot

ASSUME OrchestratorAssumption ==
  /\ Utterances \subseteq Seq(Content) \ {<<>>}
  /\ SttAnswers \subseteq {"final", "partial", "empty", "auth", "local", "err"}
  /\ MtAnswers \subseteq {"ok", "auth", "err"}
  /\ TtsAnswers \subseteq {"ok", "auth", "err"}
  /\ RecorderAnswers \subseteq {"ok", "err"} /\ RecorderAnswers # {}
  /\ Cadences \subseteq BOOLEAN
  /\ WindowCap \in Nat \ {0}
  /\ MaxWindows \in Nat
  /\ {ProviderIsLocal, LocalIsFatal, HasVad, EarlyFlush, HasJudge, TtsActive} \subseteq BOOLEAN

VARIABLES
  paused, ttsEnabled, shutdown,   \* flags the user interface writes
  streaming,   \* chunks arrive less than 50 ms apart: the sleep branch never wins
  closed,      \* the audio channel is closed and empty
  pc, after,   \* where the task is, and where it goes when this window is done with
  mode,        \* "window": process_chunk; "commit": commit_aggregated_segment
  pending,     \* chunks in the speech window
  seq,         \* number of the next window
  halted,      \* ctx.pipeline_halted, with the banner
  circuits,    \* ctx.provider_circuits
  sttState, ttsStatus,
  buffer, recent,              \* the stabilizer: pending_short and the dedup window
  held,                        \* the sentence aggregator
  pieces, todo, done, voice,   \* of this batch: to aggregate, to translate, translated, to speak
  pane, partial,               \* the subtitle pane: committed pairs; an interim line is shown
  log, refused,                \* segments given to the recorder; which of them it refused
  total, dropped,              \* ctx.loss_metrics
  spoken, failed, suppressed   \* history: all that STT said; lost in MT; dropped as duplicate

uiVars == <<paused, ttsEnabled, shutdown>>
envVars == <<streaming, closed>>
textVars == <<buffer, recent, held>>
batchVars == <<pieces, todo, done, voice>>
outVars == <<pane, partial, log, refused>>
lossVars == <<total, dropped>>
historyVars == <<spoken, failed, suppressed>>
statusVars == <<halted, circuits, sttState, ttsStatus>>
windowVars == <<pending, seq>>
vars == <<uiVars, envVars, pc, after, mode, windowVars, statusVars, textVars,
          batchVars, outVars, lossVars, historyVars>>

Stages == {"stt", "mt", "tts"}
Awaits == {"select", "stt", "mt", "tts", "close"}
Locations == Awaits \union {"top", "flush", "aged", "aggregate", "translate", "speak",
                            "voice", "drain", "drainHeld", "stopped", "aborted"}
Ended == {"stopped", "aborted"}

TextOf(segments) == FlattenSeq([i \in 1..Len(segments) |-> segments[i].text])
RunsIn(segments) == UNION {RunsOf(segments[i].text) : i \in 1..Len(segments)}

Init ==
  /\ paused = FALSE /\ ttsEnabled \in BOOLEAN /\ shutdown = FALSE
  /\ streaming \in Cadences /\ closed = FALSE
  /\ pc = "top" /\ after = "top" /\ mode = "window"
  /\ pending = 0 /\ seq = 0
  /\ halted = FALSE
  /\ circuits = [s \in Stages |-> ClosedBreaker]
  /\ sttState = "Listening" /\ ttsStatus = "Ok"
  /\ buffer = NoFragment /\ recent = <<>> /\ held = NoSegment
  /\ pieces = <<>> /\ todo = <<>> /\ done = <<>> /\ voice = <<>>
  /\ pane = <<>> /\ partial = FALSE /\ log = <<>> /\ refused = {}
  /\ total = 0 /\ dropped = 0
  /\ spoken = <<>> /\ failed = {} /\ suppressed = {}

-----------------------------------------------------------------------------
(* The receive loop.                                                       *)

\* MUTANT of Top: the flag is not read.
TopUnaware ==
  /\ pc = "top"
  /\ pc' = "select"
  /\ UNCHANGED <<uiVars, envVars, after, mode, windowVars, statusVars, textVars, batchVars,
                 outVars, lossVars, historyVars>>

\* The head of the loop reads the shutdown flag.
Top ==
  /\ pc = "top"
  /\ IF shutdown THEN pc' = "flush" /\ after' = "drain"
                 ELSE pc' = "select" /\ after' = after
  /\ UNCHANGED <<uiVars, envVars, mode, windowVars, statusVars, textVars, batchVars,
                 outVars, lossVars, historyVars>>

\* recv returned None.
RecvClosed ==
  /\ pc = "select" /\ closed
  /\ pc' = "flush" /\ after' = "drain"
  /\ UNCHANGED <<uiVars, envVars, mode, windowVars, statusVars, textVars, batchVars,
                 outVars, lossVars, historyVars>>

\* A chunk while paused or halted: it and the window so far are thrown away.
RecvIgnored ==
  /\ pc = "select" /\ ~closed
  /\ paused \/ halted
  /\ pending' = 0
  /\ pc' = "top"
  /\ UNCHANGED <<uiVars, envVars, after, mode, seq, statusVars, textVars, batchVars,
                 outVars, lossVars, historyVars>>

\* A chunk the VAD gate suppresses.
RecvSilence ==
  /\ pc = "select" /\ ~closed /\ ~paused /\ ~halted
  /\ HasVad
  /\ pc' = "top"
  /\ UNCHANGED <<uiVars, envVars, after, mode, windowVars, statusVars, textVars, batchVars,
                 outVars, lossVars, historyVars>>

\* The chunk that ends an utterance: the window so far is sent at once, if
\* the configuration says so.
RecvEndOfUtterance ==
  /\ pc = "select" /\ ~closed /\ ~paused /\ ~halted
  /\ HasVad /\ EarlyFlush
  /\ pc' = "flush" /\ after' = "top"
  /\ UNCHANGED <<uiVars, envVars, mode, windowVars, statusVars, textVars, batchVars,
                 outVars, lossVars, historyVars>>

\* A chunk of speech, after those held while the VAD gate was confirming that
\* it is speech.  A full window is sent.
RecvSpeech ==
  /\ pc = "select" /\ ~closed /\ ~paused /\ ~halted
  /\ seq < MaxWindows
  /\ \E chunks \in 1 .. (IF HasVad THEN WindowCap ELSE 1) : pending' = pending + chunks
  /\ IF pending' >= WindowCap THEN pc' = "flush" /\ after' = "top"
                              ELSE pc' = "top" /\ after' = after
  /\ UNCHANGED <<uiVars, envVars, mode, seq, statusVars, textVars, batchVars, outVars,
                 lossVars, historyVars>>

\* MUTANT of Sleep: the held text is looked at only after an idle window was sent.
SleepForWindows ==
  /\ pc = "select" /\ ~closed /\ ~streaming
  /\ \/ pending > 0 /\ pc' = "flush" /\ after' = "aged"
     \/ pc' = "top" /\ after' = after
  /\ UNCHANGED <<uiVars, envVars, mode, windowVars, statusVars, textVars, batchVars, outVars,
                 lossVars, historyVars>>

\* Nothing arrived for 50 ms: send an idle window, then look at the held text.
Sleep ==
  /\ pc = "select" /\ ~closed /\ ~streaming
  /\ \/ pending > 0 /\ pc' = "flush" /\ after' = "aged"
     \/ pc' = "aged" /\ after' = after
  /\ UNCHANGED <<uiVars, envVars, mode, windowVars, statusVars, textVars, batchVars,
                 outVars, lossVars, historyVars>>

-----------------------------------------------------------------------------
(* flush_speech_window.                                                    *)

\* Paused or halted by now, refused by the CPU gate, or nothing to send.
FlushNothing ==
  /\ pc = "flush"
  /\ paused \/ halted \/ ProviderIsLocal \/ pending = 0
  /\ pending' = 0
  /\ pc' = after
  /\ UNCHANGED <<uiVars, envVars, after, mode, seq, statusVars, textVars, batchVars,
                 outVars, lossVars, historyVars>>

\* The window is counted and numbered and, unless the STT circuit is open,
\* the request is sent.
FlushWindow ==
  /\ pc = "flush"
  /\ ~paused /\ ~halted /\ pending > 0
  /\ pending' = 0 /\ seq' = seq + 1 /\ total' = total + 1
  /\ circuits' = [circuits EXCEPT !["stt"] = Asked(@, 0)]
  /\ IF IsOpen(circuits["stt"], 0)
     THEN sttState' = "Error" /\ dropped' = dropped + 1 /\ pc' = after
     ELSE sttState' = "Sending" /\ dropped' = dropped /\ pc' = "stt"
  /\ UNCHANGED <<uiVars, envVars, after, mode, halted, ttsStatus, textVars, batchVars,
                 outVars, historyVars>>

-----------------------------------------------------------------------------
(* process_chunk: the answer of STT.                                       *)

Success(stage) == circuits' = [circuits EXCEPT ![stage] = Succeeded(@)]
Failure(stage) == circuits' = [circuits EXCEPT ![stage] = Failed(@, 0)]

\* An empty result.
SttEmpty ==
  /\ pc = "stt" /\ "empty" \in SttAnswers
  /\ Success("stt")
  /\ sttState' = "Listening"
  /\ pc' = after
  /\ UNCHANGED <<uiVars, envVars, after, mode, windowVars, halted, ttsStatus, textVars,
                 batchVars, outVars, lossVars, historyVars>>

\* An interim result is shown and not translated.
SttPartial ==
  /\ pc = "stt" /\ "partial" \in SttAnswers
  /\ Success("stt")
  /\ sttState' = "Listening"
  /\ partial' = TRUE
  /\ pc' = after
  /\ UNCHANGED <<uiVars, envVars, after, mode, windowVars, halted, ttsStatus, textVars,
                 batchVars, pane, log, refused, lossVars, historyVars>>

\* A final result: filter_with_context decides whether it is a duplicate, too
\* short to stand alone, or text for the aggregator.
SttFinal(utterance) ==
  LET new == [text |-> Heard(seq - 1, utterance), ctx |-> seq - 1]
      full == MergePending(buffer, new)
      duplicate == IsDuplicate(recent, full.text)
      short == ~duplicate /\ TooShort(full.text)
  IN  /\ pc = "stt" /\ "final" \in SttAnswers
      /\ Success("stt")
      /\ spoken' = spoken \o new.text
      /\ suppressed' = IF duplicate THEN suppressed \union RunsOf(full.text) ELSE suppressed
      /\ buffer' = IF short THEN full ELSE NoFragment
      /\ IF duplicate \/ short
         THEN /\ sttState' = "Listening" /\ partial' = FALSE
              /\ pc' = after
              /\ UNCHANGED <<mode, pieces>>
         ELSE /\ sttState' = "Waiting" /\ partial' = partial
              /\ mode' = "window" /\ pieces' = Pieces(full)
              /\ pc' = "aggregate"
      /\ UNCHANGED <<uiVars, envVars, after, windowVars, halted, ttsStatus, recent, held,
                     todo, done, voice, pane, log, refused, lossVars, failed>>

\* handle_auth_error: nothing but a restart gets out of this.
SttAuth ==
  /\ pc = "stt" /\ "auth" \in SttAnswers
  /\ halted' = TRUE
  /\ pc' = after
  /\ UNCHANGED <<uiVars, envVars, after, mode, windowVars, circuits, sttState, ttsStatus,
                 textVars, batchVars, outVars, lossVars, historyVars>>

\* The local model is missing or broken and nothing stands in for it.
SttLocalUnavailable ==
  /\ pc = "stt" /\ "local" \in SttAnswers /\ LocalIsFatal
  /\ halted' = TRUE
  /\ dropped' = dropped + 1
  /\ pc' = after
  /\ UNCHANGED <<uiVars, envVars, after, mode, windowVars, circuits, sttState, ttsStatus,
                 textVars, batchVars, outVars, total, historyVars>>

SttError ==
  /\ pc = "stt" /\ "err" \in SttAnswers
  /\ Failure("stt")
  /\ sttState' = "Error"
  /\ dropped' = dropped + 1
  /\ pc' = after
  /\ UNCHANGED <<uiVars, envVars, after, mode, windowVars, halted, ttsStatus, textVars,
                 batchVars, outVars, total, historyVars>>

-----------------------------------------------------------------------------
(* SentenceAggregator::push, one piece of text at a time.                  *)

PushPiece ==
  LET joined == Join(held, Head(pieces))
      tail == HeldAfter(joined)
  IN  /\ pc = "aggregate" /\ pieces # <<>>
      /\ pieces' = Tail(pieces)
      /\ \/ /\ todo' = todo \o Sentences(joined)
            /\ held' = tail
         \/ /\ HasJudge /\ tail # NoSegment   \* the judge finds the tail complete
            /\ todo' = todo \o Append(Sentences(joined), tail)
            /\ held' = NoSegment
      /\ UNCHANGED <<uiVars, envVars, pc, after, mode, windowVars, statusVars, buffer, recent,
                     done, voice, outVars, lossVars, historyVars>>

Aggregated ==
  /\ pc = "aggregate" /\ pieces = <<>>
  /\ IF todo = <<>>
     THEN /\ pc' = after
          /\ IF mode = "window" THEN sttState' = "Listening" /\ partial' = FALSE
                                ELSE UNCHANGED <<sttState, partial>>
     ELSE pc' = "translate" /\ UNCHANGED <<sttState, partial>>
  /\ UNCHANGED <<uiVars, envVars, after, mode, windowVars, halted, circuits, ttsStatus,
                 textVars, batchVars, pane, log, refused, lossVars, historyVars>>

-----------------------------------------------------------------------------
(* Translation: the MT loop of process_chunk ("window") and                *)
(* commit_aggregated_segment ("commit").                                   *)

\* A segment that cannot be translated: process_chunk returns, and loses what
\* it already translated in this batch; a commit loses its one segment.
GiveUp ==
  /\ done' = <<>>
  /\ IF mode = "window"
     THEN /\ failed' = failed \union RunsIn(done) \union RunsIn(todo)
          /\ todo' = <<>>
          /\ pc' = after
     ELSE /\ failed' = failed \union RunsOf(Head(todo).text)
          /\ todo' = Tail(todo)
          /\ pc' = IF todo' = <<>> THEN after ELSE "translate"

\* process_chunk goes back to Listening when it gives up; a commit has not
\* touched the STT state.
ListenAgain == sttState' = IF mode = "window" THEN "Listening" ELSE sttState

\* A commit looks at the halt flag first, and so does the loop around it.
CommitHalted ==
  /\ pc = "translate" /\ mode = "commit" /\ halted
  /\ failed' = failed \union RunsIn(todo)
  /\ todo' = <<>>
  /\ pc' = after
  /\ UNCHANGED <<uiVars, envVars, after, mode, windowVars, statusVars, textVars, pieces,
                 done, voice, outVars, lossVars, spoken, suppressed>>

Translate ==
  /\ pc = "translate" /\ ~(mode = "commit" /\ halted)
  /\ circuits' = [circuits EXCEPT !["mt"] = Asked(@, 0)]
  /\ IF IsOpen(circuits["mt"], 0)
     THEN /\ GiveUp
          /\ ListenAgain
          /\ dropped' = dropped + 1
     ELSE /\ pc' = "mt"
          /\ UNCHANGED <<todo, done, failed, sttState, dropped>>
  /\ UNCHANGED <<uiVars, envVars, after, mode, windowVars, halted, ttsStatus, textVars,
                 pieces, voice, outVars, total, spoken, suppressed>>

\* record_segment for these segments: the recorder may refuse any of them.
Record(segments) ==
  /\ log' = log \o segments
  /\ \E answer \in [1..Len(segments) -> RecorderAnswers] :
       refused' = refused \union {Len(log) + i : i \in {j \in 1..Len(segments) : answer[j] = "err"}}

\* A translation arrived.  In a window the last one shows the whole batch; a
\* commit shows, and records, its one segment.
MtOk ==
  LET translated == Append(done, Head(todo))
      complete == mode = "commit" \/ Tail(todo) = <<>>
  IN  /\ pc = "mt" /\ "ok" \in MtAnswers
      /\ Success("mt")
      /\ done' = translated /\ todo' = Tail(todo)
      /\ IF complete
         THEN /\ pane' = pane \o translated /\ partial' = FALSE
              /\ recent' = RecordKeys(recent,
                             FlattenSeq([i \in 1..Len(translated) |-> translated[i].keys]))
              /\ ListenAgain
              /\ IF mode = "commit" THEN Record(translated) ELSE UNCHANGED <<log, refused>>
              /\ pc' = "speak"
         ELSE /\ pc' = "translate"
              /\ UNCHANGED <<outVars, recent, sttState>>
      /\ UNCHANGED <<uiVars, envVars, after, mode, windowVars, halted, ttsStatus, buffer, held,
                     pieces, voice, lossVars, historyVars>>

\* MUTANT of MtAuth: on to the next segment.
MtAuthContinues ==
  /\ pc = "mt" /\ "auth" \in MtAnswers
  /\ halted' = TRUE
  /\ ListenAgain
  /\ failed' = failed \union RunsIn(done) \union RunsOf(Head(todo).text)
  /\ todo' = Tail(todo) /\ done' = <<>>
  /\ pc' = IF todo' = <<>> THEN after ELSE "translate"
  /\ UNCHANGED <<uiVars, envVars, after, mode, windowVars, circuits, ttsStatus, textVars,
                 pieces, voice, outVars, lossVars, spoken, suppressed>>

MtAuth ==
  /\ pc = "mt" /\ "auth" \in MtAnswers
  /\ halted' = TRUE
  /\ ListenAgain
  /\ GiveUp
  /\ UNCHANGED <<uiVars, envVars, after, mode, windowVars, circuits, ttsStatus, textVars,
                 pieces, voice, outVars, lossVars, spoken, suppressed>>

MtError ==
  /\ pc = "mt" /\ "err" \in MtAnswers
  /\ Failure("mt")
  /\ ListenAgain
  /\ dropped' = dropped + 1
  /\ GiveUp
  /\ UNCHANGED <<uiVars, envVars, after, mode, windowVars, halted, ttsStatus, textVars,
                 pieces, voice, outVars, total, spoken, suppressed>>

-----------------------------------------------------------------------------
(* Speech, after the subtitles are shown.                                  *)

\* The tts_enabled switch is read once for the batch.
Speak ==
  /\ pc = "speak"
  /\ voice' = IF ttsEnabled /\ TtsActive THEN done ELSE <<>>
  /\ pc' = "voice"
  /\ UNCHANGED <<uiVars, envVars, after, mode, windowVars, statusVars, textVars, pieces, todo,
                 done, outVars, lossVars, historyVars>>

Voice ==
  /\ pc = "voice" /\ voice # <<>>
  /\ circuits' = [circuits EXCEPT !["tts"] = Asked(@, 0)]
  /\ IF IsOpen(circuits["tts"], 0)
     THEN voice' = Tail(voice) /\ pc' = pc
     ELSE voice' = voice /\ pc' = "tts"
  /\ UNCHANGED <<uiVars, envVars, after, mode, windowVars, halted, sttState, ttsStatus,
                 textVars, pieces, todo, done, outVars, lossVars, historyVars>>

\* What every answer of TTS has in common: on to the next segment.
NextVoice ==
  /\ pc = "tts"
  /\ voice' = Tail(voice)
  /\ pc' = "voice"
  /\ UNCHANGED <<uiVars, envVars, after, mode, windowVars, sttState, textVars, pieces, todo,
                 done, outVars, lossVars, historyVars>>

TtsOk ==
  /\ NextVoice /\ "ok" \in TtsAnswers
  /\ Success("tts")
  /\ ttsStatus' = "Ok"
  /\ UNCHANGED halted

TtsAuth ==
  /\ NextVoice /\ "auth" \in TtsAnswers
  /\ ttsStatus' = "Halted"
  /\ halted' = TRUE
  /\ UNCHANGED circuits

TtsError ==
  /\ NextVoice /\ "err" \in TtsAnswers
  /\ Failure("tts")
  /\ ttsStatus' = "Degraded"
  /\ UNCHANGED halted

\* MUTANT of Finish: a halt by TTS returns before the recording.
FinishUnrecorded ==
  /\ pc = "voice" /\ voice = <<>>
  /\ IF mode = "window" /\ ~halted THEN Record(done) ELSE UNCHANGED <<log, refused>>
  /\ done' = <<>>
  /\ pc' = IF todo = <<>> THEN after ELSE "translate"
  /\ UNCHANGED <<uiVars, envVars, after, mode, windowVars, statusVars, textVars, pieces, todo,
                 voice, pane, partial, lossVars, historyVars>>

\* The batch is done with; a window is recorded only now.
Finish ==
  /\ pc = "voice" /\ voice = <<>>
  /\ IF mode = "window" THEN Record(done) ELSE UNCHANGED <<log, refused>>
  /\ done' = <<>>
  /\ pc' = IF todo = <<>> THEN after ELSE "translate"
  /\ UNCHANGED <<uiVars, envVars, after, mode, windowVars, statusVars, textVars, pieces, todo,
                 voice, pane, partial, lossVars, historyVars>>

-----------------------------------------------------------------------------
(* Text held back: on the timer, and when the loop has ended.              *)

\* poll_max_age finds nothing, or the pipeline is halted.
AgedNothing ==
  /\ pc = "aged"
  /\ pc' = "top"
  /\ UNCHANGED <<uiVars, envVars, after, mode, windowVars, statusVars, textVars, batchVars,
                 outVars, lossVars, historyVars>>

CommitHeld(next) ==
  /\ todo' = <<held>> /\ held' = NoSegment
  /\ mode' = "commit"
  /\ pc' = "translate" /\ after' = next

\* The held text has reached its maximum age.
AgedFlush ==
  /\ pc = "aged" /\ ~halted /\ held # NoSegment
  /\ CommitHeld("top")
  /\ UNCHANGED <<uiVars, envVars, windowVars, statusVars, buffer, recent, pieces, done, voice,
                 outVars, lossVars, historyVars>>

\* MUTANT of Drain: the end comes after the buffer's text, whatever is held.
DrainBufferOnly ==
  LET duplicate == IsDuplicate(recent, buffer.text)
  IN  /\ pc = "drain"
      /\ IF halted THEN pc' = "close" /\ UNCHANGED <<after, mode, buffer, pieces, suppressed>>
         ELSE IF buffer = NoFragment
         THEN pc' = "drainHeld" /\ UNCHANGED <<after, mode, buffer, pieces, suppressed>>
         ELSE /\ buffer' = NoFragment
              /\ suppressed' = IF duplicate THEN suppressed \union RunsOf(buffer.text)
                                            ELSE suppressed
              /\ IF duplicate THEN pc' = "drainHeld" /\ UNCHANGED <<after, mode, pieces>>
                 ELSE /\ pieces' = <<[text |-> buffer.text, ctx |-> buffer.ctx,
                                      key |-> Normalize(buffer.text)]>>
                      /\ mode' = "commit" /\ pc' = "aggregate" /\ after' = "close"
      /\ UNCHANGED <<uiVars, envVars, windowVars, statusVars, recent, held, todo, done, voice,
                     outVars, lossVars, spoken, failed>>

\* After the loop: flush_pending_stabilized_segment, unless halted.
Drain ==
  LET duplicate == IsDuplicate(recent, buffer.text)
  IN  /\ pc = "drain"
      /\ IF halted THEN pc' = "close" /\ UNCHANGED <<after, mode, buffer, pieces, suppressed>>
         ELSE IF buffer = NoFragment
         THEN pc' = "drainHeld" /\ UNCHANGED <<after, mode, buffer, pieces, suppressed>>
         ELSE /\ buffer' = NoFragment
              /\ suppressed' = IF duplicate THEN suppressed \union RunsOf(buffer.text)
                                            ELSE suppressed
              /\ IF duplicate THEN pc' = "drainHeld" /\ UNCHANGED <<after, mode, pieces>>
                 ELSE /\ pieces' = <<[text |-> buffer.text, ctx |-> buffer.ctx,
                                      key |-> Normalize(buffer.text)]>>
                      /\ mode' = "commit" /\ pc' = "aggregate" /\ after' = "drainHeld"
      /\ UNCHANGED <<uiVars, envVars, windowVars, statusVars, recent, held, todo, done, voice,
                     outVars, lossVars, spoken, failed>>

\* flush_pending_sentence_aggregator_segment.
DrainHeld ==
  /\ pc = "drainHeld"
  /\ IF held = NoSegment THEN pc' = "close" /\ UNCHANGED <<after, mode, todo, held>>
                         ELSE CommitHeld("close")
  /\ UNCHANGED <<uiVars, envVars, windowVars, statusVars, buffer, recent, pieces, done, voice,
                 outVars, lossVars, historyVars>>

\* The recorder has shut down.
Close ==
  /\ pc = "close"
  /\ pc' = "stopped"
  /\ UNCHANGED <<uiVars, envVars, after, mode, windowVars, statusVars, textVars, batchVars,
                 outVars, lossVars, historyVars>>

-----------------------------------------------------------------------------
(* What the rest of the program does.                                      *)

TaskVars == <<after, mode, windowVars, halted, sttState, ttsStatus, textVars, batchVars,
              outVars, lossVars, historyVars>>

TogglePause ==
  /\ "pause" \in Controls /\ ~shutdown /\ pc \notin Ended
  /\ paused' = ~paused
  /\ UNCHANGED <<ttsEnabled, shutdown, envVars, pc, circuits, TaskVars>>

ToggleTts ==
  /\ "tts" \in Controls /\ ~shutdown /\ pc \notin Ended
  /\ ttsEnabled' = ~ttsEnabled
  /\ UNCHANGED <<paused, shutdown, envVars, pc, circuits, TaskVars>>

\* finish_main after the event loop has ended.
RequestShutdown ==
  /\ ~shutdown
  /\ shutdown' = TRUE
  /\ UNCHANGED <<paused, ttsEnabled, envVars, pc, circuits, TaskVars>>

\* The task did not end within the two seconds it is given.
Abort ==
  /\ shutdown /\ pc \in Awaits
  /\ pc' = "aborted"
  /\ UNCHANGED <<uiVars, envVars, circuits, TaskVars>>

\* The source goes away.
CloseChannel ==
  /\ ~closed /\ pc \notin Ended
  /\ closed' = TRUE
  /\ UNCHANGED <<uiVars, streaming, pc, circuits, TaskVars>>

ChangeCadence ==
  /\ pc \notin Ended
  /\ streaming' \in Cadences \ {streaming}
  /\ UNCHANGED <<uiVars, closed, pc, circuits, TaskVars>>

\* PROVIDER_CIRCUIT_OPEN_MS have passed since the circuit opened.
CircuitElapses(stage) ==
  /\ pc \notin Ended
  /\ IsOpen(circuits[stage], 0)
  /\ circuits' = [circuits EXCEPT ![stage].openUntil = 0]
  /\ UNCHANGED <<uiVars, envVars, pc, TaskVars>>

-----------------------------------------------------------------------------
Receive == RecvClosed \/ RecvIgnored \/ RecvSilence \/ RecvEndOfUtterance \/ RecvSpeech

SttAnswer ==
  \/ SttEmpty \/ SttPartial \/ SttAuth \/ SttLocalUnavailable \/ SttError
  \/ \E utterance \in Utterances : SttFinal(utterance)
MtAnswer == MtOk \/ MtAuth \/ MtError
TtsAnswer == TtsOk \/ TtsAuth \/ TtsError

\* The steps between two awaits.
Proceed ==
  \/ Top \/ FlushNothing \/ FlushWindow
  \/ PushPiece \/ Aggregated \/ CommitHalted \/ Translate
  \/ Speak \/ Voice \/ Finish
  \/ AgedNothing \/ AgedFlush \/ Drain \/ DrainHeld \/ Close

Outside ==
  \/ TogglePause \/ ToggleTts \/ RequestShutdown \/ Abort \/ CloseChannel \/ ChangeCadence
  \/ \E stage \in Stages : CircuitElapses(stage)

Next == Receive \/ Sleep \/ SttAnswer \/ MtAnswer \/ TtsAnswer \/ Proceed \/ Outside

Spec == Init /\ [][Next]_vars

-----------------------------------------------------------------------------
(* Properties.                                                             *)

Texts == Seq(Run)
Fragment == [text : Texts, ctx : Nat]
Piece == [text : Texts, ctx : Nat, key : Seq(Content)]
Segment == [text : Texts, ctx : Nat, keys : Seq(Seq(Content)), split : Nat]

\* The control state: flags, places, counters, circuit breakers and statuses.
FlagsOK ==
  /\ paused \in BOOLEAN /\ ttsEnabled \in BOOLEAN /\ shutdown \in BOOLEAN
  /\ streaming \in BOOLEAN /\ closed \in BOOLEAN
  /\ halted \in BOOLEAN /\ partial \in BOOLEAN
PlaceOK ==
  /\ pc \in Locations
  /\ after \in {"top", "aged", "drain", "drainHeld", "close"}
  /\ mode \in {"window", "commit"}
CountersOK == pending \in Nat /\ seq \in Nat /\ total \in Nat /\ dropped \in Nat
CircuitsOK == circuits \in [Stages -> Breaker]
StatusOK ==
  /\ sttState \in {"Listening", "Sending", "Waiting", "Error"}
  /\ ttsStatus \in {"Ok", "Degraded", "Halted"}
ControlOK == FlagsOK /\ PlaceOK /\ CountersOK /\ CircuitsOK /\ StatusOK

\* The bounds of the window, the texts, the dedup window and the recorder.
WindowOK == pending < 2 * WindowCap /\ seq <= MaxWindows
TextsOK ==
  /\ buffer \in Fragment /\ held \in Segment /\ pieces \in Seq(Piece)
  /\ {todo, done, voice, pane, log} \subseteq Seq(Segment)
DedupOK == recent \in Seq(Seq(Content)) /\ Len(recent) <= DedupWindow
RefusedOK == refused \subseteq 1..Len(log)
HistoryOK == spoken \in Texts /\ failed \union suppressed \subseteq RunsOf(spoken)

\* Type invariant: every variable keeps its type, the texts included.
TypeOK == ControlOK /\ WindowOK /\ TextsOK /\ DedupOK /\ RefusedOK /\ HistoryOK

Begins(location) == pc # location /\ pc' = location

\* An authentication failure (or a local model that will never work) is final:
\* from that step on no window is sent to STT and no text to MT, whether the
\* request would come from the loop, from the timer, from the rest of a batch
\* or from the flushes after the loop (pipeline_halted, pipeline/mod.rs:229).
HaltStopsRequests == [][halted => halted' /\ ~Begins("stt") /\ ~Begins("mt")]_vars

\* A window is shown and not yet recorded.
Speaking == mode = "window" /\ pc \in {"speak", "voice", "tts"}

\* Words still on their way: buffered, held, or in the batch at work.
UnderWay ==
  buffer.text \o held.text \o TextOf(pieces) \o TextOf(todo) \o
    (IF Speaking \/ mode = "commit" THEN <<>> ELSE TextOf(done))

\* No word is lost without a reason and none is shown twice: every word of
\* every final STT result is in exactly one place - on its way, shown, given up
\* after a failed or refused translation, or dropped as a duplicate.
NoWordVanishes ==
  pc # "aborted" =>
  LET kept == UnderWay \o TextOf(pane)
  IN  /\ RunsOf(spoken) = RunsOf(kept) \union failed \union suppressed
      /\ Len(spoken) = Len(kept) + Cardinality(failed) + Cardinality(suppressed)

Before(r, s) == r.win < s.win \/ (r.win = s.win /\ r.pos < s.pos)

\* The subtitles are in the order of the speech, whatever was buffered by the
\* stabilizer, held by the aggregator or flushed by the timer in between, and
\* what is on its way comes after them.
ShownInSpokenOrder ==
  LET shown == TextOf(pane) \o held.text \o buffer.text
  IN  \A i \in 1 .. Len(shown) - 1 : Before(shown[i], shown[i + 1])

\* The recorder is given exactly the pairs that were shown, in that order.
\* Only the window being spoken is behind, because record_segment comes after
\* TTS: it is all that a task cut off by the two-second limit can leave out.
TranscriptFollowsPane ==
  /\ pc # "aborted" => pane = IF Speaking THEN log \o done ELSE log
  /\ pc = "aborted" => pane = log \/ (mode = "window" /\ pane = log \o done)

\* The key that suppresses repeats of a text is not recorded while words of that
\* text are still held back: "Do not commit the source fragment's dedup key until
\* every trailing word from that fragment has been translated"
\* (sentence_aggregator.rs:309).
KeysFollowTheirWords ==
  \A i \in 1 .. Len(held.keys), j \in 1 .. Len(recent) : recent[j] # held.keys[i]

\* Nothing of a batch is left behind: when the loop waits for audio no segment
\* is unfinished, and the STT state is not that of a request, unless the
\* request was the one that halted the pipeline.
RestIsClean ==
  pc \in {"top", "select", "aged"} =>
    /\ pieces = <<>> /\ todo = <<>> /\ done = <<>> /\ voice = <<>>
    /\ sttState # "Waiting"
    /\ sttState = "Sending" => halted

\* A task that ends by itself, and was not halted, has drained the stabilizer
\* and the aggregator and finished its last batch.
ShutdownDrains ==
  pc = "stopped" /\ ~halted =>
    /\ buffer = NoFragment /\ held = NoSegment
    /\ pieces = <<>> /\ todo = <<>> /\ done = <<>>

-----------------------------------------------------------------------------
(* Fairness.  The task's own steps and the answers of the providers (every *)
(* request has a timeout) come; audio that streams keeps coming; without   *)
(* it the 50 ms timer fires; a held text grows old.  Nothing is assumed of *)
(* the user, of a shutdown or of the two-second limit.                     *)

Fairness ==
  /\ WF_vars(Proceed) /\ WF_vars(SttAnswer) /\ WF_vars(MtAnswer) /\ WF_vars(TtsAnswer)
  /\ WF_vars(pc = "select" /\ (Receive \/ Sleep))
  /\ SF_vars(Sleep)
  /\ SF_vars(AgedFlush)

FairSpec == Spec /\ Fairness

\* A shutdown request ends the task, whatever it is waiting for: the loop sees
\* the flag, and the final flushes and the recorder's shutdown end too.
ShutdownEnds == shutdown ~> pc \in Ended

\* Text held for the end of its sentence does not stay held for ever: the
\* timer flushes it when no sentence end comes (flush_aged_..., mod.rs:1263),
\* unless chunks keep coming faster than the timer.  Nothing is said of a paused
\* pipeline: "when true, skip API calls" (mod.rs:238), which this flush is not
\* made to do.
HeldTextIsFlushed ==
  held # NoSegment ~> held = NoSegment \/ halted \/ pc \in Ended \/ streaming \/ paused
=============================================================================
