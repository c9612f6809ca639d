----------------------------- MODULE SpeechGate -----------------------------
(***************************************************************************)
(* From chunks of audio to windows of speech: the voice gate               *)
(* (src/src/audio/vad.rs) inside the receive loop of the pipeline          *)
(* (run_orchestrator and flush_speech_window in src/src/pipeline/mod.rs).  *)
(*                                                                         *)
(* A chunk has a duration and is loud or not.  The gate has five states    *)
(* and a counter of the time in the state; the loop holds what was loud    *)
(* too briefly to be speech, and the window that grows.  The user may      *)
(* pause at any moment: the loop looks when it receives a chunk and once   *)
(* more when it sends a window.  Orchestrator chooses the decisions of the *)
(* gate freely and goes on from the window; here they are what they are,   *)
(* and a window ends when it is sent.                                      *)
(*                                                                         *)
(* Speech_proofs extends this module and Playback, so the two share no     *)
(* name.                                                                   *)
(***************************************************************************)
EXTENDS Integers, Sequences, FiniteSets

CONSTANTS Configs,     \* the sections vad and pipeline of the configuration
          Durations,   \* the durations of a chunk
          MaxChunks,   \* BOUND: chunks received
          MaxPauses    \* BOUND: times the pause key is pressed

ASSUME SpeechGateAssumption ==
  /\ Configs \subseteq [min_speech : Nat \ {0}, speech_pad : Nat \ {0}, min_silence : Nat \ {0},
                        pre_roll : Nat, max_window : Nat \ {0}, idle_min : Nat \ {0},
                        early_flush : BOOLEAN, is_local : BOOLEAN]
  /\ Durations \subseteq Nat \ {0}
  /\ MaxChunks \in Nat /\ MaxPauses \in Nat

VARIABLES
  config,      \* chosen once
  received,    \* history: every chunk received, and if it was ignored
  gate,        \* VadGate::state
  state_ms,    \* VadGate::state_ms
  confirming,  \* vad_confirming_chunks, as records [n, dur]: the n-th chunk received
  pending_speech,  \* the window that grows, likewise
  idle,        \* last_pending_at is there
  paused, halted, presses,
  pc,          \* select, flush, done
  last,        \* the flush is the one after which the loop ends
  sent,        \* history: the windows, each with the number of chunks received by then
  lost         \* history: what a pause, a halt or the CPU gate took from the window

vadVars == <<gate, state_ms>>
uiVars == <<paused, presses>>
gateVars ==
  <<config, received, vadVars, confirming, pending_speech, idle, uiVars, halted, pc, last,
    sent, lost>>

GateInit ==
  /\ config \in Configs
  /\ received = <<>> /\ sent = <<>> /\ lost = {}
  /\ gate = "silence" /\ state_ms = 0
  /\ confirming = <<>> /\ pending_speech = <<>> /\ idle = FALSE
  /\ paused = FALSE /\ halted = FALSE /\ presses = 0
  /\ pc = "select" /\ last = FALSE

\* The time of some chunks.
Time(chunks) ==
  LET sum[i \in 0 .. Len(chunks)] == IF i = 0 THEN 0 ELSE sum[i - 1] + chunks[i].dur
  IN  sum[Len(chunks)]
Places(chunks) == {chunks[i].n : i \in 1 .. Len(chunks)}

-----------------------------------------------------------------------------
(* VadGate::process: the next state, its time and the decision.            *)

Step(to, ms, decision) == [gate |-> to, ms |-> ms, decision |-> decision]

FromSilence(chunk) ==
  IF ~chunk.loud THEN Step("silence", state_ms, "silence")
  ELSE IF chunk.dur >= config.min_speech THEN Step("speech", 0, "speech")
  ELSE Step("confirming", chunk.dur, "silence")

FromConfirming(chunk) ==
  IF ~chunk.loud THEN Step("silence", 0, "silence")
  ELSE IF state_ms + chunk.dur >= config.min_speech THEN Step("speech", 0, "speech")
  ELSE Step("confirming", state_ms + chunk.dur, "silence")

\* In speech, or in the padding after it.
WhileOpen(chunk) ==
  IF chunk.loud THEN Step("speech", 0, "speech")
  ELSE IF gate = "speech" THEN Step("pad-open", chunk.dur, "speech")
  ELSE IF state_ms + chunk.dur >= config.speech_pad THEN Step("pad-closed", 0, "silence")
  ELSE Step("pad-open", state_ms + chunk.dur, "speech")

\* After the padding: silence enough ends the utterance.
FromPadClosed(chunk) ==
  IF chunk.loud THEN Step("speech", 0, "speech")
  ELSE IF state_ms + chunk.dur >= config.min_silence THEN Step("silence", 0, "end")
  ELSE Step("pad-closed", state_ms + chunk.dur, "silence")

Process(chunk) ==
  IF gate = "silence" THEN FromSilence(chunk)
  ELSE IF gate = "confirming" THEN FromConfirming(chunk)
  ELSE IF gate = "pad-closed" THEN FromPadClosed(chunk)
  ELSE WhileOpen(chunk)

-----------------------------------------------------------------------------
(* The receive loop.                                                       *)

Chunk == [dur : Durations, loud : BOOLEAN]
Arrives(chunk, ignored) ==
  /\ pc = "select" /\ Len(received) < MaxChunks
  /\ received' = Append(received, [dur |-> chunk.dur, loud |-> chunk.loud, ignored |-> ignored])
Buffered(chunk) == [n |-> Len(received) + 1, dur |-> chunk.dur]

\* MUTANT of RecvIgnored: the window waits for the end of the pause.
RecvIgnoredOnly(chunk) ==
  /\ paused \/ halted
  /\ Arrives(chunk, TRUE)
  /\ confirming' = <<>> /\ gate' = "silence" /\ state_ms' = 0
  /\ UNCHANGED <<config, pending_speech, idle, uiVars, halted, pc, last, sent, lost>>

\* Paused or halted: everything is forgotten.
RecvIgnored(chunk) ==
  /\ paused \/ halted
  /\ Arrives(chunk, TRUE)
  /\ pending_speech' = <<>> /\ lost' = lost \union Places(pending_speech)
  /\ confirming' = <<>> /\ gate' = "silence" /\ state_ms' = 0 /\ idle' = FALSE
  /\ UNCHANGED <<config, uiVars, halted, pc, last, sent>>

Decided(chunk, decision) ==
  /\ ~paused /\ ~halted
  /\ Arrives(chunk, FALSE)
  /\ Process(chunk).decision = decision
  /\ gate' = Process(chunk).gate /\ state_ms' = Process(chunk).ms

\* MUTANT of Trim: the chunk that completes the pre-roll goes as well.
TrimShort(chunks) ==
  LET from == CHOOSE k \in 1 .. Len(chunks) + 1 : \A i \in 1 .. Len(chunks) :
                i >= k <=> Time(SubSeq(chunks, i, Len(chunks))) < config.pre_roll
  IN  SubSeq(chunks, from, Len(chunks))

\* The smallest suffix that covers the pre-roll.
Trim(chunks) ==
  LET from == CHOOSE k \in 1 .. Len(chunks) + 1 : \A i \in 1 .. Len(chunks) :
                i >= k <=> Time(SubSeq(chunks, i + 1, Len(chunks))) < config.pre_roll
  IN  SubSeq(chunks, from, Len(chunks))

\* MUTANT of RecvSilence: noise too short to be speech is not forgotten.
RecvSilenceOnly(chunk) ==
  /\ Decided(chunk, "silence")
  /\ confirming' = IF gate' = "confirming" THEN Trim(Append(confirming, Buffered(chunk)))
                                            ELSE confirming
  /\ UNCHANGED <<config, pending_speech, idle, uiVars, halted, pc, last, sent, lost>>

\* A chunk that is not speech, or not yet.
RecvSilence(chunk) ==
  /\ Decided(chunk, "silence")
  /\ confirming' = IF gate' = "confirming" THEN Trim(Append(confirming, Buffered(chunk)))
                                            ELSE <<>>
  /\ UNCHANGED <<config, pending_speech, idle, uiVars, halted, pc, last, sent, lost>>

\* Speech, with what led up to it.  A full window is sent.
RecvSpeech(chunk) ==
  /\ Decided(chunk, "speech")
  /\ pending_speech' = Append(pending_speech \o confirming, Buffered(chunk))
  /\ confirming' = <<>>
  /\ IF Time(pending_speech') >= config.max_window THEN pc' = "flush" /\ idle' = FALSE
                                                    ELSE pc' = pc /\ idle' = TRUE
  /\ UNCHANGED <<config, uiVars, halted, last, sent, lost>>

\* The chunk that ends an utterance; the window is sent if the configuration says so.
RecvEndOfUtterance(chunk) ==
  /\ Decided(chunk, "end")
  /\ confirming' = <<>>
  /\ IF config.early_flush THEN pc' = "flush" /\ idle' = FALSE ELSE UNCHANGED <<pc, idle>>
  /\ UNCHANGED <<config, pending_speech, uiVars, halted, last, sent, lost>>

\* No chunk for a while: the window is sent unless it is too short.
Sleep ==
  /\ pc = "select"
  /\ idle /\ pending_speech # <<>> /\ Time(pending_speech) >= config.idle_min
  /\ pc' = "flush" /\ idle' = FALSE
  /\ UNCHANGED <<config, received, vadVars, confirming, pending_speech, uiVars, halted, last,
                 sent, lost>>

\* The shutdown flag, or the end of the audio.
Close ==
  /\ pc = "select"
  /\ pc' = "flush" /\ last' = TRUE
  /\ UNCHANGED <<config, received, vadVars, confirming, pending_speech, idle, uiVars, halted,
                 sent, lost>>

-----------------------------------------------------------------------------
(* flush_speech_window.                                                    *)

Goes == pc' = IF last THEN "done" ELSE "select"

\* Paused or halted by now, refused by the CPU gate, or nothing to send.
FlushNothing ==
  /\ pc = "flush"
  /\ paused \/ halted \/ config.is_local \/ pending_speech = <<>>
  /\ pending_speech' = <<>> /\ lost' = lost \union Places(pending_speech)
  /\ Goes
  /\ UNCHANGED <<config, received, vadVars, confirming, idle, uiVars, halted, last, sent>>

\* The window is sent; a provider may refuse for good.
FlushWindow ==
  /\ pc = "flush"
  /\ ~paused /\ ~halted /\ pending_speech # <<>>
  /\ sent' = Append(sent, [chunks |-> pending_speech, at |-> Len(received)])
  /\ pending_speech' = <<>>
  /\ halted' \in BOOLEAN
  /\ Goes
  /\ UNCHANGED <<config, received, vadVars, confirming, idle, uiVars, last, lost>>

\* The pause key.
TogglePause ==
  /\ presses < MaxPauses /\ presses' = presses + 1
  /\ paused' = ~paused
  /\ UNCHANGED <<config, received, vadVars, confirming, pending_speech, idle, halted, pc, last,
                 sent, lost>>

-----------------------------------------------------------------------------
Recv(chunk) ==
  \/ RecvIgnored(chunk) \/ RecvSilence(chunk) \/ RecvSpeech(chunk) \/ RecvEndOfUtterance(chunk)

GateNext ==
  \/ \E chunk \in Chunk : Recv(chunk)
  \/ Sleep \/ Close \/ FlushNothing \/ FlushWindow \/ TogglePause

GateSpec == GateInit /\ [][GateNext]_gateVars

-----------------------------------------------------------------------------
(* Properties.  They say what speech is without the states of the gate, by *)
(* what was received alone.                                                *)

\* The time received from the i-th chunk to the j-th.
Heard(i, j) == Time(SubSeq(received, i, j))

\* The chunks from i to j are loud, and nobody paused.
Loud(i, j) == \A k \in i .. j : received[k].loud /\ ~received[k].ignored
Quiet(i, j) == \A k \in i .. j : ~received[k].loud /\ ~received[k].ignored

\* From the loud chunk i to the loud chunk j it is one utterance: the silence between is
\* shorter than the padding and the silence that ends an utterance, which is counted from
\* the chunk after the one, p, that ended the padding (never the first quiet one).
Bridged(i, j) ==
  /\ Quiet(i + 1, j - 1)
  /\ \/ i + 1 = j
     \/ \E p \in i + 1 .. j - 1 :
          /\ p <= i + 2 \/ Heard(i + 1, p - 1) < config.speech_pad
          /\ Heard(p + 1, j - 1) < config.min_silence

Forwarded == (UNION {Places(sent[w].chunks) : w \in 1 .. Len(sent)}) \union Places(pending_speech)
Onset(j) == j = 1 \/ ~Loud(j - 1, j - 1)

\* Sound that lasts long enough to be speech is in a window from its onset, as far back as
\* the pre-roll says, unless the window was dropped by a pause, a halt or the CPU gate.
SpeechIsKept ==
  \A j, o \in 1 .. Len(received) :
    (/\ j <= o /\ Loud(j, o) /\ Onset(j)
     /\ Heard(j, o) >= config.min_speech) =>
      \A i \in j .. o :
        i = o \/ Heard(i + 1, o - 1) < config.pre_roll => i \in Forwarded \union lost

\* What is sent was received while nobody paused, once and in order, and is speech: sound that
\* lasts long enough, or follows closely on speech; or the silence of the padding.
OnlySpeechIsSent ==
  LET windows == Append([w \in 1 .. Len(sent) |-> sent[w].chunks], pending_speech)
      speech == {i \in Forwarded \union lost : received[i].loud}
  IN  /\ \A v, w \in 1 .. Len(windows) : \A i \in 1 .. Len(windows[v]), j \in 1 .. Len(windows[w]) :
           v < w \/ (v = w /\ i < j) => windows[v][i].n < windows[w][j].n
      /\ \A i \in Forwarded :
           /\ ~received[i].ignored
           /\ IF received[i].loud
              THEN \E j \in 1 .. i :
                     /\ Loud(j, i)
                     /\ \/ \E k \in i .. Len(received) :
                             Loud(i, k) /\ Heard(j, k) >= config.min_speech
                        \/ \E l \in speech : l < j /\ Bridged(l, j)
              ELSE \E l \in speech :
                     /\ l < i /\ Quiet(l + 1, i)
                     /\ l + 1 = i \/ Heard(l + 1, i) < config.speech_pad

\* A window is not joined across a pause that the loop has noticed, and nothing received before
\* such a pause is sent after it.  If utterances are sent when they end, a window holds one.
WindowIsOneUtterance ==
  \A w \in 1 .. Len(sent) :
    LET places == Places(sent[w].chunks)
    IN  /\ \A i \in Head(sent[w].chunks).n .. sent[w].at : ~received[i].ignored
        /\ config.early_flush =>
             \A i, j \in {k \in places : received[k].loud} :
               (i < j /\ \A k \in places : i < k /\ k < j => ~received[k].loud) => Bridged(i, j)
=============================================================================
