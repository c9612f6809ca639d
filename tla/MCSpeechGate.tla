---------------------------- MODULE MCSpeechGate ----------------------------
(* Instances of SpeechGate for TLC. *)
EXTENDS SpeechGate, TLC

\* Speech is confirmed by three units of sound, in one chunk or several; the second quiet
\* chunk ends the padding, and two more units the utterance.
Timing == [min_speech |-> 3, speech_pad |-> 2, min_silence |-> 2, max_window |-> 5, idle_min |-> 2]

\* The pre-roll is shorter than the confirmation, longer or off; utterances are sent when
\* they end, or not; the CPU gate may refuse a window, or not.
Config(pre_roll, early_flush, is_local) ==
  Timing @@ [pre_roll |-> pre_roll, early_flush |-> early_flush, is_local |-> is_local]

MCConfigs == {Config(1, TRUE, FALSE), Config(4, FALSE, FALSE), Config(0, TRUE, TRUE)}
=============================================================================
