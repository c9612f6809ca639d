------------------------- MODULE MCSessionRecorder -------------------------
(* The instance of SessionRecorder for TLC: all its constants are numbers. *)
EXTENDS SessionRecorder
=============================================================================
