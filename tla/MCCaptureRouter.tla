-------------------------- MODULE MCCaptureRouter --------------------------
(* Instances of CaptureRouter for TLC. *)
EXTENDS CaptureRouter

CONSTANTS watcher, settings

TwoCallers == {watcher, settings}
=============================================================================
