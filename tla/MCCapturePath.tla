--------------------------- MODULE MCCapturePath ---------------------------
(* Instances of CapturePath for TLC. *)
EXTENDS CapturePath

CONSTANTS watcher, a, b

MCCallers == {watcher}
MCSlots == {a, b}
=============================================================================
