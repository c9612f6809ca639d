--------------------------- MODULE MCAudioArchive ---------------------------
(* Instances of AudioArchive for TLC. *)
EXTENDS AudioArchive

\* Two chunks that share a file, and one larger than a file may be.
MCLengths == <<1, 1, 3>>
=============================================================================
