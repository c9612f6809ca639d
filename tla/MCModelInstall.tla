--------------------------- MODULE MCModelInstall ---------------------------
(* Values of the constants of ModelInstall for TLC. *)
EXTENDS ModelInstall, TLC

CONSTANTS program, command, encoder, vocab

MCStarts == {program}
MCCommands == {command}
MCBundle == <<encoder, vocab>>
MCLooked == {encoder}
\* The encoder has two blocks, so that it can be torn; the vocabulary one.
MCLength == (encoder :> 2) @@ (vocab :> 1)
=============================================================================
