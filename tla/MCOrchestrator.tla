--------------------------- MODULE MCOrchestrator ---------------------------
(* Instances of Orchestrator for TLC. *)
EXTENDS Orchestrator

CONSTANTS hello, ok, bye

MCWords == {hello, ok, bye}
MCTiny == {ok}

R(word, mark) == [word |-> word, mark |-> mark]

\* Two sentences, a sentence with the beginning of the next, and a short text that is
\* held back and has a sentence end inside it.
PairUtterances ==
  {<<R(hello, "stop"), R(bye, "stop")>>, <<R(hello, "stop"), R(bye, "none")>>,
   <<R(ok, "stop"), R(ok, "none")>>}

\* With tiny texts, repeats and an inner comma.
ManyUtterances ==
  {<<R(hello, "stop")>>, <<R(hello, "none")>>, <<R(ok, "none")>>, <<R(ok, "stop")>>,
   <<R(hello, "stop"), R(bye, "none")>>, <<R(bye, "comma"), R(hello, "stop")>>}
=============================================================================
