----------------------------- MODULE LossyFeed -----------------------------
(***************************************************************************)
(* What capturing promises a pipeline: it may miss audio, but what it      *)
(* hears was captured, comes in the order of capture, and comes once.      *)
(* Devices are ordered by when they were opened: audio of a device is      *)
(* never heard after audio of a later one.                                 *)
(***************************************************************************)
EXTENDS Integers, Sequences

CONSTANT Chunk   \* a set of records with fields stream and n

VARIABLES produced, got

vars == <<produced, got>>

Later(b, a) == b.stream > a.stream \/ (b.stream = a.stream /\ b.n > a.n)

Init == produced = {} /\ got = <<>>

Produce ==
  /\ \E chunk \in Chunk \ produced : produced' = produced \union {chunk}
  /\ UNCHANGED got

Hear ==
  /\ \E chunk \in produced :
       /\ \A i \in 1 .. Len(got) : Later(chunk, got[i])
       /\ got' = Append(got, chunk)
  /\ UNCHANGED produced

Next == Produce \/ Hear

Spec == Init /\ [][Next]_vars
=============================================================================
