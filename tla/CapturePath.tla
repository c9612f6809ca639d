---------------------------- MODULE CapturePath ----------------------------
(***************************************************************************)
(* How audio gets from the devices to the pipelines: CaptureRouter feeds   *)
(* Fanout through the channel `downstream' (src/src/main.rs:1133-1166).    *)
(* The fanout task is the router's listener; it ends when the router does. *)
(***************************************************************************)
EXTENDS Integers, Sequences, FiniteSets

CONSTANTS Callers, NoCaller, UpstreamCap, DownstreamCap, ArchiveMayFail, MaxStreams, MaxChunks,
          Slots, SlotCap

VARIABLES
  live, captured, upstream, opened, current, retiring, commands, serving, answers, held,
  archiving, archive, downstream, swapDrops, swapCount, pc, passed, unheard, abandoned,
  queue, using, senders, drops, heard, running

Router == INSTANCE CaptureRouter WITH listening <- running
Fan == INSTANCE Fanout WITH feed <- downstream, fed <- pc # "stopped"

ASSUME CapturePathAssumption == Router!RouterConstants /\ SlotCap \in Nat \ {0}

routerVars == <<live, captured, upstream, opened, current, retiring, commands, serving,
                answers, held, archiving, archive, swapDrops, swapCount, pc, passed, unheard,
                abandoned>>
slotVars == <<queue, using, senders, drops, heard>>
vars == <<routerVars, downstream, slotVars, running>>

Init == Router!Init /\ Fan!Init

RouterStep == Router!Router /\ UNCHANGED slotVars
FanStep == (Fan!Fan \/ Fan!FanEnds) /\ UNCHANGED routerVars
Capturing == Router!Outside /\ UNCHANGED slotVars
Consuming == Fan!Consume /\ UNCHANGED routerVars

Next == RouterStep \/ FanStep \/ Capturing \/ Consuming

Spec == Init /\ [][Next]_vars

-----------------------------------------------------------------------------
(* Properties.                                                             *)

\* A chunk that a pipeline did not hear, and that is not on its way to it, was
\* dropped in a place that has a name: by the router, at a swap, with an old
\* receiver, or for this slot alone; the last are all that FanoutDropCounters
\* counts.
SlotAccounted ==
  \A s \in using :
    Cardinality(Router!AllChunks) =
      Cardinality(Router!Waiting) + Cardinality(unheard) + swapDrops + Cardinality(abandoned)
        + Len(downstream) + Len(queue[s]) + Len(heard[s]) + drops[s]

\* What one pipeline is promised of the whole path.
Hears(s) == INSTANCE LossyFeed WITH
  Chunk <- Router!Chunk, produced <- Router!AllChunks, got <- heard[s]

\* Each pipeline hears a part of what was captured, in order and once, across
\* every change of the device and whatever the other pipeline does (router.rs:6,
\* fanout.rs:33).
PipelinesHearInOrder ==
  /\ \A s \in Slots : Hears(s)!Init
  /\ [][\A s \in Slots : [Hears(s)!Next]_(Hears(s)!vars)]_vars

=============================================================================
