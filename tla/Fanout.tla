------------------------------- MODULE Fanout -------------------------------
(***************************************************************************)
(* The task of src/src/audio/fanout.rs that copies the captured audio to   *)
(* the slots: each slot has a bounded queue, and a chunk that does not fit *)
(* is dropped for that slot alone.  The second slot is the second language *)
(* of the dual mode; in the single mode its receiver is dropped at once.   *)
(* fanout_loop has a case for each combination of its two senders, which   *)
(* differ only in when the chunk is cloned: here it is one step per chunk  *)
(* for any set of slots.                                                   *)
(***************************************************************************)
EXTENDS Integers, Sequences

CONSTANTS Slots,
          SlotCap      \* FANOUT_SLOT_CAPACITY

VARIABLES
  feed, fed,   \* the source channel; its sender exists
  queue,       \* the queue of each slot
  using,       \* slots whose receiver exists
  senders,     \* slots whose sender the task still has
  drops,       \* FanoutDropCounters
  heard,       \* history: what each consumer has received
  running      \* the task runs

slotVars == <<queue, using, senders, drops, heard>>

Init ==
  /\ queue = [s \in Slots |-> <<>>]
  /\ using \in SUBSET Slots
  /\ senders = Slots
  /\ drops = [s \in Slots |-> 0]
  /\ heard = [s \in Slots |-> <<>>]
  /\ running = TRUE

\* MUTANT of Fan: one full slot is counted for all.
FanCountingAll ==
  /\ running /\ feed # <<>>
  /\ feed' = Tail(feed)
  /\ senders' = senders \intersect using
  /\ LET fits == {s \in senders' : Len(queue[s]) < SlotCap}
     IN  /\ queue' = [s \in Slots |-> IF s \in fits THEN Append(queue[s], Head(feed))
                                                    ELSE queue[s]]
         /\ drops' = [s \in Slots |-> IF s \in senders' /\ fits # senders' THEN drops[s] + 1
                                                                           ELSE drops[s]]
  /\ UNCHANGED <<using, heard, running>>

\* One chunk: try_send_slot to every slot.  A closed slot loses its sender for
\* good, a full one counts a drop.
Fan ==
  /\ running /\ feed # <<>>
  /\ feed' = Tail(feed)
  /\ senders' = senders \intersect using
  /\ LET fits == {s \in senders' : Len(queue[s]) < SlotCap}
     IN  /\ queue' = [s \in Slots |-> IF s \in fits THEN Append(queue[s], Head(feed))
                                                    ELSE queue[s]]
         /\ drops' = [s \in Slots |-> IF s \in senders' \ fits THEN drops[s] + 1 ELSE drops[s]]
  /\ UNCHANGED <<using, heard, running>>

\* The source is closed and empty: the task ends and its senders with it.
FanEnds ==
  /\ running /\ feed = <<>> /\ ~fed
  /\ running' = FALSE /\ senders' = {}
  /\ UNCHANGED <<feed, queue, using, drops, heard>>

\* The consumer of a slot, and its end.
Take(s) ==
  /\ s \in using /\ queue[s] # <<>>
  /\ heard' = [heard EXCEPT ![s] = Append(@, Head(queue[s]))]
  /\ queue' = [queue EXCEPT ![s] = Tail(@)]
  /\ UNCHANGED <<feed, using, senders, drops, running>>

Leave(s) ==
  /\ s \in using
  /\ using' = using \ {s}
  /\ queue' = [queue EXCEPT ![s] = <<>>]
  /\ UNCHANGED <<feed, senders, drops, heard, running>>

Consume == \E s \in Slots : Take(s) \/ Leave(s)
=============================================================================
