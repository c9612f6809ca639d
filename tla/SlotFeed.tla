------------------------------ MODULE SlotFeed ------------------------------
(***************************************************************************)
(* What the fanout of src/src/audio/fanout.rs promises the consumer of one *)
(* slot (fanout.rs:33 and 132): a bounded queue of its own, into which     *)
(* every chunk of the source goes while there is room.  A chunk that finds *)
(* the queue full is dropped and counted, nothing is counted once the      *)
(* consumer is gone, and the end of the source ends the queue.             *)
(***************************************************************************)
EXTENDS Integers, Sequences

CONSTANTS Chunk, SlotCap, FeedCap

VARIABLES feed, fed, running, queue, using, sender, drops, heard

slotVars == <<queue, using, sender, drops, heard>>
vars == <<feed, fed, running, slotVars>>

Init ==
  /\ feed = <<>> /\ fed = TRUE /\ running = TRUE
  /\ queue = <<>> /\ using \in BOOLEAN /\ sender = TRUE
  /\ drops = 0 /\ heard = <<>>

Supply ==
  /\ fed /\ running /\ Len(feed) < FeedCap
  /\ \E chunk \in Chunk : feed' = Append(feed, chunk)
  /\ UNCHANGED <<fed, running, slotVars>>

SupplyEnds == fed /\ fed' = FALSE /\ UNCHANGED <<feed, running, slotVars>>

Deliver ==
  /\ running /\ feed # <<>>
  /\ feed' = Tail(feed)
  /\ \/ /\ sender /\ using /\ Len(queue) < SlotCap
        /\ queue' = Append(queue, Head(feed))
        /\ UNCHANGED <<sender, drops>>
     \/ /\ sender /\ using /\ Len(queue) >= SlotCap
        /\ drops' = drops + 1
        /\ UNCHANGED <<sender, queue>>
     \/ /\ ~(sender /\ using)
        /\ sender' = FALSE
        /\ UNCHANGED <<queue, drops>>
  /\ UNCHANGED <<fed, running, using, heard>>

End ==
  /\ running /\ feed = <<>> /\ ~fed
  /\ running' = FALSE /\ sender' = FALSE
  /\ UNCHANGED <<feed, fed, queue, using, drops, heard>>

Take ==
  /\ using /\ queue # <<>>
  /\ heard' = Append(heard, Head(queue)) /\ queue' = Tail(queue)
  /\ UNCHANGED <<feed, fed, running, using, sender, drops>>

Leave ==
  /\ using
  /\ using' = FALSE /\ queue' = <<>>
  /\ UNCHANGED <<feed, fed, running, sender, drops, heard>>

Next == Supply \/ SupplyEnds \/ Deliver \/ End \/ Take \/ Leave

Spec == Init /\ [][Next]_vars
=============================================================================
