------------------------- MODULE CapturePath_proofs -------------------------
(***************************************************************************)
(* What the router and the fanout promise together, for any number of      *)
(* devices, chunks and slots: each slot is served as if it were the only   *)
(* one, what it hears is in the order of capture, and each chunk it does   *)
(* not hear is counted in the place that lost it.                          *)
(***************************************************************************)
EXTENDS CapturePath, TLAPS

\* The router's lemmas, for the router of this path.
R == INSTANCE CaptureRouter_proofs WITH listening <- running

\* The promise of the fanout to slot s.
Feed(s) == INSTANCE SlotFeed WITH
  Chunk <- Router!Chunk, FeedCap <- DownstreamCap,
  feed <- downstream, fed <- pc # "stopped",
  queue <- queue[s], using <- s \in using, sender <- s \in senders, drops <- drops[s],
  heard <- heard[s]

LEMMA Counting == \A S : R!Cardinality(S) = Cardinality(S) /\ Router!Cardinality(S) = Cardinality(S)
  BY DEF R!Cardinality, Router!Cardinality, Cardinality

LEMMA Constants == R!RouterConstants /\ SlotCap \in Nat
  BY CapturePathAssumption, Counting DEF Router!RouterConstants, R!RouterConstants

-----------------------------------------------------------------------------
(* The fanout is a listener the router is made for.                        *)

LEMMA SameInit == Init => R!Init /\ Router!Init
  BY DEF Init, Fan!Init, Router!Init, R!Init, Router!Streams, R!Streams, Router!None, R!None

LEMMA SameRouter == Router!Router => R!Router
  <1> USE DEF R!deviceVars, Router!deviceVars, R!swapVars, Router!swapVars,
              R!requestVars, Router!requestVars, R!archiveVars, Router!archiveVars,
              R!outVars, Router!outVars, R!None, Router!None, R!ChunksOf, Router!ChunksOf,
              R!DropReceiver, Router!DropReceiver, R!Stop, Router!Stop
  <1>1. ASSUME NEW s, Router!Forward(s) PROVE R!Forward(s)
    BY <1>1 DEF R!Forward, Router!Forward, R!ArchiveChunk, Router!ArchiveChunk, R!Pass, Router!Pass,
                R!HasRoom, Router!HasRoom
  <1>2. CASE Router!LoopHead
    BY <1>2 DEF R!Router, R!LoopHead, Router!LoopHead
  <1>3. CASE Router!SwapCmd
    BY <1>3 DEF R!Router, R!SwapCmd, Router!SwapCmd
  <1>4. CASE Router!PollChunk
    <2>1. R!Forward(current)
      BY <1>1, <1>4 DEF Router!PollChunk
    <2> QED BY <1>4, <2>1 DEF R!Router, R!PollChunk, Router!PollChunk
  <1>5. CASE Router!UpstreamClosed
    BY <1>5 DEF R!Router, R!UpstreamClosed, Router!UpstreamClosed
  <1>6. CASE Router!Shutdown
    BY <1>6 DEF R!Router, R!Shutdown, Router!Shutdown
  <1>7. CASE Router!OpenFails
    BY <1>7 DEF R!Router, R!OpenFails, Router!OpenFails, R!Answer, Router!Answer
  <1>8. CASE Router!OpenSucceeds
    BY <1>8 DEF R!Router, R!OpenSucceeds, Router!OpenSucceeds, R!Answer, Router!Answer
  <1>9. CASE Router!DrainChunk
    BY <1>9 DEF R!Router, R!DrainChunk, Router!DrainChunk, R!ArchiveChunk, Router!ArchiveChunk,
                R!Pass, Router!Pass, R!HasRoom, Router!HasRoom
  <1>10. CASE Router!DrainEnds
    BY <1>10 DEF R!Router, R!DrainEnds, Router!DrainEnds, R!Answer, Router!Answer
  <1>11. CASE Router!CloseChunk
    <2>1. R!Forward(current)
      BY <1>1, <1>11 DEF Router!CloseChunk
    <2> QED BY <1>11, <2>1 DEF R!Router, R!CloseChunk, Router!CloseChunk
  <1>12. CASE Router!CloseEnds
    BY <1>12 DEF R!Router, R!CloseEnds, Router!CloseEnds
  <1>13. CASE Router!Ended
    BY <1>13 DEF R!Router, R!Ended, Router!Ended
  <1> QED BY <1>2, <1>3, <1>4, <1>5, <1>6, <1>7, <1>8, <1>9, <1>10, <1>11, <1>12, <1>13
          DEF Router!Router

LEMMA SameOutside == Router!Outside => R!Outside
  <1> USE DEF R!deviceVars, Router!deviceVars, R!swapVars, Router!swapVars,
              R!requestVars, Router!requestVars, R!archiveVars, Router!archiveVars,
              R!outVars, Router!outVars, R!None, Router!None, R!Streams, Router!Streams,
              R!Attached, Router!Attached
  <1>1. ASSUME NEW s \in Router!Streams, Router!Capture(s) PROVE R!Outside
    BY <1>1 DEF R!Outside, R!Capture, Router!Capture
  <1>2. ASSUME NEW s \in Router!Streams, Router!CaptureEnds(s) PROVE R!Outside
    BY <1>2 DEF R!Outside, R!CaptureEnds, Router!CaptureEnds
  <1>3. ASSUME NEW c \in Callers, Router!HotSwap(c) PROVE R!Outside
    BY <1>3 DEF R!Outside, R!HotSwap, Router!HotSwap
  <1>4. CASE Router!DropHandle
    BY <1>4 DEF R!Outside, R!DropHandle, Router!DropHandle
  <1> QED BY <1>1, <1>2, <1>3, <1>4 DEF Router!Outside

LEMMA Listens ==
    ASSUME FanStep
    PROVE  (Router!Receive \/ Router!Hangup) /\ (R!Receive \/ R!Hangup)
  BY DEF FanStep, Fan!Fan, Fan!FanEnds, routerVars, Router!Receive, Router!Hangup, R!Receive, R!Hangup,
         Router!deviceVars, Router!swapVars, Router!requestVars, Router!archiveVars,
         R!deviceVars, R!swapVars, R!requestVars, R!archiveVars

LEMMA SameStep == [Next]_vars => [R!Next]_(R!vars) /\ [Router!Next]_(Router!vars)
  <1> SUFFICES ASSUME [Next]_vars PROVE [R!Next]_(R!vars) /\ [Router!Next]_(Router!vars)
    OBVIOUS
  <1>1. CASE RouterStep
    BY <1>1, SameRouter DEF RouterStep, R!Next, Router!Next
  <1>2. CASE FanStep
    BY <1>2, Listens DEF R!Next, Router!Next
  <1>3. CASE Capturing
    BY <1>3, SameOutside DEF Capturing, R!Next, Router!Next
  <1>4. CASE Consuming \/ UNCHANGED vars
    <2>1. UNCHANGED routerVars /\ UNCHANGED <<downstream, running>>
      <3>1. CASE Consuming
        BY <3>1 DEF Consuming, Fan!Consume, Fan!Take, Fan!Leave
      <3>2. CASE UNCHANGED vars
        BY <3>2 DEF vars
      <3> QED BY <1>4, <3>1, <3>2
    <2>2. UNCHANGED Router!vars
      BY <2>1 DEF routerVars, Router!vars, Router!deviceVars, Router!swapVars,
         Router!requestVars, Router!archiveVars, Router!outVars
    <2>3. UNCHANGED R!vars
      BY <2>1 DEF routerVars, R!vars, R!deviceVars, R!swapVars,
         R!requestVars, R!archiveVars, R!outVars
    <2> QED BY <2>2, <2>3
  <1> QED BY <1>1, <1>2, <1>3, <1>4 DEF Next

\* The router behaves in the path as it does with any listener: all that is proved of
\* it alone holds here.
THEOREM RouterInPath == Spec => Router!Spec
  <1>1. Init => Router!Init
    BY SameInit
  <1>2. [Next]_vars => [Router!Next]_(Router!vars)
    BY SameStep
  <1> QED BY <1>1, <1>2, PTL DEF Spec, Router!Spec

-----------------------------------------------------------------------------
(* The slots.                                                              *)

Chunk == Router!Chunk
SlotTypes ==
  /\ queue \in [Slots -> Seq(Chunk)] /\ heard \in [Slots -> Seq(Chunk)]
  /\ drops \in [Slots -> Nat] /\ using \subseteq Slots /\ senders \subseteq Slots
  /\ running \in BOOLEAN
  /\ running => using \subseteq senders
  /\ downstream \in Seq(Chunk) /\ passed \in Seq(Chunk)

\* Every chunk passed to the fanout is on its way to the slot, was heard or was dropped.
Balanced(p, d, q, h, n) == p = d + q + h + n
Counted ==
  \A s \in using :
    Balanced(Len(passed), Len(downstream), Len(queue[s]), Len(heard[s]), drops[s])

\* What the slot heard comes before what waits for it, and that before what waits for
\* all slots; and all of it was passed on by the router.
Ordered(a) == \A i, j \in 1 .. Len(a) : i < j => Router!InOrder(a[i], a[j])
Before(a, b) == \A i \in 1 .. Len(a), j \in 1 .. Len(b) : Router!InOrder(a[i], b[j])
From(a, p) == \A i \in 1 .. Len(a) : \E j \in 1 .. Len(p) : p[j] = a[i]
Row(s) ==
  /\ Ordered(heard[s]) /\ Ordered(queue[s]) /\ Ordered(downstream)
  /\ Before(heard[s], queue[s]) /\ Before(heard[s], downstream) /\ Before(queue[s], downstream)
  /\ From(heard[s], passed) /\ From(queue[s], passed) /\ From(downstream, passed)

PathInv == R!DInv /\ SlotTypes /\ Counted /\ \A s \in Slots : Row(s)

LEMMA Names ==
    /\ R!Chunk = Router!Chunk /\ R!AllChunks = Router!AllChunks /\ R!Waiting = Router!Waiting
    /\ R!Streams = Router!Streams
    /\ \A a, b : R!InOrder(a, b) <=> Router!InOrder(a, b)
  BY DEF R!Chunk, Router!Chunk, R!AllChunks, Router!AllChunks, R!Waiting, Router!Waiting,
         R!Streams, Router!Streams, R!Chunks, Router!Chunks, R!ChunksOf, Router!ChunksOf,
         R!InOrder, Router!InOrder

\* The head of a queue, and what is left of it.
LEMMA TailIs ==
    ASSUME NEW S, NEW q \in Seq(S), q # <<>>
    PROVE  /\ Head(q) = q[1] /\ Head(q) \in S /\ Tail(q) \in Seq(S)
           /\ Len(q) \in Nat /\ 1 \in 1 .. Len(q) /\ Len(Tail(q)) = Len(q) - 1
           /\ \A i \in 1 .. Len(Tail(q)) : i + 1 \in 1 .. Len(q) /\ 1 < i + 1 /\ Tail(q)[i] = q[i + 1]
  OBVIOUS

LEMMA AppendIs ==
    ASSUME NEW S, NEW q \in Seq(S), NEW x \in S
    PROVE  /\ Append(q, x) \in Seq(S) /\ Len(Append(q, x)) = Len(q) + 1 /\ Len(q) \in Nat
           /\ \A i \in 1 .. Len(Append(q, x)) :
                \/ i \in 1 .. Len(q) /\ Append(q, x)[i] = q[i]
                \/ i = Len(q) + 1 /\ Append(q, x)[i] = x
           /\ \A i \in 1 .. Len(q) : i \in 1 .. Len(Append(q, x)) /\ Append(q, x)[i] = q[i]
           /\ Len(q) + 1 \in 1 .. Len(Append(q, x)) /\ Append(q, x)[Len(q) + 1] = x
  OBVIOUS

LEMMA PutLast ==
    ASSUME NEW q \in Seq(Chunk), NEW x \in Chunk, Ordered(q), \A i \in 1 .. Len(q) : Router!InOrder(q[i], x)
    PROVE  Ordered(Append(q, x))
  <1>1. /\ \A i \in 1 .. Len(Append(q, x)) :
             \/ i \in 1 .. Len(q) /\ Append(q, x)[i] = q[i]
             \/ i = Len(q) + 1 /\ Append(q, x)[i] = x
        /\ Len(q) \in Nat /\ Len(Append(q, x)) = Len(q) + 1
    BY AppendIs
  <1> SUFFICES ASSUME NEW i \in 1 .. Len(Append(q, x)), NEW j \in 1 .. Len(Append(q, x)), i < j
               PROVE  Router!InOrder(Append(q, x)[i], Append(q, x)[j])
    BY DEF Ordered
  <1>2. i \in 1 .. Len(q) /\ Append(q, x)[i] = q[i]
    BY <1>1
  <1>3. CASE j \in 1 .. Len(q) /\ Append(q, x)[j] = q[j]
    BY <1>2, <1>3 DEF Ordered
  <1>4. CASE Append(q, x)[j] = x
    BY <1>2, <1>4
  <1> QED BY <1>1, <1>3, <1>4

LEMMA DropHead ==
    ASSUME NEW q \in Seq(Chunk), q # <<>>, Ordered(q)
    PROVE  Ordered(Tail(q)) /\ \A i \in 1 .. Len(Tail(q)) : Router!InOrder(Head(q), Tail(q)[i])
  <1>1. /\ Head(q) = q[1] /\ 1 \in 1 .. Len(q)
        /\ \A i \in 1 .. Len(Tail(q)) : i + 1 \in 1 .. Len(q) /\ 1 < i + 1 /\ Tail(q)[i] = q[i + 1]
    BY TailIs
  <1>2. \A i, j \in 1 .. Len(Tail(q)) : i < j => i + 1 < j + 1
    OBVIOUS
  <1> QED BY <1>1, <1>2 DEF Ordered

\* Moving one chunk from the head of a queue to the end of another, and beyond.
LEMMA Ahead ==
    ASSUME NEW a \in Seq(Chunk), NEW q \in Seq(Chunk), q # <<>>, Before(a, q)
    PROVE  Before(a, Tail(q)) /\ \A i \in 1 .. Len(a) : Router!InOrder(a[i], Head(q))
  <1>1. /\ Head(q) = q[1] /\ 1 \in 1 .. Len(q)
        /\ \A i \in 1 .. Len(Tail(q)) : i + 1 \in 1 .. Len(q) /\ Tail(q)[i] = q[i + 1]
    BY TailIs
  <1> QED BY <1>1 DEF Before

LEMMA Behind ==
    ASSUME NEW a \in Seq(Chunk), NEW q \in Seq(Chunk), q # <<>>, Before(q, a)
    PROVE  Before(Tail(q), a) /\ \A i \in 1 .. Len(a) : Router!InOrder(Head(q), a[i])
  <1>1. /\ Head(q) = q[1] /\ 1 \in 1 .. Len(q)
        /\ \A i \in 1 .. Len(Tail(q)) : i + 1 \in 1 .. Len(q) /\ Tail(q)[i] = q[i + 1]
    BY TailIs
  <1> QED BY <1>1 DEF Before

LEMMA Longer ==
    ASSUME NEW a \in Seq(Chunk), NEW b \in Seq(Chunk), NEW x \in Chunk
    PROVE  /\ Before(a, b) /\ (\A i \in 1 .. Len(b) : Router!InOrder(x, b[i])) => Before(Append(a, x), b)
           /\ Before(a, b) /\ (\A i \in 1 .. Len(a) : Router!InOrder(a[i], x)) => Before(a, Append(b, x))
  <1>1. \A i \in 1 .. Len(Append(a, x)) : (i \in 1 .. Len(a) /\ Append(a, x)[i] = a[i]) \/ Append(a, x)[i] = x
    BY AppendIs
  <1>2. \A i \in 1 .. Len(Append(b, x)) : (i \in 1 .. Len(b) /\ Append(b, x)[i] = b[i]) \/ Append(b, x)[i] = x
    BY AppendIs
  <1> QED BY <1>1, <1>2 DEF Before

LEMMA Passing ==
    ASSUME NEW a \in Seq(Chunk), NEW p, From(a, p)
    PROVE  /\ a # <<>> => From(Tail(a), p) /\ \E j \in 1 .. Len(p) : p[j] = Head(a)
           /\ \A x \in Chunk : (\E j \in 1 .. Len(p) : p[j] = x) => From(Append(a, x), p)
  <1>1. ASSUME a # <<>> PROVE From(Tail(a), p) /\ \E j \in 1 .. Len(p) : p[j] = Head(a)
    <2>1. /\ Head(a) = a[1] /\ 1 \in 1 .. Len(a)
          /\ \A i \in 1 .. Len(Tail(a)) : i + 1 \in 1 .. Len(a) /\ Tail(a)[i] = a[i + 1]
      BY <1>1, TailIs
    <2> QED BY <2>1 DEF From
  <1>2. ASSUME NEW x \in Chunk, \E j \in 1 .. Len(p) : p[j] = x PROVE From(Append(a, x), p)
    <2>1. \A i \in 1 .. Len(Append(a, x)) : (i \in 1 .. Len(a) /\ Append(a, x)[i] = a[i]) \/ Append(a, x)[i] = x
      BY AppendIs
    <2> QED BY <1>2, <2>1 DEF From
  <1> QED BY <1>1, <1>2

LEMMA EmptyIs ==
    /\ <<>> \in Seq(Chunk) /\ Len(<<>>) = 0 /\ 1 .. 0 = {}
    /\ Ordered(<<>>) /\ \A a : From(<<>>, a) /\ Before(a, <<>>) /\ Before(<<>>, a)
  <1>1. <<>> \in Seq(Chunk) /\ Len(<<>>) = 0 /\ 1 .. 0 = {}
    OBVIOUS
  <1> QED BY <1>1 DEF Ordered, From, Before

\* One passed, handed to the slot or dropped for it, and heard.
LEMMA Sums ==
    ASSUME NEW p \in Nat, NEW d \in Nat, NEW q \in Nat, NEW h \in Nat, NEW n \in Nat,
           Balanced(p, d, q, h, n)
    PROVE  /\ Balanced(p + 1, d + 1, q, h, n)
           /\ Balanced(p, d - 1, q + 1, h, n) /\ Balanced(p, d - 1, q, h, n + 1)
           /\ Balanced(p, d, q - 1, h + 1, n)
  BY DEF Balanced

LEMMA PathInit == Init => PathInv
  <1> SUFFICES ASSUME Init PROVE PathInv
    OBVIOUS
  <1>1. R!DInv
    BY SameInit, R!DataInit, Constants
  <1>2. /\ downstream = <<>> /\ passed = <<>> /\ using \subseteq Slots /\ senders = Slots /\ running = TRUE
        /\ queue = [s \in Slots |-> <<>>] /\ heard = [s \in Slots |-> <<>>] /\ drops = [s \in Slots |-> 0]
    BY DEF Init, Fan!Init, Router!Init
  <1>3. SlotTypes
    BY <1>2, EmptyIs DEF SlotTypes
  <1>4. Counted
    <2> SUFFICES ASSUME NEW s \in using
                 PROVE  Balanced(Len(passed), Len(downstream), Len(queue[s]), Len(heard[s]), drops[s])
      BY DEF Counted
    <2>1. queue[s] = <<>> /\ heard[s] = <<>> /\ drops[s] = 0
      BY <1>2
    <2>2. Balanced(0, 0, 0, 0, 0)
      BY DEF Balanced
    <2> QED BY <1>2, <2>1, <2>2, EmptyIs
  <1>5. \A s \in Slots : Row(s)
    <2> SUFFICES ASSUME NEW s \in Slots PROVE Row(s)
      OBVIOUS
    <2>1. queue[s] = <<>> /\ heard[s] = <<>>
      BY <1>2
    <2> QED BY <1>2, <2>1, EmptyIs, Zenon DEF Row
  <1> QED BY <1>1, <1>3, <1>4, <1>5 DEF PathInv

\* The router passes one more chunk on.
LEMMA PassStep ==
    ASSUME PathInv, R!DInv', NEW c \in Chunk, R!Pass(c), UNCHANGED <<slotVars, running>>
    PROVE  PathInv'
  <1>0. /\ downstream \in Seq(Chunk) /\ passed \in Seq(Chunk)
        /\ downstream' = Append(downstream, c) /\ passed' = Append(passed, c)
    BY DEF R!Pass, PathInv, SlotTypes
  <1>1. /\ \A i \in 1 .. Len(passed) : i \in 1 .. Len(passed') /\ passed'[i] = passed[i]
        /\ \A i \in 1 .. Len(passed) : i < Len(passed) + 1
        /\ Len(passed) + 1 \in 1 .. Len(passed') /\ passed'[Len(passed) + 1] = c
        /\ Len(passed') = Len(passed) + 1 /\ Len(downstream') = Len(downstream) + 1
        /\ Len(passed) \in Nat /\ Len(downstream) \in Nat
    BY <1>0, AppendIs
  <1>2. \A i \in 1 .. Len(passed) : Router!InOrder(passed[i], c)
    <2>1. R!Ordered(passed')
      BY DEF R!DInv, R!Heard
    <2>2. \A i, j \in 1 .. Len(passed') : i < j => Router!InOrder(passed'[i], passed'[j])
      BY <2>1, Names DEF R!Ordered
    <2> QED BY <1>1, <2>2
  <1>3. SlotTypes'
    <2>1. downstream' \in Seq(Chunk) /\ passed' \in Seq(Chunk)
      BY <1>0, AppendIs
    <2> QED BY <2>1 DEF PathInv, SlotTypes, slotVars, Chunk, Router!Chunk, Router!Streams
  <1>4. Counted'
    <2> SUFFICES ASSUME NEW s \in using
                 PROVE  Balanced(Len(passed'), Len(downstream'), Len(queue[s]), Len(heard[s]), drops[s])
      BY DEF Counted, slotVars
    <2>1. /\ Balanced(Len(passed), Len(downstream), Len(queue[s]), Len(heard[s]), drops[s])
          /\ Len(queue[s]) \in Nat /\ Len(heard[s]) \in Nat /\ drops[s] \in Nat
      BY DEF PathInv, SlotTypes, Counted
    <2>2. Balanced(Len(passed) + 1, Len(downstream) + 1, Len(queue[s]), Len(heard[s]), drops[s])
      BY <1>1, <2>1, Sums
    <2> QED BY <1>1, <2>2, Zenon
  <1>5. ASSUME NEW s \in Slots PROVE Row(s)'
    <2>1. Row(s) /\ heard[s] \in Seq(Chunk) /\ queue[s] \in Seq(Chunk)
      BY DEF PathInv, SlotTypes
    <2>2. ASSUME NEW a, From(a, passed) PROVE From(a, passed') /\ \A i \in 1 .. Len(a) : Router!InOrder(a[i], c)
      BY <1>1, <1>2, <2>2 DEF From
    <2>3. /\ Ordered(Append(downstream, c)) /\ From(Append(downstream, c), passed')
          /\ Before(heard[s], Append(downstream, c)) /\ Before(queue[s], Append(downstream, c))
      <3>1. Ordered(Append(downstream, c))
        BY <1>0, <2>1, <2>2, PutLast DEF Row
      <3>2. From(Append(downstream, c), passed')
        <4>1. From(downstream, passed') /\ \E j \in 1 .. Len(passed') : passed'[j] = c
          BY <1>1, <2>1, <2>2 DEF Row
        <4> QED BY <1>0, <4>1, Passing
      <3>3. Before(heard[s], Append(downstream, c))
        BY <1>0, <2>1, <2>2, Longer DEF Row
      <3>4. Before(queue[s], Append(downstream, c))
        BY <1>0, <2>1, <2>2, Longer DEF Row
      <3> QED BY <3>1, <3>2, <3>3, <3>4
    <2>4. From(heard[s], passed') /\ From(queue[s], passed')
      BY <2>1, <2>2 DEF Row
    <2> QED BY <1>0, <2>1, <2>3, <2>4 DEF Row, slotVars
  <1> QED BY <1>3, <1>4, <1>5 DEF PathInv

\* The fanout hands one chunk to every slot that still has a consumer.
LEMMA FanOut ==
    ASSUME PathInv, R!DInv', Fan!Fan, UNCHANGED passed
    PROVE  PathInv'
  <1> DEFINE c == Head(downstream)
             fits == {s \in senders' : Len(queue[s]) < SlotCap}
  <1>0. /\ downstream \in Seq(Chunk) /\ downstream # <<>> /\ downstream' = Tail(downstream)
        /\ passed \in Seq(Chunk) /\ passed' = passed
        /\ running = TRUE /\ UNCHANGED <<running, using, heard>> /\ senders' = senders \intersect using
        /\ queue' = [s \in Slots |-> IF s \in fits THEN Append(queue[s], c) ELSE queue[s]]
        /\ drops' = [s \in Slots |-> IF s \in senders' \ fits THEN drops[s] + 1 ELSE drops[s]]
    BY DEF Fan!Fan, PathInv, SlotTypes
  <1>1. /\ c = downstream[1] /\ c \in Chunk /\ Tail(downstream) \in Seq(Chunk)
        /\ Len(downstream) \in Nat /\ Len(downstream') = Len(downstream) - 1
    BY <1>0, TailIs
  <1>2. /\ using \subseteq senders' /\ senders' \subseteq Slots /\ fits \subseteq senders'
        /\ \A s \in Slots : /\ queue[s] \in Seq(Chunk) /\ heard[s] \in Seq(Chunk) /\ drops[s] \in Nat
                            /\ Row(s)
    BY <1>0 DEF PathInv, SlotTypes
  <1> HIDE DEF c, fits
  <1>3. ASSUME NEW s \in Slots
        PROVE  \/ queue'[s] = Append(queue[s], c) /\ drops'[s] = drops[s]
               \/ queue'[s] = queue[s] /\ drops'[s] = drops[s] + 1
               \/ queue'[s] = queue[s] /\ drops'[s] = drops[s] /\ s \notin using
    BY <1>0, <1>2
  <1>4. ASSUME NEW s \in Slots
        PROVE  /\ queue'[s] \in Seq(Chunk) /\ drops'[s] \in Nat
               /\ queue'[s] = queue[s] \/ queue'[s] = Append(queue[s], c)
    <2>1. Append(queue[s], c) \in Seq(Chunk) /\ queue[s] \in Seq(Chunk)
          /\ drops[s] \in Nat /\ drops[s] + 1 \in Nat
      BY <1>1, <1>2, AppendIs
    <2> QED BY <1>3, <2>1, Zenon
  <1>5. SlotTypes'
    <2>1. queue' \in [Slots -> Seq(Chunk)] /\ drops' \in [Slots -> Nat]
      <3>1. queue' = [s \in Slots |-> queue'[s]] /\ drops' = [s \in Slots |-> drops'[s]]
        BY <1>0
      <3> QED BY <1>4, <3>1
    <2> QED BY <1>0, <1>1, <1>2, <2>1 DEF PathInv, SlotTypes, Chunk, Router!Chunk, Router!Streams
  <1>6. Counted'
    <2> SUFFICES ASSUME NEW s \in using
                 PROVE  Balanced(Len(passed), Len(downstream'), Len(queue'[s]), Len(heard[s]), drops'[s])
      BY <1>0 DEF Counted
    <2>1. /\ Balanced(Len(passed), Len(downstream), Len(queue[s]), Len(heard[s]), drops[s])
          /\ s \in Slots /\ Len(queue[s]) \in Nat /\ Len(heard[s]) \in Nat /\ drops[s] \in Nat
          /\ Len(passed) \in Nat
      BY <1>2 DEF PathInv, SlotTypes, Counted
    <2>2. Len(Append(queue[s], c)) = Len(queue[s]) + 1
      BY <1>1, <1>2, <2>1, AppendIs
    <2>3. /\ Balanced(Len(passed), Len(downstream) - 1, Len(queue[s]) + 1, Len(heard[s]), drops[s])
          /\ Balanced(Len(passed), Len(downstream) - 1, Len(queue[s]), Len(heard[s]), drops[s] + 1)
      BY <1>1, <2>1, Sums
    <2>4. \/ queue'[s] = Append(queue[s], c) /\ drops'[s] = drops[s]
          \/ queue'[s] = queue[s] /\ drops'[s] = drops[s] + 1
      BY <1>3, <2>1, Zenon
    <2>5. CASE queue'[s] = Append(queue[s], c) /\ drops'[s] = drops[s]
      BY <1>1, <2>2, <2>3, <2>5, Zenon
    <2>6. CASE queue'[s] = queue[s] /\ drops'[s] = drops[s] + 1
      BY <1>1, <2>3, <2>6, Zenon
    <2> QED BY <2>4, <2>5, <2>6
  <1>7. ASSUME NEW s \in Slots PROVE Row(s)'
    <2>1. /\ Row(s) /\ heard[s] \in Seq(Chunk) /\ queue[s] \in Seq(Chunk)
      BY <1>2
    <2>2. /\ Ordered(downstream') /\ From(downstream', passed) /\ \E j \in 1 .. Len(passed) : passed[j] = c
          /\ \A i \in 1 .. Len(downstream') : Router!InOrder(c, downstream'[i])
      BY <1>0, <2>1, DropHead, Passing DEF Row, c
    <2>3. /\ Before(heard[s], downstream') /\ \A i \in 1 .. Len(heard[s]) : Router!InOrder(heard[s][i], c)
      BY <1>0, <2>1, Ahead DEF Row, c
    <2>4. /\ Before(queue[s], downstream') /\ \A i \in 1 .. Len(queue[s]) : Router!InOrder(queue[s][i], c)
      BY <1>0, <2>1, Ahead DEF Row, c
    <2>5. /\ Ordered(Append(queue[s], c)) /\ From(Append(queue[s], c), passed)
          /\ Before(heard[s], Append(queue[s], c)) /\ Before(Append(queue[s], c), downstream')
      <3>1. Ordered(Append(queue[s], c))
        BY <1>1, <2>1, <2>4, PutLast DEF Row
      <3>2. From(Append(queue[s], c), passed)
        BY <1>1, <2>1, <2>2, Passing DEF Row
      <3>3. Before(heard[s], Append(queue[s], c))
        BY <1>1, <2>1, <2>3, Longer DEF Row
      <3>4. Before(Append(queue[s], c), downstream')
        BY <1>0, <1>1, <2>1, <2>2, <2>4, Longer
      <3> QED BY <3>1, <3>2, <3>3, <3>4
    <2>6. CASE queue'[s] = Append(queue[s], c)
      BY <1>0, <2>1, <2>2, <2>3, <2>5, <2>6 DEF Row
    <2>7. CASE queue'[s] = queue[s]
      BY <1>0, <2>1, <2>2, <2>3, <2>4, <2>7 DEF Row
    <2> QED BY <1>4, <2>6, <2>7
  <1> QED BY <1>5, <1>6, <1>7 DEF PathInv

LEMMA TakeStep ==
    ASSUME PathInv, R!DInv', NEW s \in Slots, Fan!Take(s), UNCHANGED passed
    PROVE  PathInv'
  <1> DEFINE c == Head(queue[s])
  <1>0. /\ s \in using /\ queue[s] # <<>> /\ UNCHANGED <<downstream, passed, using, senders, drops, running>>
        /\ heard' = [heard EXCEPT ![s] = Append(heard[s], c)]
        /\ queue' = [queue EXCEPT ![s] = Tail(queue[s])]
        /\ heard \in [Slots -> Seq(Chunk)] /\ queue \in [Slots -> Seq(Chunk)]
        /\ downstream \in Seq(Chunk) /\ passed \in Seq(Chunk)
    BY DEF Fan!Take, PathInv, SlotTypes
  <1>1. /\ c \in Chunk /\ Tail(queue[s]) \in Seq(Chunk)
        /\ Len(queue[s]) \in Nat /\ Len(Tail(queue[s])) = Len(queue[s]) - 1
    BY <1>0, TailIs
  <1>2. Append(heard[s], c) \in Seq(Chunk) /\ Len(Append(heard[s], c)) = Len(heard[s]) + 1
        /\ Len(heard[s]) \in Nat
    BY <1>0, <1>1, AppendIs
  <1>3. heard'[s] = Append(heard[s], c) /\ queue'[s] = Tail(queue[s])
    BY <1>0
  <1>4. \A t \in Slots : t # s => heard'[t] = heard[t] /\ queue'[t] = queue[t]
    BY <1>0
  <1>5. SlotTypes'
    BY <1>0, <1>1, <1>2 DEF PathInv, SlotTypes, Chunk, Router!Chunk, Router!Streams
  <1>6. Counted'
    <2> SUFFICES ASSUME NEW t \in using
                 PROVE  Balanced(Len(passed), Len(downstream), Len(queue'[t]), Len(heard'[t]), drops[t])
      BY <1>0 DEF Counted
    <2>1. /\ Balanced(Len(passed), Len(downstream), Len(queue[t]), Len(heard[t]), drops[t])
          /\ t \in Slots /\ drops[t] \in Nat /\ Len(downstream) \in Nat /\ Len(passed) \in Nat
      BY DEF PathInv, SlotTypes, Counted
    <2>2. CASE t = s
      <3>1. Balanced(Len(passed), Len(downstream), Len(queue[s]) - 1, Len(heard[s]) + 1, drops[s])
        BY <1>1, <1>2, <2>1, <2>2, Sums
      <3> QED BY <1>1, <1>2, <1>3, <2>2, <3>1, Zenon
    <2>3. CASE t # s
      BY <1>4, <2>1, <2>3
    <2> QED BY <2>2, <2>3
  <1>7. ASSUME NEW t \in Slots PROVE Row(t)'
    <2>1. Row(t) /\ Row(s)
      BY DEF PathInv
    <2>2. CASE t # s
      BY <1>0, <1>4, <2>1, <2>2 DEF Row
    <2>3. CASE t = s
      <3> DEFINE q == queue[s]
                 h == heard[s]
      <3>0. q \in Seq(Chunk) /\ h \in Seq(Chunk) /\ q # <<>> /\ c = Head(q)
        BY <1>0
      <3>1. /\ Ordered(h) /\ Ordered(q) /\ Ordered(downstream)
            /\ Before(h, q) /\ Before(h, downstream) /\ Before(q, downstream)
            /\ From(h, passed) /\ From(q, passed) /\ From(downstream, passed)
        BY <2>1 DEF Row
      <3>a. q = queue[s] /\ h = heard[s]
        OBVIOUS
      <3> HIDE DEF q, h, c
      <3>2. /\ Ordered(Tail(q)) /\ From(Tail(q), passed) /\ \E j \in 1 .. Len(passed) : passed[j] = c
            /\ \A i \in 1 .. Len(Tail(q)) : Router!InOrder(c, Tail(q)[i])
        BY <3>0, <3>1, DropHead, Passing
      <3>3. Before(h, Tail(q)) /\ \A i \in 1 .. Len(h) : Router!InOrder(h[i], c)
        BY <3>0, <3>1, Ahead
      <3>4. Before(Tail(q), downstream) /\ \A i \in 1 .. Len(downstream) : Router!InOrder(c, downstream[i])
        BY <1>0, <3>0, <3>1, Behind
      <3>5. Ordered(Append(h, c))
        BY <1>1, <3>0, <3>1, <3>3, PutLast
      <3>6. From(Append(h, c), passed)
        BY <1>1, <3>0, <3>1, <3>2, Passing
      <3>7. Before(Append(h, c), downstream)
        BY <1>0, <1>1, <3>0, <3>1, <3>4, Longer
      <3>8. Before(Append(h, c), Tail(q))
        BY <1>1, <3>0, <3>2, <3>3, <3>a, Longer
      <3>9. heard'[s] = Append(h, c) /\ queue'[s] = Tail(q) /\ downstream' = downstream /\ passed' = passed
        BY <1>0, <1>3, <3>a
      <3> QED BY <2>3, <3>1, <3>2, <3>4, <3>5, <3>6, <3>7, <3>8, <3>9 DEF Row
    <2> QED BY <2>2, <2>3
  <1> QED BY <1>5, <1>6, <1>7 DEF PathInv

LEMMA LeaveStep ==
    ASSUME PathInv, R!DInv', NEW s \in Slots, Fan!Leave(s), UNCHANGED passed
    PROVE  PathInv'
  <1>0. /\ using' = using \ {s} /\ UNCHANGED <<downstream, passed, senders, drops, running, heard>>
        /\ queue' = [queue EXCEPT ![s] = <<>>]
        /\ queue \in [Slots -> Seq(Chunk)]
    BY DEF Fan!Leave, PathInv, SlotTypes
  <1>1. queue'[s] = <<>> /\ \A t \in Slots : t # s => queue'[t] = queue[t]
    BY <1>0
  <1>2. SlotTypes'
    BY <1>0, EmptyIs DEF PathInv, SlotTypes, Chunk, Router!Chunk, Router!Streams
  <1>3. Counted'
    <2>1. \A t \in using' : t \in using /\ t # s /\ t \in Slots
      BY <1>0 DEF PathInv, SlotTypes
    <2> QED BY <1>0, <1>1, <2>1 DEF PathInv, Counted
  <1>4. ASSUME NEW t \in Slots PROVE Row(t)'
    <2>1. Row(t)
      BY DEF PathInv
    <2>2. CASE t # s
      BY <1>0, <1>1, <2>1, <2>2 DEF Row
    <2>3. CASE t = s
      BY <1>0, <1>1, <2>1, <2>3, EmptyIs DEF Row
    <2> QED BY <2>2, <2>3
  <1> QED BY <1>2, <1>3, <1>4 DEF PathInv

LEMMA PathStep == PathInv /\ [Next]_vars => PathInv'
  <1> SUFFICES ASSUME PathInv, [Next]_vars PROVE PathInv'
    OBVIOUS
  <1>0. R!DInv' /\ R!PInv
    BY SameStep, R!DataStep, Constants DEF PathInv, R!DInv
  <1>1. ASSUME UNCHANGED <<downstream, passed, slotVars>>, running' = running \/ running' = FALSE
        PROVE  PathInv'
    <2>1. running' \in BOOLEAN /\ (running' => running)
      <3>1. running \in BOOLEAN
        BY DEF PathInv, SlotTypes
      <3>2. CASE running' = running
        BY <3>1, <3>2
      <3>3. CASE running' = FALSE
        BY <3>3
      <3> QED BY <1>1, <3>2, <3>3
    <2>a. UNCHANGED <<downstream, passed, queue, using, senders, drops, heard>>
      BY <1>1 DEF slotVars
    <2>b. SlotTypes'
      BY <2>1, <2>a DEF PathInv, SlotTypes, Chunk, Router!Chunk, Router!Streams
    <2>c. Counted'
      BY <2>a DEF PathInv, Counted
    <2>2. ASSUME NEW s \in Slots PROVE Row(s)'
      BY <2>a DEF PathInv, Row
    <2> QED BY <1>0, <2>b, <2>c, <2>2 DEF PathInv
  <1>2. CASE RouterStep
    <2>1. R!Router /\ UNCHANGED slotVars
      BY <1>2, SameRouter DEF RouterStep
    <2>2. /\ running' = running
          /\ UNCHANGED <<downstream, passed>> \/ \E c \in Chunk : R!Pass(c)
      BY <1>0, <2>1, R!Output, Constants, Names DEF Chunk
    <2> QED BY <1>0, <1>1, <2>1, <2>2, PassStep DEF slotVars
  <1>3. CASE FanStep
    <2>1. CASE Fan!Fan
      BY <1>0, <1>3, <2>1, FanOut DEF FanStep, routerVars
    <2>2. CASE Fan!FanEnds
      <3>1. /\ UNCHANGED <<downstream, passed, queue, using, drops, heard>> /\ running' = FALSE /\ senders' = {}
        BY <1>3, <2>2 DEF FanStep, routerVars, Fan!FanEnds
      <3>2. SlotTypes' /\ Counted'
        BY <3>1 DEF PathInv, SlotTypes, Counted, Chunk, Router!Chunk, Router!Streams
      <3>3. ASSUME NEW s \in Slots PROVE Row(s)'
        BY <3>1 DEF PathInv, Row
      <3> QED BY <1>0, <3>2, <3>3 DEF PathInv
    <2> QED BY <1>3, <2>1, <2>2 DEF FanStep
  <1>4. CASE Capturing
    <2>1. UNCHANGED <<downstream, passed, running>>
      BY <1>4 DEF Capturing, Router!Outside, Router!Capture, Router!CaptureEnds, Router!HotSwap,
                  Router!DropHandle, Router!outVars
    <2> QED BY <1>1, <1>4, <2>1 DEF Capturing, slotVars
  <1>5. CASE Consuming
    <2>1. passed' = passed /\ Fan!Consume
      BY <1>5 DEF Consuming, routerVars
    <2> PICK s \in Slots : Fan!Take(s) \/ Fan!Leave(s)
      BY <2>1 DEF Fan!Consume
    <2> QED BY <1>0, <2>1, TakeStep, LeaveStep
  <1>6. CASE UNCHANGED vars
    BY <1>1, <1>6 DEF vars, routerVars
  <1> QED BY <1>2, <1>3, <1>4, <1>5, <1>6 DEF Next

-----------------------------------------------------------------------------
(* Theorems.                                                               *)

LEMMA PathAlways == Spec => []PathInv
  <1> QED BY PathInit, PathStep, PTL DEF Spec

\* For any number of devices, chunks and slots: every variable of the fanout and the
\* channels keeps its type, and a slot in use has its sender while the task runs.
THEOREM TypeCorrect == Spec => [](Router!TypeOK /\ SlotTypes)
  <1>1. R!TypeOK => Router!TypeOK
    BY DEF R!TypeOK, Router!TypeOK, R!Streams, Router!Streams, R!None, Router!None,
           R!Chunk, Router!Chunk, R!Places, Router!Places
  <1>2. PathInv => Router!TypeOK /\ SlotTypes
    BY <1>1 DEF PathInv, R!DInv, R!PInv
  <1> QED BY <1>2, PathAlways, PTL

\* For any number of devices, chunks and slots, and any bounds of the queues: a chunk that
\* a pipeline did not hear, and that is not on its way to it, was dropped in one place that
\* has a name.
THEOREM ChunksAccounted == Spec => []SlotAccounted
  <1>1. PathInv => SlotAccounted
    <2> SUFFICES ASSUME PathInv, NEW s \in using
                 PROVE  Cardinality(Router!AllChunks) =
                          Cardinality(Router!Waiting) + Cardinality(unheard) + swapDrops
                            + Cardinality(abandoned) + Len(downstream) + Len(queue[s])
                            + Len(heard[s]) + drops[s]
      BY DEF SlotAccounted
    <2>1. R!DInv /\ R!PInv /\ R!Numbered /\ R!Accounted
      BY DEF PathInv, R!DInv
    <2>2. Cardinality(Router!AllChunks) =
            Cardinality(Router!Waiting) + Cardinality(unheard) + swapDrops + Cardinality(abandoned) + Len(passed)
      BY <2>1, Counting, Names DEF R!Accounted
    <2>3. /\ Cardinality(Router!Waiting) \in Nat /\ Cardinality(unheard) \in Nat
          /\ swapDrops \in Nat /\ Cardinality(abandoned) \in Nat
      BY <2>1, R!SetsFinite, Constants, Counting, Names
    <2>4. Balanced(Len(passed), Len(downstream), Len(queue[s]), Len(heard[s]), drops[s])
      BY DEF PathInv, Counted
    <2>5. /\ Len(passed) \in Nat /\ Len(downstream) \in Nat /\ Len(queue[s]) \in Nat
          /\ Len(heard[s]) \in Nat /\ drops[s] \in Nat
      BY DEF PathInv, SlotTypes
    <2> DEFINE w == Cardinality(Router!Waiting)
               u == Cardinality(unheard)
               b == Cardinality(abandoned)
               p == Len(passed)
               d == Len(downstream)
               q == Len(queue[s])
               h == Len(heard[s])
    <2>6. /\ w \in Nat /\ u \in Nat /\ swapDrops \in Nat /\ b \in Nat /\ p \in Nat
          /\ d \in Nat /\ q \in Nat /\ h \in Nat /\ drops[s] \in Nat
          /\ Cardinality(Router!AllChunks) = w + u + swapDrops + b + p /\ Balanced(p, d, q, h, drops[s])
      BY <2>2, <2>3, <2>4, <2>5, Zenon
    <2> HIDE DEF w, u, b, p, d, q, h
    <2>7. Cardinality(Router!AllChunks) = w + u + swapDrops + b + d + q + h + drops[s]
      BY <2>6 DEF Balanced
    <2> QED BY <2>7, Zenon DEF w, u, b, d, q, h
  <1> QED BY <1>1, PathAlways, PTL

\* What happens to what was captured and to what a slot hears, in one step.
LEMMA HearInit == Init => \A s \in Slots : Hears(s)!Init
  <1> SUFFICES ASSUME Init, NEW s \in Slots PROVE Hears(s)!Init
    OBVIOUS
  <1>1. heard[s] = <<>> /\ \A t \in Router!Streams : captured[t] = 0
    BY DEF Init, Fan!Init, Router!Init
  <1>2. Router!AllChunks = {}
    BY <1>1 DEF Router!AllChunks, Router!Chunks
  <1> QED BY <1>1, <1>2 DEF Hears!Init

LEMMA SameChunks == ASSUME UNCHANGED captured PROVE Router!AllChunks' = Router!AllChunks
  BY DEF Router!AllChunks, Router!Chunks, Router!Streams

LEMMA HearStep == PathInv /\ [Next]_vars => \A s \in Slots : [Hears(s)!Next]_(Hears(s)!vars)
  <1> SUFFICES ASSUME PathInv, [Next]_vars, NEW s \in Slots PROVE [Hears(s)!Next]_(Hears(s)!vars)
    OBVIOUS
  <1> USE DEF Hears!vars
  <1>0. R!PInv /\ R!PInv' /\ R!TypeOK /\ R!TypeOK'
    <2>1. R!DInv'
      BY SameStep, R!DataStep, Constants DEF PathInv
    <2> QED BY <2>1 DEF PathInv, R!DInv, R!PInv
  <1>1. CASE RouterStep
    <2>1. R!Router /\ heard' = heard
      BY <1>1, SameRouter DEF RouterStep, slotVars
    <2>2. captured' = captured
      BY <1>0, <2>1, R!Output, Constants
    <2> QED BY <2>1, <2>2, SameChunks
  <1>2. CASE FanStep
    BY <1>2, SameChunks DEF FanStep, routerVars, Fan!Fan, Fan!FanEnds
  <1>3. CASE Capturing
    <2>1. heard' = heard
      BY <1>3 DEF Capturing, slotVars
    <2>2. CASE captured' = captured
      BY <2>1, <2>2, SameChunks
    <2>3. ASSUME NEW t \in Router!Streams, Router!Capture(t) PROVE Hears(s)!Produce
      <3> DEFINE new == [stream |-> t, n |-> captured[t] + 1]
      <3>1. captured' = [captured EXCEPT ![t] = captured[t] + 1]
        BY <2>3 DEF Router!Capture
      <3>a. new = [stream |-> t, n |-> captured[t] + 1] /\ t \in R!Streams
        BY Names
      <3> HIDE DEF new
      <3>2. new \in R!Chunk /\ R!AllChunks' = R!AllChunks \union {new} /\ new \notin R!AllChunks
        BY <1>0, <3>1, <3>a, R!OneMore, Constants
      <3>3. Router!AllChunks' = R!AllChunks'
        BY DEF R!AllChunks, Router!AllChunks, R!Streams, Router!Streams, R!Chunks, Router!Chunks
      <3> QED BY <2>1, <3>2, <3>3, Names DEF Hears!Produce
    <2>4. captured' = captured \/ \E t \in Router!Streams : Router!Capture(t)
      BY <1>3 DEF Capturing, Router!Outside, Router!CaptureEnds, Router!HotSwap, Router!DropHandle,
                  Router!deviceVars
    <2> QED BY <2>2, <2>3, <2>4 DEF Hears!Next
  <1>4. CASE Consuming
    <2>1. captured' = captured /\ Fan!Consume
      BY <1>4 DEF Consuming, routerVars
    <2> PICK t \in Slots : Fan!Take(t) \/ Fan!Leave(t)
      BY <2>1 DEF Fan!Consume
    <2>2. CASE heard'[s] = heard[s]
      BY <2>1, <2>2, SameChunks
    <2>3. CASE heard'[s] # heard[s]
      <3> DEFINE c == Head(queue[s])
      <3>1. heard'[s] = Append(heard[s], c) /\ queue[s] # <<>>
        BY <2>3 DEF Fan!Take, Fan!Leave, PathInv, SlotTypes
      <3>2. queue[s] \in Seq(Chunk) /\ heard[s] \in Seq(Chunk) /\ passed \in Seq(Chunk) /\ Row(s)
        BY DEF PathInv, SlotTypes
      <3>3. \A i \in 1 .. Len(heard[s]) : Router!InOrder(heard[s][i], c)
        BY <3>1, <3>2, Ahead DEF Row
      <3>4. PICK j \in 1 .. Len(passed) : passed[j] = c
        BY <3>1, <3>2, Passing DEF Row
      <3>5. c \in Router!AllChunks
        <4>1. c \in R!Chunk /\ c.n <= R!gone[c.stream]
          BY <3>2, <3>4, Names DEF PathInv, R!DInv, R!Heard, Chunk
        <4>2. c.stream \in R!Streams /\ c.n \in Nat
          BY <4>1, R!ChunkIs, Constants
        <4>3. R!gone[c.stream] \in Nat /\ captured[c.stream] \in Nat /\ R!gone[c.stream] <= captured[c.stream]
          BY <1>0, <4>2, R!CountTypes, Constants DEF PathInv, R!DInv
        <4>4. c.n <= captured[c.stream]
          BY <4>1, <4>2, <4>3
        <4> QED BY <1>0, <4>1, <4>4, R!AllAre, Constants, Names
      <3>6. \A i \in 1 .. Len(heard[s]) : Hears(s)!Later(c, heard[s][i])
        <4> SUFFICES ASSUME NEW i \in 1 .. Len(heard[s]) PROVE Hears(s)!Later(c, heard[s][i])
          OBVIOUS
        <4>1. heard[s][i] \in Chunk /\ c \in Chunk
          BY <3>1, <3>2, TailIs
        <4>2. /\ heard[s][i].stream \in Nat /\ c.stream \in Nat /\ heard[s][i].n \in Nat /\ c.n \in Nat
          BY <4>1, R!ChunkIs, R!Bounds, Constants, Names DEF Chunk
        <4> QED BY <3>3, <4>2 DEF Router!InOrder, Hears!Later
      <3> QED BY <2>1, <3>1, <3>5, <3>6, SameChunks DEF Hears!Next, Hears!Hear
    <2> QED BY <2>2, <2>3
  <1>5. CASE UNCHANGED vars
    BY <1>5, SameChunks DEF vars, routerVars, slotVars
  <1> QED BY <1>1, <1>2, <1>3, <1>4, <1>5 DEF Next

\* For any number of devices, chunks and slots: every pipeline hears a part of what was
\* captured, in order and once, across every change of the device.
THEOREM HeardInOrder == Spec => PipelinesHearInOrder
  <1>1. PathInv /\ [Next]_vars => [\A s \in Slots : [Hears(s)!Next]_(Hears(s)!vars)]_vars
    BY HearStep
  <1> QED BY <1>1, HearInit, PathAlways, PTL DEF Spec, PipelinesHearInOrder

\* The path to each pipeline implements the lossy feed.
THEOREM EachPipelineFed == ASSUME NEW s \in Slots PROVE Spec => Hears(s)!Spec
  <1>1. Init => Hears(s)!Init
    BY HearInit
  <1>2. PathInv /\ [Next]_vars => [Hears(s)!Next]_(Hears(s)!vars)
    BY HearStep
  <1> QED BY <1>1, <1>2, PathAlways, PTL DEF Spec, Hears!Spec

-----------------------------------------------------------------------------
(* Each slot alone.                                                        *)

LEMMA FeedInit == ASSUME NEW s \in Slots, Init PROVE Feed(s)!Init
  BY DEF Init, Fan!Init, Router!Init, Feed!Init

LEMMA FeedStep ==
    ASSUME NEW s \in Slots, PathInv, [Next]_vars
    PROVE  [Feed(s)!Next]_(Feed(s)!vars)
  <1> USE DEF Feed!vars, Feed!slotVars
  <1>0. R!PInv /\ SlotTypes
    BY DEF PathInv, R!DInv
  <1>1. CASE RouterStep
    <2>0. R!Router /\ UNCHANGED <<queue, using, senders, drops, heard>>
      BY <1>1, SameRouter DEF RouterStep, slotVars
    <2>1. /\ running' = running /\ pc # "stopped"
          /\ \/ UNCHANGED <<downstream, passed>>
             \/ pc' # "stopped" /\ R!HasRoom /\ \E chunk \in Router!Chunk : R!Pass(chunk)
      BY <1>0, <2>0, R!Output, Constants, Names
    <2>2. CASE UNCHANGED <<downstream, passed>>
      <3>1. CASE pc' = "stopped"
        BY <2>0, <2>1, <2>2, <3>1 DEF Feed!Next, Feed!SupplyEnds
      <3>2. CASE pc' # "stopped"
        BY <2>0, <2>1, <2>2, <3>2
      <3> QED BY <3>1, <3>2
    <2>3. CASE pc' # "stopped" /\ R!HasRoom /\ \E chunk \in Router!Chunk : R!Pass(chunk)
      <3>1. running /\ Len(downstream) < DownstreamCap
        BY <2>3 DEF R!HasRoom
      <3>2. \E chunk \in Router!Chunk : downstream' = Append(downstream, chunk)
        BY <2>3 DEF R!Pass
      <3>3. Feed(s)!Supply
        BY <2>0, <2>1, <2>3, <3>1, <3>2 DEF Feed!Supply
      <3> QED BY <3>3 DEF Feed!Next
    <2> QED BY <2>1, <2>2, <2>3
  <1>2. CASE FanStep
    <2>0. pc' = pc
      BY <1>2 DEF FanStep, routerVars
    <2>1. CASE Fan!Fan
      <3> DEFINE fits == {t \in senders' : Len(queue[t]) < SlotCap}
      <3>1. /\ running /\ downstream # <<>> /\ downstream' = Tail(downstream)
            /\ senders' = senders \intersect using /\ UNCHANGED <<using, heard, running>>
            /\ queue' = [t \in Slots |-> IF t \in fits THEN Append(queue[t], Head(downstream)) ELSE queue[t]]
            /\ drops' = [t \in Slots |-> IF t \in senders' \ fits THEN drops[t] + 1 ELSE drops[t]]
        BY <2>1 DEF Fan!Fan
      <3>2. /\ queue'[s] = IF s \in fits THEN Append(queue[s], Head(downstream)) ELSE queue[s]
            /\ drops'[s] = IF s \in senders' \ fits THEN drops[s] + 1 ELSE drops[s]
        BY <3>1
      <3>3. Len(queue[s]) \in Nat /\ SlotCap \in Nat
        BY <1>0, Constants DEF SlotTypes
      <3>4. CASE s \in senders /\ s \in using /\ Len(queue[s]) < SlotCap
        <4>1. s \in senders' /\ s \in fits
          BY <3>1, <3>4
        <4> QED BY <2>0, <3>1, <3>2, <3>4, <4>1 DEF Feed!Next, Feed!Deliver
      <3>5. CASE s \in senders /\ s \in using /\ Len(queue[s]) >= SlotCap
        <4>1. s \in senders' /\ s \notin fits
          BY <3>1, <3>3, <3>5
        <4> QED BY <2>0, <3>1, <3>2, <3>5, <4>1 DEF Feed!Next, Feed!Deliver
      <3>6. CASE ~(s \in senders /\ s \in using)
        <4>1. s \notin senders' /\ s \notin fits
          BY <3>1, <3>6
        <4> QED BY <2>0, <3>1, <3>2, <3>6, <4>1 DEF Feed!Next, Feed!Deliver
      <3> QED BY <3>3, <3>4, <3>5, <3>6
    <2>2. CASE Fan!FanEnds
      <3>1. /\ running /\ downstream = <<>> /\ ~(pc # "stopped") /\ running' = FALSE /\ senders' = {}
            /\ UNCHANGED <<downstream, queue, using, drops, heard>>
        BY <2>2 DEF Fan!FanEnds
      <3>2. (s \in senders') = FALSE
        BY <3>1
      <3> QED BY <2>0, <3>1, <3>2, Zenon DEF Feed!Next, Feed!End
    <2> QED BY <1>2, <2>1, <2>2 DEF FanStep
  <1>3. CASE Capturing
    <2>1. UNCHANGED <<downstream, running, pc>>
      BY <1>3 DEF Capturing, Router!Outside, Router!Capture, Router!CaptureEnds, Router!HotSwap,
                  Router!DropHandle, Router!outVars
    <2> QED BY <1>3, <2>1 DEF Capturing, slotVars
  <1>4. CASE Consuming
    <2>1. pc' = pc /\ Fan!Consume
      BY <1>4 DEF Consuming, routerVars
    <2> PICK t \in Slots : Fan!Take(t) \/ Fan!Leave(t)
      BY <2>1 DEF Fan!Consume
    <2>2. CASE t = s
      BY <1>0, <2>1, <2>2 DEF Fan!Take, Fan!Leave, Feed!Next, Feed!Take, Feed!Leave, SlotTypes
    <2>3. CASE t # s
      <3>1. /\ queue'[s] = queue[s] /\ heard'[s] = heard[s] /\ (s \in using' <=> s \in using)
            /\ UNCHANGED <<downstream, senders, drops, running>>
        BY <1>0, <2>3 DEF Fan!Take, Fan!Leave, SlotTypes
      <3> QED BY <2>1, <3>1
    <2> QED BY <2>2, <2>3
  <1>5. CASE UNCHANGED vars
    BY <1>5 DEF vars, routerVars, slotVars
  <1> QED BY <1>1, <1>2, <1>3, <1>4, <1>5 DEF Next

\* For any set of slots and any bounds, whatever the router and the other slots do: the
\* fanout gives each slot what it promises to a slot alone.
THEOREM EachSlotAlone == ASSUME NEW s \in Slots PROVE Spec => Feed(s)!Spec
  <1>1. Init => Feed(s)!Init
    BY FeedInit
  <1>2. PathInv /\ [Next]_vars => [Feed(s)!Next]_(Feed(s)!vars)
    BY FeedStep
  <1> QED BY <1>1, <1>2, PathAlways, PTL DEF Spec, Feed!Spec
=============================================================================
