------------------------ MODULE CaptureRouter_proofs ------------------------
(***************************************************************************)
(* That the router forwards from the newest stream, in order and without   *)
(* holes in the archive, for any number of devices, chunks and callers.    *)
(***************************************************************************)
EXTENDS CaptureRouter, TLAPS, FiniteSetTheorems

\* What the place of the task says of its streams.
Placed ==
  /\ pc # "drain" /\ current # None => current = opened
  /\ pc = "drain" => /\ current = None /\ retiring \in Streams /\ retiring < opened
                     /\ swapCount <= opened - 2
  /\ pc = "closing" => current # None
  /\ pc \in {"head", "poll", "open"} /\ current = None => opened \notin live
PInv == TypeOK /\ Placed

LEMMA Bounds == /\ MaxStreams \in Nat /\ MaxStreams >= 1 /\ MaxChunks \in Nat /\ 1 \in Streams
                /\ \A s \in Streams : s \in Nat /\ s >= 1 /\ s # None
  BY CaptureRouterAssumption DEF RouterConstants, Streams, None

LEMMA PlaceInit == Init => PInv
  <1> SUFFICES ASSUME Init PROVE PInv
    OBVIOUS
  <1> USE DEF Init
  <1>1. /\ <<>> \in Seq(1 .. MaxChunks) /\ <<>> \in Seq(Callers) /\ <<>> \in Seq(Chunk)
        /\ 0 \in 0 .. MaxChunks
    BY Bounds
  <1>2. captured \in [Streams -> 0 .. MaxChunks] /\ upstream \in [Streams -> Seq(1 .. MaxChunks)]
    BY <1>1
  <1>3. swapCount \in 0 .. opened - 1
    OBVIOUS
  <1> QED BY <1>1, <1>2, <1>3, Bounds DEF PInv, TypeOK, Placed, Places, None

LEMMA SeqFacts ==
    ASSUME NEW S, NEW q \in Seq(S)
    PROVE  /\ \A x \in S : Append(q, x) \in Seq(S)
           /\ q # <<>> => Head(q) \in S /\ Tail(q) \in Seq(S)
           /\ \A i \in 1 .. Len(q) : q[i] \in S
           /\ <<>> \in Seq(S)
  OBVIOUS

LEMMA TailIs ==
    ASSUME NEW S, NEW q \in Seq(S), q # <<>>
    PROVE  /\ Head(q) = q[1] /\ 1 \in 1 .. Len(q)
           /\ Len(Tail(q)) = Len(q) - 1 /\ Len(q) \in Nat
           /\ \A i \in 1 .. Len(Tail(q)) : i + 1 \in 1 .. Len(q) /\ Tail(q)[i] = q[i + 1]
  OBVIOUS

LEMMA AppendIs ==
    ASSUME NEW S, NEW q \in Seq(S), NEW x
    PROVE  /\ Len(Append(q, x)) = Len(q) + 1 /\ Len(q) \in Nat
           /\ \A i \in 1 .. Len(Append(q, x)) :
                \/ i \in 1 .. Len(q) /\ Append(q, x)[i] = q[i]
                \/ i = Len(q) + 1 /\ Append(q, x)[i] = x
           /\ \A i \in 1 .. Len(q) : i \in 1 .. Len(Append(q, x)) /\ Append(q, x)[i] = q[i]
           /\ Len(q) + 1 \in 1 .. Len(Append(q, x)) /\ Append(q, x)[Len(q) + 1] = x
  OBVIOUS

LEMMA ArchiveType ==
    ASSUME TypeOK, NEW chunk \in Chunk, ArchiveChunk(chunk)
    PROVE  archiving' \in BOOLEAN /\ archive' \in Seq(Chunk)
  <1>1. archive \in Seq(Chunk) /\ archiving \in BOOLEAN
    BY DEF TypeOK
  <1>2. Append(archive, chunk) \in Seq(Chunk)
    BY <1>1, SeqFacts
  <1> QED BY <1>1, <1>2 DEF ArchiveChunk, archiveVars

LEMMA TakenType ==
    ASSUME TypeOK, NEW s \in Streams, upstream[s] # <<>>
    PROVE  /\ [upstream EXCEPT ![s] = Tail(@)] \in [Streams -> Seq(1 .. MaxChunks)]
           /\ [stream |-> s, n |-> Head(upstream[s])] \in Chunk
  <1>1. upstream[s] \in Seq(1 .. MaxChunks)
    BY DEF TypeOK
  <1>2. Tail(upstream[s]) \in Seq(1 .. MaxChunks) /\ Head(upstream[s]) \in 1 .. MaxChunks
    BY <1>1, SeqFacts
  <1> QED BY <1>2 DEF TypeOK, Chunk

LEMMA ForwardType ==
    ASSUME TypeOK, NEW s \in Streams, upstream[s] # <<>>, Forward(s)
    PROVE  /\ upstream' \in [Streams -> Seq(1 .. MaxChunks)]
           /\ archiving' \in BOOLEAN /\ archive' \in Seq(Chunk)
           /\ downstream' \in Seq(Chunk) /\ passed' \in Seq(Chunk) /\ unheard' \subseteq Chunk
           /\ swapDrops' \in Nat
  <1> DEFINE chunk == [stream |-> s, n |-> Head(upstream[s])]
  <1>1. chunk \in Chunk
    BY TakenType
  <1>2. upstream' = [upstream EXCEPT ![s] = Tail(@)] /\ ArchiveChunk(chunk) /\ swapDrops' = swapDrops
    BY DEF Forward
  <1>3. \/ Pass(chunk) /\ unheard' = unheard
        \/ unheard' = unheard \union {chunk} /\ UNCHANGED <<downstream, passed>>
    BY DEF Forward
  <1> HIDE DEF chunk
  <1>4. downstream' \in Seq(Chunk) /\ passed' \in Seq(Chunk) /\ unheard' \subseteq Chunk
    <2>1. downstream \in Seq(Chunk) /\ passed \in Seq(Chunk) /\ unheard \subseteq Chunk
      BY DEF TypeOK
    <2>2. Append(downstream, chunk) \in Seq(Chunk) /\ Append(passed, chunk) \in Seq(Chunk)
      BY <1>1, <2>1, SeqFacts
    <2> QED BY <1>1, <1>3, <2>1, <2>2 DEF Pass
  <1> QED BY <1>1, <1>2, <1>4, ArchiveType, TakenType DEF TypeOK

LEMMA DropType ==
    ASSUME TypeOK, NEW s \in Streams, DropReceiver(s)
    PROVE  upstream' \in [Streams -> Seq(1 .. MaxChunks)] /\ abandoned' \subseteq Chunk
  <1>1. upstream[s] \in Seq(1 .. MaxChunks) /\ <<>> \in Seq(1 .. MaxChunks)
    BY SeqFacts DEF TypeOK
  <1>2. \A i \in 1 .. Len(upstream[s]) : [stream |-> s, n |-> upstream[s][i]] \in Chunk
    <2>1. \A i \in 1 .. Len(upstream[s]) : upstream[s][i] \in 1 .. MaxChunks
      BY <1>1, SeqFacts
    <2> QED BY <2>1 DEF Chunk
  <1>3. ChunksOf(s) \subseteq Chunk
    BY <1>2 DEF ChunksOf
  <1> QED BY <1>1, <1>3 DEF DropReceiver, TypeOK

LEMMA StopType ==
    ASSUME TypeOK, Stop
    PROVE  /\ upstream' \in [Streams -> Seq(1 .. MaxChunks)] /\ abandoned' \subseteq Chunk
           /\ commands' \in Seq(Callers) /\ answers' \in [Callers -> {"none", "waiting", "ok", "err"}]
           /\ current' = None /\ pc' = "stopped"
  <1>1. current = None \/ current \in Streams
    BY DEF TypeOK
  <1>2. upstream' \in [Streams -> Seq(1 .. MaxChunks)] /\ abandoned' \subseteq Chunk
    BY <1>1, DropType DEF Stop, TypeOK
  <1>3. answers' \in [Callers -> {"none", "waiting", "ok", "err"}]
    BY DEF Stop, TypeOK
  <1> QED BY <1>2, <1>3 DEF Stop

LEMMA PlaceStep == PInv /\ [Next]_vars => PInv'
  <1> SUFFICES ASSUME PInv, [Next]_vars PROVE PInv'
    OBVIOUS
  <1>0. TypeOK /\ Placed
    BY DEF PInv
  <1>00. opened \in Nat /\ opened >= 1 /\ opened <= MaxStreams /\ None \notin Streams /\ MaxStreams \in Nat
    BY <1>0, Bounds DEF TypeOK, Streams
  <1> USE DEF TypeOK, Placed, PInv, Places
  <1>1. CASE UNCHANGED vars
    BY <1>1 DEF vars, deviceVars, swapVars, requestVars, archiveVars, outVars
  <1>2. CASE Receive \/ Hangup
    <2>1. downstream \in Seq(Chunk)
      OBVIOUS
    <2>2. downstream' \in Seq(Chunk) /\ listening' \in BOOLEAN
      <3>1. <<>> \in Seq(Chunk) /\ (downstream # <<>> => Tail(downstream) \in Seq(Chunk))
        BY <2>1, SeqFacts
      <3> QED BY <1>2, <3>1 DEF Receive, Hangup
    <2> QED BY <1>2, <2>2 DEF Receive, Hangup, deviceVars, swapVars, requestVars, archiveVars
  <1>3. CASE Outside
    <2>1. ASSUME NEW s \in Streams, Capture(s) PROVE PInv'
      <3>1. captured[s] + 1 \in 1 .. MaxChunks
        <4>1. captured[s] \in 0 .. MaxChunks /\ captured[s] < MaxChunks
          BY <2>1 DEF Capture
        <4> QED BY SMTT(60), <4>1, Bounds
      <3>2. Append(upstream[s], captured[s] + 1) \in Seq(1 .. MaxChunks)
        <4>1. upstream[s] \in Seq(1 .. MaxChunks)
          OBVIOUS
        <4> QED BY <3>1, <4>1, SeqFacts
      <3>3. /\ captured' \in [Streams -> 0 .. MaxChunks]
            /\ upstream' \in [Streams -> Seq(1 .. MaxChunks)]
        <4>1. captured[s] + 1 \in 0 .. MaxChunks
          BY <3>1, Bounds
        <4>2. /\ captured' = [captured EXCEPT ![s] = captured[s] + 1]
              /\ upstream' = [upstream EXCEPT ![s] = Append(upstream[s], captured[s] + 1)]
          BY <2>1 DEF Capture
        <4> QED BY <3>2, <4>1, <4>2
      <3> QED BY <2>1, <3>3 DEF Capture, swapVars, requestVars, archiveVars, outVars
    <2>2. ASSUME NEW s \in Streams, CaptureEnds(s) PROVE PInv'
      BY <2>2 DEF CaptureEnds, swapVars, requestVars, archiveVars, outVars
    <2>3. ASSUME NEW c \in Callers, HotSwap(c) PROVE PInv'
      <3>1. commands' \in Seq(Callers) /\ answers' \in [Callers -> {"none", "waiting", "ok", "err"}]
        <4>1. Append(commands, c) \in Seq(Callers)
          <5>1. commands \in Seq(Callers)
            OBVIOUS
          <5> QED BY <5>1, SeqFacts
        <4>2. /\ commands' = commands \/ commands' = Append(commands, c)
              /\ \/ answers' = [answers EXCEPT ![c] = "err"]
                 \/ answers' = [answers EXCEPT ![c] = "waiting"]
          BY <2>3 DEF HotSwap
        <4> QED BY <4>1, <4>2
      <3> QED BY <2>3, <3>1 DEF HotSwap, deviceVars, swapVars, archiveVars, outVars
    <2>4. CASE DropHandle
      BY <2>4 DEF DropHandle, deviceVars, swapVars, archiveVars, outVars
    <2> QED BY <1>3, <2>1, <2>2, <2>3, <2>4 DEF Outside
  <1>4. CASE Router
    <2>1. CASE LoopHead
      <3>1. CASE listening
        BY <2>1, <3>1 DEF LoopHead, deviceVars, archiveVars, outVars
      <3>2. CASE ~listening
        <4>1. Stop
          BY <2>1, <3>2 DEF LoopHead
        <4> QED BY SMTT(60), <2>1, <4>1, StopType DEF LoopHead, deviceVars, archiveVars, outVars
      <3> QED BY <3>1, <3>2
    <2>2. CASE SwapCmd
      <3>1. Head(commands) \in Callers /\ Tail(commands) \in Seq(Callers)
        BY <2>2 DEF SwapCmd
      <3>2. Head(commands) # NoCaller
        BY <3>1, CaptureRouterAssumption DEF RouterConstants
      <3> QED BY <2>2, <3>1, <3>2 DEF SwapCmd, deviceVars, archiveVars, outVars
    <2>3. CASE PollChunk
      <3>1. current \in Streams /\ upstream[current] # <<>> /\ Forward(current)
        BY <2>3 DEF PollChunk
      <3> QED BY <2>3, <3>1, ForwardType DEF PollChunk, deviceVars, swapVars, requestVars
    <2>4. CASE UpstreamClosed
      BY <2>4 DEF UpstreamClosed, deviceVars, requestVars, archiveVars, outVars
    <2>5. CASE Shutdown
      <3>1. CASE current # None
        BY <2>5, <3>1 DEF Shutdown, deviceVars, archiveVars, outVars
      <3>2. CASE current = None
        <4>1. Stop
          BY <2>5, <3>2 DEF Shutdown
        <4> QED BY SMTT(60), <2>5, <4>1, StopType DEF Shutdown, deviceVars, archiveVars, outVars
      <3> QED BY <3>1, <3>2
    <2>6. CASE OpenFails
      <3>1. answers' \in [Callers -> {"none", "waiting", "ok", "err"}] /\ serving' = NoCaller
        BY <2>6 DEF OpenFails, Answer
      <3> QED BY <2>6, <3>1 DEF OpenFails, deviceVars, archiveVars, outVars
    <2>7. CASE OpenSucceeds
      <3>1. /\ opened' = opened + 1 /\ opened' \in Streams /\ live' \subseteq Streams
            /\ retiring' = current /\ UNCHANGED <<captured, upstream, commands, held, archiving, archive,
                 downstream, swapDrops, passed, unheard, listening, abandoned>>
            /\ pc = "open" /\ serving \in Callers
        BY SMTT(60), <1>00, <2>7 DEF OpenSucceeds, archiveVars, outVars, Streams
      <3>2. CASE current = None
        <4>1. /\ current' = opened + 1 /\ swapCount' = swapCount + 1 /\ pc' = "head" /\ serving' = NoCaller
              /\ answers' \in [Callers -> {"none", "waiting", "ok", "err"}]
          BY <2>7, <3>2 DEF OpenSucceeds, Answer
        <4>2. swapCount' \in 0 .. opened' - 1
          BY <1>00, <3>1, <4>1
        <4> QED BY <1>00, <3>1, <3>2, <4>1, <4>2
      <3>3. CASE current # None
        <4>1. /\ current' = None /\ pc' = "drain" /\ swapCount' = swapCount /\ answers' = answers
              /\ serving' = serving
          BY <2>7, <3>3 DEF OpenSucceeds
        <4>2. swapCount' \in 0 .. opened' - 1 /\ swapCount' <= opened' - 2
          BY <1>00, <3>1, <4>1
        <4>3. serving # NoCaller /\ current = opened
          BY <3>1, <3>3
        <4> QED BY <1>00, <3>1, <3>3, <4>1, <4>2, <4>3
      <3> QED BY <3>2, <3>3
    <2>8. CASE DrainChunk
      <3> DEFINE chunk == [stream |-> retiring, n |-> Head(upstream[retiring])]
      <3>1. retiring \in Streams /\ upstream[retiring] # <<>>
        BY <2>8 DEF DrainChunk
      <3>2. /\ upstream' = [upstream EXCEPT ![retiring] = Tail(@)] /\ ArchiveChunk(chunk)
            /\ \/ Pass(chunk) /\ swapDrops' = swapDrops
               \/ swapDrops' = swapDrops + 1 /\ UNCHANGED <<downstream, passed>>
        BY <2>8 DEF DrainChunk
      <3>3. chunk \in Chunk /\ upstream' \in [Streams -> Seq(1 .. MaxChunks)]
        BY <3>1, <3>2, TakenType
      <3> HIDE DEF chunk
      <3>4. /\ archiving' \in BOOLEAN /\ archive' \in Seq(Chunk)
            /\ downstream' \in Seq(Chunk) /\ passed' \in Seq(Chunk) /\ swapDrops' \in Nat
        <4>1. downstream \in Seq(Chunk) /\ passed \in Seq(Chunk) /\ swapDrops \in Nat
          OBVIOUS
        <4>2. Append(downstream, chunk) \in Seq(Chunk) /\ Append(passed, chunk) \in Seq(Chunk)
          BY <3>3, <4>1, SeqFacts
        <4>3. archiving' \in BOOLEAN /\ archive' \in Seq(Chunk)
          BY <3>2, <3>3, ArchiveType
        <4>4. \/ downstream' = Append(downstream, chunk) /\ passed' = Append(passed, chunk) /\ swapDrops' = swapDrops
              \/ swapDrops' = swapDrops + 1 /\ UNCHANGED <<downstream, passed>>
          BY <3>2 DEF Pass
        <4>5. swapDrops + 1 \in Nat
          BY <4>1
        <4>6. downstream' \in Seq(Chunk) /\ passed' \in Seq(Chunk) /\ swapDrops' \in Nat
          BY <4>1, <4>2, <4>4, <4>5, Zenon
        <4> QED BY <4>3, <4>6
      <3> QED BY <2>8, <3>3, <3>4 DEF DrainChunk, deviceVars, swapVars, requestVars
    <2>9. CASE DrainEnds
      <3>1. retiring \in Streams /\ DropReceiver(retiring)
        BY <2>9 DEF DrainEnds
      <3>2. answers' \in [Callers -> {"none", "waiting", "ok", "err"}] /\ serving' = NoCaller
        BY <2>9 DEF DrainEnds, Answer
      <3>3. swapCount' \in 0 .. opened - 1
        <4>1. swapCount \in 0 .. opened - 1 /\ swapCount <= opened - 2 /\ swapCount' = swapCount + 1
          BY <2>9 DEF DrainEnds
        <4> QED BY <1>00, <4>1
      <3>4. upstream' \in [Streams -> Seq(1 .. MaxChunks)] /\ abandoned' \subseteq Chunk
        BY <3>1, DropType
      <3>5. /\ retiring' = None /\ current' = opened /\ pc' = "head"
            /\ UNCHANGED <<live, captured, opened, commands, held, archiving, archive, downstream,
                          swapDrops, passed, unheard, listening>>
        BY <2>9 DEF DrainEnds, deviceVars, archiveVars, outVars
      <3>6. TypeOK'
        BY <1>00, <3>2, <3>3, <3>4, <3>5
      <3>7. Placed'
        BY <1>00, <3>5
      <3> QED BY <3>6, <3>7
    <2>10. CASE CloseChunk
      <3>1. current \in Streams /\ upstream[current] # <<>> /\ Forward(current)
        BY <2>10 DEF CloseChunk
      <3> QED BY <2>10, <3>1, ForwardType DEF CloseChunk, deviceVars, swapVars, requestVars
    <2>11. CASE CloseEnds
      BY <2>11 DEF CloseEnds, deviceVars, swapVars, requestVars, archiveVars, outVars
    <2>12. CASE Ended
      <3>1. Stop
        BY <2>12 DEF Ended
      <3> QED BY SMTT(60), <2>12, <3>1, StopType DEF Ended, deviceVars, archiveVars, outVars
    <2> QED BY <1>4, <2>1, <2>2, <2>3, <2>4, <2>5, <2>6, <2>7, <2>8, <2>9, <2>10, <2>11, <2>12 DEF Router
  <1> QED BY <1>1, <1>2, <1>3, <1>4 DEF Next

\* For any number of devices, chunks and callers: every variable keeps its type, and the
\* place of the task tells which streams and which request it has in hand.
THEOREM TypeCorrect == Spec => []TypeOK
  <1> QED BY PlaceInit, PlaceStep, PTL DEF Spec, PInv

\* A swap that fails leaves the old stream in place, whatever else happens: between two
\* requests the router forwards from the device opened last, if that one lives.
THEOREM NewestIsCurrent == Spec => []NewestStreamIsCurrent
  <1>1. PInv => NewestStreamIsCurrent
    BY DEF PInv, Placed, NewestStreamIsCurrent
  <1> QED BY <1>1, PlaceInit, PlaceStep, PTL DEF Spec
-----------------------------------------------------------------------------
(* The order and the archive.                                              *)

\* How many chunks of each stream were taken from its channel, or went away with it.
gone == [s \in Streams |-> captured[s] - Len(upstream[s])]
\* The stream that is forwarded from; nothing was taken of a later one.
Front == IF pc = "drain" THEN retiring ELSE opened
Numbered ==
  /\ \A s \in Streams : /\ Len(upstream[s]) <= captured[s]
                        /\ \A i \in 1 .. Len(upstream[s]) : upstream[s][i] = gone[s] + i
  /\ \A s \in Streams : s > Front => gone[s] = 0

\* What was passed on, archived and abandoned are chunks taken, in order; and one that
\* was taken and neither archived nor abandoned comes after the archive was given up.
Heard == Ordered(passed) /\ \A i \in 1 .. Len(passed) : passed[i].n <= gone[passed[i].stream]
Kept ==
  /\ Ordered(archive)
  /\ \A i \in 1 .. Len(archive) : archive[i].n <= gone[archive[i].stream] /\ archive[i] \notin abandoned
Lost == \A c \in abandoned : c.n <= gone[c.stream]
Whole ==
  \A c \in Chunk :
    c.n <= gone[c.stream] /\ c \notin abandoned =>
      \/ \E i \in 1 .. Len(archive) : archive[i] = c
      \/ ~archiving /\ \A i \in 1 .. Len(archive) : InOrder(archive[i], c)
\* And each chunk captured is in one place.
Spilt == \A c \in unheard : c.n <= gone[c.stream]
Accounted ==
  Cardinality(AllChunks) =
    Cardinality(Waiting) + Cardinality(unheard) + swapDrops + Cardinality(abandoned) + Len(passed)
DInv == PInv /\ Numbered /\ Heard /\ Kept /\ Lost /\ Whole /\ Spilt /\ Accounted

LEMMA ChunkIs ==
    /\ \A c \in Chunk : c.stream \in Streams /\ c.n \in 1 .. MaxChunks /\ c.n \in Nat /\ c.n >= 1
    /\ \A c, d \in Chunk : c.stream = d.stream /\ c.n = d.n => c = d
  BY Bounds DEF Chunk

LEMMA CountTypes ==
    ASSUME PInv, Numbered
    PROVE  \A s \in Streams : /\ upstream[s] \in Seq(1 .. MaxChunks) /\ captured[s] \in Nat
                              /\ Len(upstream[s]) \in Nat /\ gone[s] \in Nat
                              /\ gone[s] = captured[s] - Len(upstream[s]) /\ gone[s] <= captured[s]
  <1> SUFFICES ASSUME NEW s \in Streams
               PROVE  /\ upstream[s] \in Seq(1 .. MaxChunks) /\ captured[s] \in Nat
                      /\ Len(upstream[s]) \in Nat /\ gone[s] \in Nat
                      /\ gone[s] = captured[s] - Len(upstream[s]) /\ gone[s] <= captured[s]
    OBVIOUS
  <1>1. upstream[s] \in Seq(1 .. MaxChunks) /\ captured[s] \in 0 .. MaxChunks
    BY DEF PInv, TypeOK
  <1>2. Len(upstream[s]) \in Nat /\ captured[s] \in Nat
    BY <1>1, Bounds
  <1>3. gone[s] = captured[s] - Len(upstream[s])
    BY DEF gone
  <1>4. Len(upstream[s]) <= captured[s]
    BY DEF Numbered
  <1> QED BY <1>1, <1>2, <1>3, <1>4

LEMMA DataTypes ==
    ASSUME DInv
    PROVE  /\ \A s \in Streams : /\ upstream[s] \in Seq(1 .. MaxChunks) /\ captured[s] \in Nat
                                 /\ Len(upstream[s]) \in Nat /\ gone[s] \in Nat
                                 /\ gone[s] = captured[s] - Len(upstream[s])
           /\ passed \in Seq(Chunk) /\ archive \in Seq(Chunk) /\ abandoned \subseteq Chunk
           /\ unheard \subseteq Chunk
           /\ Front \in Nat /\ archiving \in BOOLEAN
           /\ \A i \in 1 .. Len(passed) : passed[i] \in Chunk
           /\ \A i \in 1 .. Len(archive) : archive[i] \in Chunk
  <1>0. TypeOK /\ Placed /\ Numbered /\ PInv
    BY DEF DInv, PInv
  <1>2. Front \in Nat
    BY <1>0, Bounds DEF Front, TypeOK, Placed
  <1>3. /\ passed \in Seq(Chunk) /\ archive \in Seq(Chunk) /\ abandoned \subseteq Chunk
        /\ unheard \subseteq Chunk /\ archiving \in BOOLEAN
    BY <1>0 DEF TypeOK
  <1> QED BY <1>0, <1>2, <1>3, CountTypes, SeqFacts

-----------------------------------------------------------------------------
(* The count.                                                              *)

LEMMA ChunksFinite == IsFiniteSet(Chunk)
  <1> DEFINE Pairs == Streams \X (1 .. MaxChunks)
             f == [p \in Pairs |-> [stream |-> p[1], n |-> p[2]]]
  <1>1. IsFiniteSet(Streams) /\ IsFiniteSet(1 .. MaxChunks)
    BY FS_Interval, Bounds DEF Streams
  <1>2. IsFiniteSet(Pairs)
    BY <1>1, FS_Product
  <1>3. f \in [Pairs -> Chunk]
    BY DEF Chunk
  <1>4. \A c \in Chunk : \E p \in Pairs : f[p] = c
    <2> SUFFICES ASSUME NEW c \in Chunk PROVE \E p \in Pairs : f[p] = c
      OBVIOUS
    <2>1. c.stream \in Streams /\ c.n \in 1 .. MaxChunks /\ c = [stream |-> c.stream, n |-> c.n]
      BY DEF Chunk
    <2> DEFINE p == <<c.stream, c.n>>
    <2>2. p \in Pairs /\ p[1] = c.stream /\ p[2] = c.n
      BY <2>1
    <2>3. f[p] = c
      BY <2>1, <2>2
    <2> QED BY <2>2, <2>3
  <1>5. f \in Surjection(Pairs, Chunk)
    BY <1>3, <1>4 DEF Surjection
  <1> QED BY <1>2, <1>5, FS_Surjection

\* The chunks captured, and those that wait, by their numbers.
LEMMA AllAre ==
    ASSUME TypeOK
    PROVE  \A c : c \in AllChunks <=> c \in Chunk /\ c.n <= captured[c.stream]
  <1>0. \A s \in Streams : captured[s] \in Nat /\ captured[s] <= MaxChunks
    <2>1. \A s \in Streams : captured[s] \in 0 .. MaxChunks
      BY DEF TypeOK
    <2> QED BY <2>1, Bounds
  <1>1. ASSUME NEW c, c \in AllChunks PROVE c \in Chunk /\ c.n <= captured[c.stream]
    <2>1. PICK s \in Streams : c \in [stream : {s}, n : 1 .. captured[s]]
      BY <1>1 DEF AllChunks, Chunks
    <2>2. 1 .. captured[s] \subseteq 1 .. MaxChunks
      BY <1>0, Bounds
    <2> QED BY <1>0, <2>1, <2>2 DEF Chunk
  <1>2. ASSUME NEW c \in Chunk, c.n <= captured[c.stream] PROVE c \in AllChunks
    <2>1. c.stream \in Streams /\ c.n \in 1 .. captured[c.stream]
      BY <1>0, <1>2, ChunkIs
    <2>2. c \in [stream : {c.stream}, n : 1 .. captured[c.stream]]
      BY <2>1 DEF Chunk
    <2> QED BY <2>1, <2>2 DEF AllChunks, Chunks
  <1> QED BY <1>1, <1>2

LEMMA WaitingAre ==
    ASSUME PInv, Numbered
    PROVE  \A c : c \in Waiting <=> c \in Chunk /\ gone[c.stream] < c.n /\ c.n <= captured[c.stream]
  <1>0. \A s \in Streams : /\ upstream[s] \in Seq(1 .. MaxChunks)
                           /\ captured[s] \in Nat /\ Len(upstream[s]) \in Nat /\ gone[s] \in Nat
                           /\ gone[s] = captured[s] - Len(upstream[s])
                           /\ \A i \in 1 .. Len(upstream[s]) : upstream[s][i] = gone[s] + i
    BY CountTypes DEF Numbered
  <1>1. ASSUME NEW c, c \in Waiting
        PROVE  c \in Chunk /\ gone[c.stream] < c.n /\ c.n <= captured[c.stream]
    <2>0. PICK s \in Streams : c \in ChunksOf(s)
      BY <1>1 DEF Waiting
    <2>1. PICK i \in 1 .. Len(upstream[s]) : c = [stream |-> s, n |-> upstream[s][i]]
      BY <2>0 DEF ChunksOf
    <2>2. c.stream = s /\ c.n = gone[s] + i
      BY <1>0, <2>1
    <2>3. upstream[s][i] \in 1 .. MaxChunks
      BY <1>0, SeqFacts
    <2>4. c \in Chunk
      BY <2>1, <2>3 DEF Chunk
    <2> QED BY <1>0, <2>2, <2>4
  <1>2. ASSUME NEW c \in Chunk, gone[c.stream] < c.n, c.n <= captured[c.stream]
        PROVE  c \in Waiting
    <2> DEFINE s == c.stream
               i == c.n - gone[s]
    <2>0. s \in Streams /\ c.n \in Nat
      BY ChunkIs
    <2>1. i \in 1 .. Len(upstream[s]) /\ gone[s] + i = c.n
      <3>1. /\ gone[s] \in Nat /\ captured[s] \in Nat /\ Len(upstream[s]) \in Nat
            /\ gone[s] = captured[s] - Len(upstream[s]) /\ gone[s] < c.n /\ c.n <= captured[s]
        BY <1>0, <1>2, <2>0
      <3> HIDE DEF s
      <3> QED BY <2>0, <3>1
    <2>2. upstream[s][i] = c.n
      BY <1>0, <2>0, <2>1
    <2>3. c = [stream |-> s, n |-> upstream[s][i]]
      BY <2>2 DEF Chunk
    <2> QED BY <2>0, <2>1, <2>3 DEF Waiting, ChunksOf
  <1> QED BY <1>1, <1>2

LEMMA SetsFinite ==
    ASSUME PInv, Numbered
    PROVE  /\ IsFiniteSet(AllChunks) /\ IsFiniteSet(Waiting)
           /\ IsFiniteSet(unheard) /\ IsFiniteSet(abandoned)
           /\ Cardinality(AllChunks) \in Nat /\ Cardinality(Waiting) \in Nat
           /\ Cardinality(unheard) \in Nat /\ Cardinality(abandoned) \in Nat
           /\ swapDrops \in Nat /\ Len(passed) \in Nat
  <1>1. /\ AllChunks \subseteq Chunk /\ Waiting \subseteq Chunk
        /\ unheard \subseteq Chunk /\ abandoned \subseteq Chunk
    BY AllAre, WaitingAre DEF PInv, TypeOK
  <1>2. /\ IsFiniteSet(AllChunks) /\ IsFiniteSet(Waiting)
        /\ IsFiniteSet(unheard) /\ IsFiniteSet(abandoned)
    BY <1>1, ChunksFinite, FS_Subset
  <1>3. passed \in Seq(Chunk) /\ swapDrops \in Nat
    BY DEF PInv, TypeOK
  <1> QED BY <1>2, <1>3, FS_CardinalityType

\* One more chunk is captured.
LEMMA OneMore ==
    ASSUME TypeOK, TypeOK', NEW s \in Streams, captured' = [captured EXCEPT ![s] = captured[s] + 1],
           NEW new, new = [stream |-> s, n |-> captured[s] + 1]
    PROVE  /\ new \in Chunk /\ ~(new.n <= captured[new.stream])
           /\ \A c \in Chunk : c.n <= captured'[c.stream] <=> c.n <= captured[c.stream] \/ c = new
           /\ AllChunks' = AllChunks \union {new} /\ new \notin AllChunks
  <1>1. /\ captured'[s] = captured[s] + 1
        /\ \A t \in Streams : captured[t] \in Nat /\ (t # s => captured'[t] = captured[t])
    BY Bounds DEF TypeOK
  <1>2. captured[s] + 1 \in 1 .. MaxChunks
    <2>1. captured'[s] \in 0 .. MaxChunks
      BY DEF TypeOK
    <2> QED BY <1>1, <2>1, Bounds
  <1>3. new \in Chunk /\ new.stream = s /\ new.n = captured[s] + 1
    BY <1>2 DEF Chunk
  <1>4. \A c \in Chunk : c.n <= captured'[c.stream] <=> c.n <= captured[c.stream] \/ c = new
    <2> SUFFICES ASSUME NEW c \in Chunk
                 PROVE  c.n <= captured'[c.stream] <=> c.n <= captured[c.stream] \/ c = new
      OBVIOUS
    <2>1. c.stream \in Streams /\ c.n \in Nat /\ (c = new <=> c.stream = s /\ c.n = captured[s] + 1)
      BY <1>3, ChunkIs
    <2>2. CASE c.stream = s
      BY <1>1, <2>1, <2>2
    <2>3. CASE c.stream # s
      BY <1>1, <2>1, <2>3
    <2> QED BY <2>2, <2>3
  <1>5. (TypeOK => \A c : c \in AllChunks <=> c \in Chunk /\ c.n <= captured[c.stream])'
    BY AllAre, PTL
  <1>6. \A c : c \in AllChunks <=> c \in Chunk /\ c.n <= captured[c.stream]
    BY AllAre
  <1>7. \A c : c \in AllChunks' <=> c \in Chunk /\ c.n <= captured'[c.stream]
    BY <1>5
  <1>8. ~(new.n <= captured[new.stream])
    BY <1>1, <1>3
  <1> QED BY <1>3, <1>4, <1>6, <1>7, <1>8

\* One more chunk is captured, and waits.
LEMMA CountCaptured ==
    ASSUME DInv, PInv', Numbered', NEW s \in Streams, gone' = gone,
           captured' = [captured EXCEPT ![s] = captured[s] + 1],
           UNCHANGED <<passed, unheard, swapDrops, abandoned>>
    PROVE  Accounted'
  <1> DEFINE new == [stream |-> s, n |-> captured[s] + 1]
  <1>0. PInv /\ Numbered /\ Accounted /\ TypeOK /\ TypeOK'
    BY DEF DInv, PInv
  <1>1. \A t \in Streams : captured[t] \in Nat /\ gone[t] \in Nat /\ gone[t] <= captured[t]
    BY <1>0, CountTypes
  <1>3. new.stream = s /\ new.n = captured[s] + 1 /\ new = [stream |-> s, n |-> captured[s] + 1]
    OBVIOUS
  <1> HIDE DEF new
  <1>4. /\ new \in Chunk /\ ~(new.n <= captured[new.stream])
        /\ \A c \in Chunk : c.n <= captured'[c.stream] <=> c.n <= captured[c.stream] \/ c = new
        /\ AllChunks' = AllChunks \union {new} /\ new \notin AllChunks
    BY <1>0, <1>3, OneMore
  <1>5. (PInv /\ Numbered => \A c : c \in Waiting <=> c \in Chunk /\ gone[c.stream] < c.n /\ c.n <= captured[c.stream])'
    BY WaitingAre, PTL
  <1>8. Waiting' = Waiting \union {new} /\ new \notin Waiting
    <2>1. \A c : c \in Waiting <=> c \in Chunk /\ gone[c.stream] < c.n /\ c.n <= captured[c.stream]
      BY <1>0, WaitingAre
    <2>2. \A c : c \in Waiting' <=> c \in Chunk /\ gone[c.stream] < c.n /\ c.n <= captured'[c.stream]
      BY <1>5
    <2>3. gone[new.stream] < new.n
      BY <1>1, <1>3
    <2> QED BY <1>4, <2>1, <2>2, <2>3
  <1>9. /\ Cardinality(AllChunks') = Cardinality(AllChunks) + 1
        /\ Cardinality(Waiting') = Cardinality(Waiting) + 1
    BY <1>0, <1>4, <1>8, SetsFinite, FS_AddElement
  <1> QED BY <1>0, <1>9, SetsFinite DEF Accounted

\* Where a chunk goes that the router takes.
Sent(chunk) ==
  \/ passed' = Append(passed, chunk) /\ UNCHANGED <<unheard, swapDrops>>
  \/ unheard' = unheard \union {chunk} /\ UNCHANGED <<passed, swapDrops>>
  \/ swapDrops' = swapDrops + 1 /\ UNCHANGED <<passed, unheard>>

LEMMA CountTaken ==
    ASSUME DInv, PInv', Numbered', NEW s \in Streams, NEW chunk \in Chunk,
           chunk.stream = s, chunk.n = gone[s] + 1, gone'[s] = gone[s] + 1, chunk.n <= captured[s],
           \A t \in Streams : t # s => gone'[t] = gone[t],
           Sent(chunk), UNCHANGED <<captured, abandoned>>
    PROVE  Accounted'
  <1>0. PInv /\ Numbered /\ Accounted /\ TypeOK /\ Spilt
    BY DEF DInv, PInv
  <1>1. \A t \in Streams : captured[t] \in Nat /\ gone[t] \in Nat
    BY <1>0, CountTypes
  <1>2. (PInv /\ Numbered => \A c : c \in Waiting <=> c \in Chunk /\ gone[c.stream] < c.n /\ c.n <= captured[c.stream])'
    BY WaitingAre, PTL
  <1>3. Waiting' = Waiting \ {chunk} /\ chunk \in Waiting
    <2>1. \A c : c \in Waiting <=> c \in Chunk /\ gone[c.stream] < c.n /\ c.n <= captured[c.stream]
      BY <1>0, WaitingAre
    <2>2. \A c : c \in Waiting' <=> c \in Chunk /\ gone'[c.stream] < c.n /\ c.n <= captured[c.stream]
      BY <1>2
    <2>3. \A c \in Chunk : gone'[c.stream] < c.n <=> gone[c.stream] < c.n /\ c # chunk
      <3> SUFFICES ASSUME NEW c \in Chunk PROVE gone'[c.stream] < c.n <=> gone[c.stream] < c.n /\ c # chunk
        OBVIOUS
      <3>1. c.stream \in Streams /\ c.n \in Nat /\ (c = chunk <=> c.stream = s /\ c.n = gone[s] + 1)
        BY ChunkIs
      <3>2. CASE c.stream = s
        BY <1>1, <3>1, <3>2
      <3>3. CASE c.stream # s
        BY <3>1, <3>3
      <3> QED BY <3>2, <3>3
    <2>4. gone[chunk.stream] < chunk.n
      BY <1>1
    <2> QED BY <2>1, <2>2, <2>3, <2>4
  <1>4. AllChunks' = AllChunks
    BY DEF AllChunks, Chunks
  <1>5. Cardinality(Waiting') = Cardinality(Waiting) - 1
    BY <1>0, <1>3, SetsFinite, FS_RemoveElement
  <1>6. chunk \notin unheard
    <2>1. ~(chunk.n <= gone[chunk.stream])
      BY <1>1
    <2> QED BY <1>0, <2>1 DEF Spilt
  <1>7. \/ Len(passed') = Len(passed) + 1 /\ unheard' = unheard /\ swapDrops' = swapDrops
        \/ Cardinality(unheard') = Cardinality(unheard) + 1 /\ passed' = passed /\ swapDrops' = swapDrops
        \/ swapDrops' = swapDrops + 1 /\ unheard' = unheard /\ passed' = passed
    <2>1. Len(Append(passed, chunk)) = Len(passed) + 1
      BY <1>0, AppendIs DEF TypeOK
    <2>2. Cardinality(unheard \union {chunk}) = Cardinality(unheard) + 1
      BY <1>0, <1>6, SetsFinite, FS_AddElement
    <2> QED BY <2>1, <2>2 DEF Sent
  <1> QED BY <1>0, <1>4, <1>5, <1>7, SetsFinite DEF Accounted

LEMMA CountDropped ==
    ASSUME DInv, PInv', Numbered', NEW s \in Streams, DropReceiver(s),
           gone'[s] = captured[s], \A t \in Streams : t # s => gone'[t] = gone[t],
           \A c \in Chunk : c \in ChunksOf(s) <=> c.stream = s /\ gone[s] < c.n /\ c.n <= captured[s],
           UNCHANGED <<captured, passed, unheard, swapDrops>>
    PROVE  Accounted'
  <1> DEFINE left == ChunksOf(s)
  <1>0. PInv /\ Numbered /\ Accounted /\ TypeOK /\ Lost
    BY DEF DInv, PInv
  <1>1. \A t \in Streams : captured[t] \in Nat /\ gone[t] \in Nat
    BY <1>0, CountTypes
  <1>2. (PInv /\ Numbered => \A c : c \in Waiting <=> c \in Chunk /\ gone[c.stream] < c.n /\ c.n <= captured[c.stream])'
    BY WaitingAre, PTL
  <1>3. left \subseteq Waiting
    BY DEF Waiting
  <1>a. \A c : c \in Waiting <=> c \in Chunk /\ gone[c.stream] < c.n /\ c.n <= captured[c.stream]
    BY <1>0, WaitingAre
  <1>4. Waiting' = Waiting \ left
    <2>2. \A c : c \in Waiting' <=> c \in Chunk /\ gone'[c.stream] < c.n /\ c.n <= captured[c.stream]
      BY <1>2
    <2>3. \A c \in Chunk : gone'[c.stream] < c.n /\ c.n <= captured[c.stream]
                             <=> gone[c.stream] < c.n /\ c.n <= captured[c.stream] /\ c \notin left
      <3> SUFFICES ASSUME NEW c \in Chunk
                   PROVE  gone'[c.stream] < c.n /\ c.n <= captured[c.stream]
                            <=> gone[c.stream] < c.n /\ c.n <= captured[c.stream] /\ c \notin left
        OBVIOUS
      <3>1. c.stream \in Streams /\ c.n \in Nat
        BY ChunkIs
      <3>2. CASE c.stream = s
        BY <1>1, <3>1, <3>2
      <3>3. CASE c.stream # s
        BY <3>1, <3>3
      <3> QED BY <3>2, <3>3
    <2> QED BY <1>a, <2>2, <2>3
  <1>5. left \intersect abandoned = {}
    <2> SUFFICES ASSUME NEW c \in left PROVE c \notin abandoned
      OBVIOUS
    <2>1. c \in Chunk /\ gone[c.stream] < c.n
      BY <1>3, <1>a
    <2>2. ~(c.n <= gone[c.stream])
      BY <1>1, <2>1, ChunkIs
    <2> QED BY <1>0, <2>2 DEF Lost
  <1>6. AllChunks' = AllChunks
    BY DEF AllChunks, Chunks
  <1>7. abandoned' = left \union abandoned
    BY DEF DropReceiver
  <1> HIDE DEF left
  <1>8. IsFiniteSet(left) /\ Cardinality(left) \in Nat
    BY <1>0, <1>3, SetsFinite, FS_Subset, FS_CardinalityType
  <1>9. Cardinality(Waiting \ left) = Cardinality(Waiting) - Cardinality(left)
    <2>1. Waiting \intersect left = left
      BY <1>3
    <2>2. Cardinality(Waiting \ left) = Cardinality(Waiting) - Cardinality(Waiting \intersect left)
      BY <1>0, SetsFinite, FS_Difference
    <2> QED BY <2>1, <2>2
  <1>10. Cardinality(left \union abandoned) = Cardinality(left) + Cardinality(abandoned)
    <2>1. Cardinality(left \intersect abandoned) = 0
      BY <1>5, FS_EmptySet
    <2>2. Cardinality(left \union abandoned)
            = Cardinality(left) + Cardinality(abandoned) - Cardinality(left \intersect abandoned)
      BY <1>0, <1>8, SetsFinite, FS_Union
    <2> QED BY <1>0, <1>8, <2>1, <2>2, SetsFinite
  <1> QED BY <1>0, <1>4, <1>6, <1>7, <1>8, <1>9, <1>10, SetsFinite DEF Accounted

LEMMA DataInit == Init => DInv
  <1> SUFFICES ASSUME Init PROVE DInv
    OBVIOUS
  <1>1. passed = <<>> /\ archive = <<>> /\ abandoned = {}
    BY DEF Init
  <1>2. \A s \in Streams : captured[s] = 0 /\ upstream[s] = <<>>
    BY DEF Init
  <1>3. Len(<<>>) = 0 /\ 1 .. 0 = {} /\ 0 - 0 = 0
    OBVIOUS
  <1>4. \A s \in Streams : gone[s] = 0
    BY <1>2, <1>3 DEF gone
  <1>5. Numbered
    BY <1>2, <1>3, <1>4 DEF Numbered
  <1>6. Whole
    BY <1>4, ChunkIs DEF Whole
  <1>7. Heard /\ Kept /\ Lost /\ Spilt
    BY <1>1, <1>3 DEF Heard, Kept, Lost, Ordered, Spilt, Init
  <1>8. AllChunks = {} /\ Waiting = {} /\ unheard = {}
    BY <1>2, <1>3 DEF AllChunks, Chunks, Waiting, ChunksOf, Init
  <1>9. swapDrops = 0 /\ Cardinality({}) = 0
    BY FS_EmptySet DEF Init
  <1>10. Accounted
    BY <1>1, <1>3, <1>8, <1>9 DEF Accounted
  <1> QED BY <1>5, <1>6, <1>7, <1>10, PlaceInit DEF DInv

LEMMA Quiet ==
    ASSUME DInv, PInv', Front' >= Front, Front' \in Nat,
           UNCHANGED <<captured, upstream, passed, archive, archiving, abandoned, unheard, swapDrops>>
    PROVE  DInv'
  <1>1. gone' = gone
    BY DEF gone
  <1>2. \A s \in Streams : s > Front' => s > Front
    BY Bounds, DataTypes
  <1>3. Numbered'
    BY <1>1, <1>2 DEF DInv, Numbered
  <1>4. Heard' /\ Kept' /\ Lost' /\ Whole' /\ Spilt'
    BY <1>1 DEF DInv, Heard, Kept, Lost, Whole, Spilt
  <1>5. Accounted'
    BY DEF DInv, Accounted, AllChunks, Chunks, Waiting, ChunksOf
  <1> QED BY <1>3, <1>4, <1>5 DEF DInv

LEMMA Captured ==
    ASSUME DInv, PInv', Front' = Front, NEW s \in Streams,
           captured' = [captured EXCEPT ![s] = captured[s] + 1],
           upstream' = [upstream EXCEPT ![s] = Append(upstream[s], captured[s] + 1)],
           UNCHANGED <<passed, archive, archiving, abandoned, unheard, swapDrops>>
    PROVE  DInv'
  <1>0. captured \in [Streams -> 0 .. MaxChunks] /\ upstream \in [Streams -> Seq(1 .. MaxChunks)]
    BY DEF DInv, PInv, TypeOK
  <1>1. \A t \in Streams : t # s => captured'[t] = captured[t] /\ upstream'[t] = upstream[t]
    BY <1>0
  <1>2. captured'[s] = captured[s] + 1 /\ upstream'[s] = Append(upstream[s], captured[s] + 1)
    BY <1>0
  <1>3. /\ Len(upstream'[s]) = Len(upstream[s]) + 1
        /\ \A i \in 1 .. Len(upstream'[s]) :
             \/ i \in 1 .. Len(upstream[s]) /\ upstream'[s][i] = upstream[s][i]
             \/ i = Len(upstream[s]) + 1 /\ upstream'[s][i] = captured[s] + 1
    <2>1. upstream[s] \in Seq(1 .. MaxChunks)
      BY <1>0
    <2> QED BY <1>2, <2>1, AppendIs
  <1>4. /\ captured[s] \in Nat /\ Len(upstream[s]) \in Nat /\ gone[s] = captured[s] - Len(upstream[s])
        /\ Len(upstream[s]) <= captured[s]
        /\ \A i \in 1 .. Len(upstream[s]) : upstream[s][i] = gone[s] + i
    BY DataTypes DEF DInv, Numbered
  <1>5. gone' = gone
    <2>1. \A t \in Streams : captured'[t] - Len(upstream'[t]) = captured[t] - Len(upstream[t])
      <3> SUFFICES ASSUME NEW t \in Streams
                   PROVE  captured'[t] - Len(upstream'[t]) = captured[t] - Len(upstream[t])
        OBVIOUS
      <3>1. CASE t = s
        BY <1>2, <1>3, <1>4, <3>1
      <3>2. CASE t # s
        BY <1>1, <3>2
      <3> QED BY <3>1, <3>2
    <2> QED BY <2>1 DEF gone
  <1>6. Len(upstream'[s]) <= captured'[s] /\ \A i \in 1 .. Len(upstream'[s]) : upstream'[s][i] = gone[s] + i
    <2>1. Len(upstream'[s]) <= captured'[s]
      BY <1>2, <1>3, <1>4
    <2>2. captured[s] + 1 = gone[s] + (Len(upstream[s]) + 1)
      BY <1>4
    <2>3. \A i \in 1 .. Len(upstream'[s]) : upstream'[s][i] = gone[s] + i
      BY <1>3, <1>4, <2>2
    <2> QED BY <2>1, <2>3
  <1>7. Numbered'
    BY <1>1, <1>5, <1>6 DEF DInv, Numbered
  <1>8. Heard' /\ Kept' /\ Lost' /\ Whole' /\ Spilt'
    BY <1>5 DEF DInv, Heard, Kept, Lost, Whole, Spilt
  <1>9. Accounted'
    BY <1>5, <1>7, CountCaptured
  <1> QED BY <1>7, <1>8, <1>9 DEF DInv

LEMMA PutLast ==
    ASSUME NEW q \in Seq(Chunk), NEW c \in Chunk, Ordered(q), \A i \in 1 .. Len(q) : InOrder(q[i], c)
    PROVE  Ordered(Append(q, c))
  <1>1. /\ \A i \in 1 .. Len(Append(q, c)) :
             \/ i \in 1 .. Len(q) /\ Append(q, c)[i] = q[i]
             \/ i = Len(q) + 1 /\ Append(q, c)[i] = c
        /\ Len(q) \in Nat /\ Len(Append(q, c)) = Len(q) + 1
    BY AppendIs
  <1> SUFFICES ASSUME NEW i \in 1 .. Len(Append(q, c)), NEW j \in 1 .. Len(Append(q, c)), i < j
               PROVE  InOrder(Append(q, c)[i], Append(q, c)[j])
    BY DEF Ordered
  <1>2. i \in 1 .. Len(q) /\ Append(q, c)[i] = q[i]
    BY <1>1
  <1>3. CASE j \in 1 .. Len(q) /\ Append(q, c)[j] = q[j]
    BY <1>2, <1>3 DEF Ordered
  <1>4. CASE Append(q, c)[j] = c
    BY <1>2, <1>4
  <1> QED BY <1>1, <1>3, <1>4

\* One chunk of the stream in front is taken.
LEMMA Taken ==
    ASSUME DInv, PInv', Front' = Front, NEW s \in Streams, s = Front, upstream[s] # <<>>,
           NEW chunk, chunk = [stream |-> s, n |-> Head(upstream[s])],
           upstream' = [upstream EXCEPT ![s] = Tail(upstream[s])],
           ArchiveChunk(chunk), Sent(chunk), UNCHANGED <<captured, abandoned>>
    PROVE  DInv'
  <1>0. upstream \in [Streams -> Seq(1 .. MaxChunks)] /\ chunk \in Chunk
    BY TakenType DEF DInv, PInv, TypeOK
  <1>1. upstream'[s] = Tail(upstream[s]) /\ \A t \in Streams : t # s => upstream'[t] = upstream[t]
    BY <1>0
  <1>2. /\ Head(upstream[s]) = upstream[s][1] /\ 1 \in 1 .. Len(upstream[s])
        /\ Len(upstream'[s]) = Len(upstream[s]) - 1
        /\ \A i \in 1 .. Len(upstream'[s]) : i + 1 \in 1 .. Len(upstream[s]) /\ upstream'[s][i] = upstream[s][i + 1]
    <2>1. upstream[s] \in Seq(1 .. MaxChunks)
      BY <1>0
    <2>2. /\ Head(upstream[s]) = upstream[s][1] /\ 1 \in 1 .. Len(upstream[s])
          /\ Len(Tail(upstream[s])) = Len(upstream[s]) - 1
          /\ \A i \in 1 .. Len(Tail(upstream[s])) :
               i + 1 \in 1 .. Len(upstream[s]) /\ Tail(upstream[s])[i] = upstream[s][i + 1]
      BY <2>1, TailIs, Zenon
    <2> QED BY <1>1, <2>2
  <1>3. /\ captured[s] \in Nat /\ Len(upstream[s]) \in Nat /\ gone[s] = captured[s] - Len(upstream[s])
        /\ Len(upstream[s]) <= captured[s] /\ gone[s] \in Nat
        /\ \A i \in 1 .. Len(upstream[s]) : upstream[s][i] = gone[s] + i
        /\ \A t \in Streams : gone[t] \in Nat
    BY DataTypes DEF DInv, Numbered
  <1>4. chunk.stream = s /\ chunk.n = gone[s] + 1
    BY <1>2, <1>3
  <1>5. gone'[s] = gone[s] + 1 /\ \A t \in Streams : t # s => gone'[t] = gone[t]
    <2>1. gone'[s] = captured[s] - Len(upstream'[s])
      BY DEF gone
    <2>2. \A t \in Streams : t # s => gone'[t] = gone[t]
      BY <1>1 DEF gone
    <2> QED BY <1>2, <1>3, <2>1, <2>2
  <1>6. \A d \in Chunk : d.n <= gone[d.stream] => InOrder(d, chunk) /\ d # chunk /\ d.n <= gone'[d.stream]
    <2> SUFFICES ASSUME NEW d \in Chunk, d.n <= gone[d.stream]
                 PROVE  InOrder(d, chunk) /\ d # chunk /\ d.n <= gone'[d.stream]
      OBVIOUS
    <2>1. d.stream \in Streams /\ d.n \in Nat /\ d.n >= 1 /\ d.stream \in Nat /\ s \in Nat
      BY ChunkIs, Bounds
    <2>2. d.stream <= s
      <3>1. d.stream > s => gone[d.stream] = 0
        BY <2>1 DEF DInv, Numbered
      <3> QED BY <2>1, <3>1
    <2>3. CASE d.stream = s
      BY <1>3, <1>4, <1>5, <2>1, <2>3 DEF InOrder
    <2>4. CASE d.stream < s
      BY <1>4, <1>5, <2>1, <2>4 DEF InOrder
    <2> QED BY <2>1, <2>2, <2>3, <2>4
  <1>7. \A d \in Chunk : d.n <= gone'[d.stream] => d.n <= gone[d.stream] \/ d = chunk
    <2> SUFFICES ASSUME NEW d \in Chunk, d.n <= gone'[d.stream], ~(d.n <= gone[d.stream])
                 PROVE  d = chunk
      OBVIOUS
    <2>1. d.stream \in Streams /\ d.n \in Nat
      BY ChunkIs
    <2>2. d.stream = s /\ d.n = gone[s] + 1
      BY <1>3, <1>5, <2>1
    <2> QED BY <1>0, <1>4, <2>2, ChunkIs
  <1>8. Numbered'
    <2>1. \A t \in Streams : t > Front' => gone'[t] = 0
      <3>1. \A t \in Streams : t > s => t # s
        BY Bounds
      <3> QED BY <1>5, <3>1 DEF DInv, Numbered
    <2>2. ASSUME NEW t \in Streams
          PROVE  /\ Len(upstream'[t]) <= captured'[t]
                 /\ \A i \in 1 .. Len(upstream'[t]) : upstream'[t][i] = gone'[t] + i
      <3>1. CASE t = s
        <4>1. Len(upstream'[s]) <= captured[s]
          BY <1>2, <1>3
        <4>2. \A i \in 1 .. Len(upstream'[s]) : upstream'[s][i] = gone'[s] + i
          <5> SUFFICES ASSUME NEW i \in 1 .. Len(upstream'[s]) PROVE upstream'[s][i] = gone'[s] + i
            OBVIOUS
          <5>1. upstream'[s][i] = gone[s] + (i + 1)
            BY <1>2, <1>3
          <5> QED BY <1>3, <1>5, <5>1
        <4> QED BY <3>1, <4>1, <4>2
      <3>2. CASE t # s
        BY <1>1, <1>5, <3>2 DEF DInv, Numbered
      <3> QED BY <3>1, <3>2
    <2> QED BY <2>1, <2>2 DEF Numbered
  <1>9. Heard'
    <2>0. passed \in Seq(Chunk) /\ Heard /\ \A i \in 1 .. Len(passed) : passed[i] \in Chunk
      BY DataTypes DEF DInv
    <2>1. \A i \in 1 .. Len(passed) : InOrder(passed[i], chunk) /\ passed[i].n <= gone'[passed[i].stream]
      BY <1>6, <2>0 DEF Heard
    <2>2. chunk.n <= gone'[chunk.stream]
      BY <1>3, <1>4, <1>5
    <2>3. CASE passed' = passed
      BY <2>0, <2>1, <2>3 DEF Heard
    <2>4. CASE passed' = Append(passed, chunk)
      <3>1. Ordered(passed')
        BY <1>0, <2>0, <2>1, <2>4, PutLast DEF Heard
      <3>2. \A i \in 1 .. Len(passed') : passed'[i].n <= gone'[passed'[i].stream]
        <4>1. \A i \in 1 .. Len(passed') : \/ i \in 1 .. Len(passed) /\ passed'[i] = passed[i]
                                           \/ passed'[i] = chunk
          BY <1>0, <2>0, <2>4, AppendIs
        <4> QED BY <2>1, <2>2, <4>1
      <3> QED BY <3>1, <3>2 DEF Heard
    <2> QED BY <2>3, <2>4 DEF Sent
  <1>10. Lost'
    BY <1>6, DataTypes DEF DInv, Lost
  <1>a. Spilt'
    <2>1. chunk.n <= gone'[chunk.stream]
      BY <1>3, <1>4, <1>5
    <2>2. \A c \in unheard : c.n <= gone'[c.stream]
      BY <1>6, DataTypes DEF DInv, Spilt
    <2> QED BY <2>1, <2>2 DEF Sent, Spilt
  <1>b. Accounted'
    <2>1. chunk.n <= captured[s]
      BY <1>2, <1>3, <1>4
    <2> QED BY <1>0, <1>4, <1>5, <1>8, <2>1, CountTaken
  <1>11. chunk \notin abandoned
    BY <1>0, <1>6 DEF DInv, Lost
  <1>12. archive \in Seq(Chunk) /\ \A i \in 1 .. Len(archive) : archive[i] \in Chunk
    BY DataTypes
  <1>13. \A i \in 1 .. Len(archive) : /\ InOrder(archive[i], chunk) /\ archive[i].n <= gone'[archive[i].stream]
                                      /\ archive[i] \notin abandoned
    BY <1>6, <1>12 DEF DInv, Kept
  <1>14. CASE archiving /\ archive' = Append(archive, chunk) /\ archiving' = archiving
    <2>1. /\ \A i \in 1 .. Len(archive') :
               \/ i \in 1 .. Len(archive) /\ archive'[i] = archive[i]
               \/ archive'[i] = chunk
          /\ \A i \in 1 .. Len(archive) : i \in 1 .. Len(archive') /\ archive'[i] = archive[i]
          /\ Len(archive) + 1 \in 1 .. Len(archive') /\ archive'[Len(archive) + 1] = chunk
      BY <1>0, <1>12, <1>14, AppendIs
    <2>2. Kept'
      <3>1. Ordered(archive')
        BY <1>0, <1>12, <1>13, <1>14, PutLast DEF DInv, Kept
      <3>2. chunk.n <= gone'[chunk.stream]
        BY <1>3, <1>4, <1>5
      <3> QED BY <1>11, <1>13, <2>1, <3>1, <3>2 DEF Kept
    <2>3. Whole'
      <3> SUFFICES ASSUME NEW c \in Chunk, c.n <= gone'[c.stream], c \notin abandoned
                   PROVE  \E i \in 1 .. Len(archive') : archive'[i] = c
        BY DEF Whole
      <3>1. CASE c = chunk
        BY <2>1, <3>1
      <3>2. CASE c.n <= gone[c.stream]
        <4>1. \E i \in 1 .. Len(archive) : archive[i] = c
          BY <1>14, <3>2 DEF DInv, Whole
        <4> QED BY <2>1, <4>1
      <3> QED BY <1>7, <3>1, <3>2
    <2> QED BY <1>8, <1>9, <1>10, <1>a, <1>b, <2>2, <2>3 DEF DInv
  <1>15. CASE ~archiving' /\ archive' = archive
    <2>1. Kept'
      BY <1>13, <1>15 DEF DInv, Kept
    <2>2. Whole'
      <3> SUFFICES ASSUME NEW c \in Chunk, c.n <= gone'[c.stream], c \notin abandoned
                   PROVE  \/ \E i \in 1 .. Len(archive) : archive[i] = c
                          \/ \A i \in 1 .. Len(archive) : InOrder(archive[i], c)
        BY <1>15 DEF Whole
      <3>1. CASE c = chunk
        BY <1>13, <3>1
      <3>2. CASE c.n <= gone[c.stream]
        BY <3>2 DEF DInv, Whole
      <3> QED BY <1>7, <3>1, <3>2
    <2> QED BY <1>8, <1>9, <1>10, <1>a, <1>b, <2>1, <2>2 DEF DInv
  <1> QED BY <1>14, <1>15, DataTypes DEF ArchiveChunk, archiveVars

\* A stream goes away with what is in its channel.
LEMMA Dropped ==
    ASSUME DInv, PInv', Front' >= Front, Front' \in Nat, NEW s \in Streams, s <= Front, DropReceiver(s),
           UNCHANGED <<captured, passed, archive, archiving, unheard, swapDrops>>
    PROVE  DInv'
  <1>0. upstream \in [Streams -> Seq(1 .. MaxChunks)] /\ s \in Nat
    BY Bounds DEF DInv, PInv, TypeOK
  <1>1. /\ upstream'[s] = <<>> /\ \A t \in Streams : t # s => upstream'[t] = upstream[t]
        /\ abandoned' = abandoned \union ChunksOf(s)
    BY <1>0 DEF DropReceiver
  <1>2. /\ \A t \in Streams : gone[t] \in Nat /\ captured[t] \in Nat
        /\ Len(upstream[s]) \in Nat /\ gone[s] = captured[s] - Len(upstream[s])
        /\ \A i \in 1 .. Len(upstream[s]) : upstream[s][i] = gone[s] + i
    BY DataTypes DEF DInv, Numbered
  <1>3. gone'[s] = captured[s] /\ \A t \in Streams : t # s => gone'[t] = gone[t]
    <2>1. gone'[s] = captured[s] - Len(<<>>)
      BY <1>1 DEF gone
    <2>2. \A t \in Streams : t # s => gone'[t] = gone[t]
      BY <1>1 DEF gone
    <2>3. Len(<<>>) = 0
      OBVIOUS
    <2> QED BY <1>2, <2>1, <2>2, <2>3
  <1>4. \A c \in Chunk : c \in ChunksOf(s) <=> c.stream = s /\ gone[s] < c.n /\ c.n <= captured[s]
    <2>1. ASSUME NEW c \in Chunk, c \in ChunksOf(s)
          PROVE  c.stream = s /\ gone[s] < c.n /\ c.n <= captured[s]
      <3>1. PICK i \in 1 .. Len(upstream[s]) : c = [stream |-> s, n |-> upstream[s][i]]
        BY <2>1 DEF ChunksOf
      <3>2. c.stream = s /\ c.n = gone[s] + i
        BY <1>2, <3>1
      <3> QED BY <1>2, <3>2
    <2>2. ASSUME NEW c \in Chunk, c.stream = s, gone[s] < c.n, c.n <= captured[s]
          PROVE  c \in ChunksOf(s)
      <3> DEFINE i == c.n - gone[s]
      <3>1. i \in 1 .. Len(upstream[s]) /\ gone[s] + i = c.n
        BY <1>2, <2>2, ChunkIs
      <3>2. upstream[s][i] = c.n
        BY <1>2, <3>1
      <3>3. c = [stream |-> s, n |-> upstream[s][i]]
        BY <2>2, <3>2 DEF Chunk
      <3> QED BY <3>1, <3>3 DEF ChunksOf
    <2> QED BY <2>1, <2>2
  <1>5. \A c \in Chunk : c.n <= gone[c.stream] => c.n <= gone'[c.stream] /\ c \notin ChunksOf(s)
    <2> SUFFICES ASSUME NEW c \in Chunk, c.n <= gone[c.stream]
                 PROVE  c.n <= gone'[c.stream] /\ c \notin ChunksOf(s)
      OBVIOUS
    <2>1. c.stream \in Streams /\ c.n \in Nat
      BY ChunkIs
    <2>2. CASE c.stream = s
      <3>1. gone[s] <= captured[s]
        BY <1>2
      <3> QED BY <1>2, <1>3, <1>4, <2>1, <2>2, <3>1
    <2>3. CASE c.stream # s
      BY <1>3, <1>4, <2>1, <2>3
    <2> QED BY <2>2, <2>3
  <1>6. \A c \in Chunk : c.n <= gone'[c.stream] /\ c \notin ChunksOf(s) => c.n <= gone[c.stream]
    <2> SUFFICES ASSUME NEW c \in Chunk, c.n <= gone'[c.stream], c \notin ChunksOf(s)
                 PROVE  c.n <= gone[c.stream]
      OBVIOUS
    <2>1. c.stream \in Streams /\ c.n \in Nat
      BY ChunkIs
    <2>2. CASE c.stream = s
      BY <1>2, <1>3, <1>4, <2>1, <2>2
    <2>3. CASE c.stream # s
      BY <1>3, <2>1, <2>3
    <2> QED BY <2>2, <2>3
  <1>7. Numbered'
    <2>1. \A t \in Streams : t > Front' => t > Front /\ t # s
      BY <1>0, Bounds, DataTypes
    <2>2. \A t \in Streams : t > Front' => gone'[t] = 0
      BY <1>3, <2>1 DEF DInv, Numbered
    <2>3. ASSUME NEW t \in Streams
          PROVE  /\ Len(upstream'[t]) <= captured'[t]
                 /\ \A i \in 1 .. Len(upstream'[t]) : upstream'[t][i] = gone'[t] + i
      <3>1. CASE t = s
        <4>1. Len(<<>>) = 0 /\ 1 .. 0 = {}
          OBVIOUS
        <4> QED BY <1>1, <1>2, <3>1, <4>1
      <3>2. CASE t # s
        BY <1>1, <1>3, <3>2 DEF DInv, Numbered
      <3> QED BY <3>1, <3>2
    <2> QED BY <2>2, <2>3 DEF Numbered
  <1>8. Heard'
    BY <1>5, DataTypes DEF DInv, Heard
  <1>9. Kept'
    BY <1>1, <1>5, DataTypes DEF DInv, Kept
  <1>10. Lost'
    <2> SUFFICES ASSUME NEW c \in abandoned' PROVE c.n <= gone'[c.stream]
      BY DEF Lost
    <2>0. c \in Chunk
      BY DEF PInv, TypeOK
    <2>1. CASE c \in abandoned
      BY <1>5, <2>0, <2>1 DEF DInv, Lost
    <2>2. CASE c \in ChunksOf(s)
      BY <1>3, <1>4, <2>0, <2>2
    <2> QED BY <1>1, <2>1, <2>2
  <1>11. Whole'
    BY <1>1, <1>6 DEF DInv, Whole
  <1>12. Spilt'
    BY <1>5, DataTypes DEF DInv, Spilt
  <1>13. Accounted'
    BY <1>3, <1>4, <1>7, CountDropped
  <1> QED BY <1>7, <1>8, <1>9, <1>10, <1>11, <1>12, <1>13 DEF DInv

LEMMA DataStep == DInv /\ [Next]_vars => DInv'
  <1> SUFFICES ASSUME DInv, [Next]_vars PROVE DInv'
    OBVIOUS
  <1>0. PInv' /\ TypeOK /\ Placed /\ TypeOK' /\ Placed'
    BY PlaceStep DEF DInv, PInv
  <1>00. Front \in Nat /\ Front' \in Nat
    BY <1>0, Bounds DEF Front, TypeOK, Placed
  <1>a. ASSUME UNCHANGED <<captured, upstream, passed, archive, archiving, abandoned, unheard, swapDrops>>, Front' = Front
        PROVE  DInv'
    BY <1>0, <1>00, <1>a, Quiet
  <1>b. ASSUME Stop, pc # "drain", UNCHANGED <<captured, passed, archive, archiving, opened, unheard, swapDrops>> PROVE DInv'
    <2>1. Front' = Front /\ Front = opened
      BY <1>b DEF Front, Stop
    <2>2. CASE current = None
      BY <1>a, <1>b, <2>1, <2>2 DEF Stop
    <2>3. CASE current # None
      <3>1. current \in Streams /\ current <= Front /\ DropReceiver(current)
        BY <1>0, <1>00, <1>b, <2>1, <2>3 DEF Stop, TypeOK, Placed
      <3> QED BY <1>0, <1>00, <1>b, <2>1, <3>1, Dropped
    <2> QED BY <2>2, <2>3
  <1>1. CASE UNCHANGED vars
    BY <1>1, <1>a DEF vars, deviceVars, swapVars, requestVars, archiveVars, outVars, Front
  <1>2. CASE Receive \/ Hangup
    BY <1>2, <1>a DEF Receive, Hangup, deviceVars, swapVars, requestVars, archiveVars, Front
  <1>3. CASE Outside
    <2>1. ASSUME NEW s \in Streams, Capture(s) PROVE DInv'
      <3>1. /\ captured' = [captured EXCEPT ![s] = captured[s] + 1]
            /\ upstream' = [upstream EXCEPT ![s] = Append(upstream[s], captured[s] + 1)]
            /\ UNCHANGED <<passed, archive, archiving, abandoned, unheard, swapDrops, pc, opened, retiring>>
        BY <2>1 DEF Capture, swapVars, requestVars, archiveVars, outVars
      <3>2. Front' = Front
        BY <3>1 DEF Front
      <3> QED BY <1>0, <3>1, <3>2, Captured
    <2>2. ASSUME NEW s \in Streams, CaptureEnds(s) PROVE DInv'
      BY <2>2, <1>a DEF CaptureEnds, swapVars, requestVars, archiveVars, outVars, Front
    <2>3. ASSUME NEW c \in Callers, HotSwap(c) PROVE DInv'
      BY <2>3, <1>a DEF HotSwap, deviceVars, swapVars, archiveVars, outVars, Front
    <2>4. CASE DropHandle
      BY <2>4, <1>a DEF DropHandle, deviceVars, swapVars, archiveVars, outVars, Front
    <2> QED BY <1>3, <2>1, <2>2, <2>3, <2>4 DEF Outside
  <1>4. CASE Router
    <2>1. CASE LoopHead
      <3>1. CASE listening
        BY <2>1, <3>1, <1>a DEF LoopHead, deviceVars, archiveVars, outVars, Front
      <3>2. CASE ~listening
        BY <2>1, <3>2, <1>b DEF LoopHead, deviceVars, archiveVars, outVars
      <3> QED BY <3>1, <3>2
    <2>2. CASE SwapCmd
      BY <2>2, <1>a DEF SwapCmd, deviceVars, archiveVars, outVars, Front
    <2>3. CASE PollChunk
      <3>1. /\ pc = "poll" /\ pc' = "head" /\ current # None /\ upstream[current] # <<>> /\ Forward(current)
            /\ UNCHANGED <<captured, opened, abandoned>>
        BY <2>3 DEF PollChunk, deviceVars, swapVars
      <3>2. Front' = Front /\ current = Front /\ current \in Streams
        BY <1>0, <3>1 DEF Front, Placed, TypeOK
      <3> QED BY <1>0, <3>1, <3>2, Taken DEF Forward, Pass, Sent
    <2>4. CASE UpstreamClosed
      BY <2>4, <1>a DEF UpstreamClosed, deviceVars, requestVars, archiveVars, outVars, Front
    <2>5. CASE Shutdown
      <3>1. CASE current # None
        BY <2>5, <3>1, <1>a DEF Shutdown, deviceVars, archiveVars, outVars, Front
      <3>2. CASE current = None
        BY <2>5, <3>2, <1>b DEF Shutdown, deviceVars, archiveVars, outVars
      <3> QED BY <3>1, <3>2
    <2>6. CASE OpenFails
      BY <2>6, <1>a DEF OpenFails, deviceVars, archiveVars, outVars, Front
    <2>7. CASE OpenSucceeds
      <3>1. /\ pc = "open" /\ opened' = opened + 1 /\ retiring' = current
            /\ UNCHANGED <<captured, upstream, passed, archive, archiving, abandoned, unheard, swapDrops>>
            /\ \/ pc' = "head"
               \/ pc' = "drain" /\ current # None
        BY <2>7 DEF OpenSucceeds, archiveVars, outVars
      <3>2. Front = opened /\ (pc' = "head" => Front' = opened + 1) /\ (pc' = "drain" => Front' = current)
        BY <3>1 DEF Front
      <3>3. Front' >= Front
        BY <1>0, <1>00, <3>1, <3>2 DEF Placed
      <3> QED BY <1>0, <1>00, <3>1, <3>3, Quiet
    <2>8. CASE DrainChunk
      <3>1. /\ pc = "drain" /\ pc' = pc /\ upstream[retiring] # <<>> /\ retiring' = retiring
            /\ UNCHANGED <<captured, opened, abandoned>>
        BY <2>8 DEF DrainChunk, deviceVars, swapVars
      <3>2. Front' = Front /\ retiring = Front /\ retiring \in Streams
        BY <1>0, <3>1 DEF Front, Placed
      <3> QED BY <1>0, <2>8, <3>1, <3>2, Taken DEF DrainChunk, Pass, Sent
    <2>9. CASE DrainEnds
      <3>1. /\ pc = "drain" /\ pc' = "head" /\ DropReceiver(retiring)
            /\ UNCHANGED <<captured, opened, passed, archive, archiving, unheard, swapDrops>>
        BY <2>9 DEF DrainEnds, deviceVars, archiveVars, outVars
      <3>2. Front = retiring /\ Front' = opened /\ retiring \in Streams /\ retiring < opened
        BY <1>0, <3>1 DEF Front, Placed
      <3>3. Front' >= Front /\ retiring <= Front
        BY <1>00, <3>2
      <3> QED BY <1>0, <1>00, <3>1, <3>2, <3>3, Dropped
    <2>10. CASE CloseChunk
      <3>1. /\ pc = "closing" /\ pc' # "drain" /\ upstream[current] # <<>> /\ Forward(current)
            /\ UNCHANGED <<captured, opened, abandoned>>
        BY <2>10 DEF CloseChunk, deviceVars, swapVars
      <3>2. Front' = Front /\ current = Front /\ current \in Streams
        BY <1>0, <3>1 DEF Front, Placed, TypeOK
      <3> QED BY <1>0, <3>1, <3>2, Taken DEF Forward, Pass, Sent
    <2>11. CASE CloseEnds
      BY <2>11, <1>a DEF CloseEnds, deviceVars, swapVars, requestVars, archiveVars, outVars, Front
    <2>12. CASE Ended
      BY <2>12, <1>b DEF Ended, deviceVars, archiveVars, outVars
    <2> QED BY <1>4, <2>1, <2>2, <2>3, <2>4, <2>5, <2>6, <2>7, <2>8, <2>9, <2>10, <2>11, <2>12 DEF Router
  <1> QED BY <1>1, <1>2, <1>3, <1>4 DEF Next

\* What the router does to the channel at its other end.
LEMMA Output ==
    ASSUME PInv, Router
    PROVE  /\ UNCHANGED <<captured, listening>> /\ pc # "stopped"
           /\ \/ UNCHANGED <<downstream, passed>>
              \/ pc' # "stopped" /\ HasRoom /\ \E chunk \in Chunk : Pass(chunk)
  <1>0. TypeOK /\ Placed
    BY DEF PInv
  <1>1. ASSUME NEW s \in Streams, upstream[s] # <<>>, Forward(s)
        PROVE  UNCHANGED <<downstream, passed>> \/ (HasRoom /\ \E chunk \in Chunk : Pass(chunk))
    BY <1>0, <1>1, TakenType DEF Forward
  <1>2. CASE LoopHead
    BY <1>2 DEF LoopHead, deviceVars, outVars
  <1>3. CASE SwapCmd
    BY <1>3 DEF SwapCmd, deviceVars, outVars
  <1>4. CASE PollChunk
    BY <1>0, <1>1, <1>4 DEF PollChunk, deviceVars, TypeOK
  <1>5. CASE UpstreamClosed
    BY <1>5 DEF UpstreamClosed, deviceVars, outVars
  <1>6. CASE Shutdown
    BY <1>6 DEF Shutdown, deviceVars, outVars
  <1>7. CASE OpenFails
    BY <1>7 DEF OpenFails, deviceVars, outVars
  <1>8. CASE OpenSucceeds
    BY <1>8 DEF OpenSucceeds, outVars
  <1>9. CASE DrainChunk
    <2>1. retiring \in Streams /\ upstream[retiring] # <<>>
      BY <1>0, <1>9 DEF DrainChunk, Placed
    <2> QED BY <1>0, <1>9, <2>1, TakenType DEF DrainChunk, deviceVars
  <1>10. CASE DrainEnds
    BY <1>10 DEF DrainEnds, deviceVars, outVars
  <1>11. CASE CloseChunk
    <2>1. current \in Streams /\ upstream[current] # <<>> /\ Forward(current) /\ pc' # "stopped"
      BY <1>0, <1>11 DEF CloseChunk, Placed, TypeOK
    <2> QED BY <1>1, <1>11, <2>1 DEF CloseChunk, deviceVars
  <1>12. CASE CloseEnds
    BY <1>12 DEF CloseEnds, deviceVars, outVars
  <1>13. CASE Ended
    BY <1>13 DEF Ended, deviceVars, outVars
  <1> QED BY <1>2, <1>3, <1>4, <1>5, <1>6, <1>7, <1>8, <1>9, <1>10, <1>11, <1>12, <1>13 DEF Router

\* For any number of devices and chunks: the pipeline hears each chunk at most once, in
\* the order of capture, and nothing of a device once it has heard the next.
THEOREM HeardInOrder == Spec => []FeedInOrder
  <1>1. DInv => FeedInOrder
    BY DEF DInv, Heard, FeedInOrder
  <1> QED BY <1>1, DataInit, DataStep, PTL DEF Spec

\* For any number of devices and chunks: the archive has every chunk the router took, in
\* order and across swaps, until it is given up.
THEOREM ArchivedWhole == Spec => []ArchiveHasNoHoles
  <1>1. DInv => ArchiveHasNoHoles
    <2> SUFFICES ASSUME DInv PROVE ArchiveHasNoHoles
      OBVIOUS
    <2> DEFINE taken == (AllChunks \ Waiting) \ abandoned
    <2>0. /\ \A s \in Streams : /\ gone[s] \in Nat /\ captured[s] \in Nat /\ Len(upstream[s]) \in Nat
                                /\ gone[s] = captured[s] - Len(upstream[s])
          /\ \A i \in 1 .. Len(archive) : archive[i] \in Chunk
      BY DataTypes
    <2>1. \A c : c \in AllChunks <=> c \in Chunk /\ c.n <= captured[c.stream]
      BY AllAre DEF DInv, PInv
    <2>2. \A c \in Chunk : c \in Waiting <=> gone[c.stream] < c.n /\ c.n <= captured[c.stream]
      BY WaitingAre DEF DInv
    <2>3. \A c : c \in taken <=> c \in Chunk /\ c.n <= gone[c.stream] /\ c \notin abandoned
      <3> SUFFICES ASSUME NEW c \in Chunk
                   PROVE  c.n <= captured[c.stream] /\ ~(gone[c.stream] < c.n /\ c.n <= captured[c.stream])
                            <=> c.n <= gone[c.stream]
        BY <2>1, <2>2
      <3>1. c.stream \in Streams /\ c.n \in Nat
        BY ChunkIs
      <3>2. /\ gone[c.stream] \in Nat /\ captured[c.stream] \in Nat /\ Len(upstream[c.stream]) \in Nat
            /\ gone[c.stream] = captured[c.stream] - Len(upstream[c.stream])
        BY <2>0, <3>1
      <3> QED BY <3>1, <3>2
    <2> HIDE DEF taken
    <2>4. Ordered(archive) /\ SetOf(archive) \subseteq taken
      BY <2>0, <2>3 DEF DInv, Kept, SetOf
    <2>5. \A chunk \in taken \ SetOf(archive) :
            ~archiving /\ \A kept \in SetOf(archive) : InOrder(kept, chunk)
      BY <2>3 DEF DInv, Whole, SetOf
    <2> QED BY <2>4, <2>5 DEF ArchiveHasNoHoles, taken
  <1> QED BY <1>1, DataInit, DataStep, PTL DEF Spec
=============================================================================
