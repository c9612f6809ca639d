--------------------------- MODULE CaptureRouter ---------------------------
(***************************************************************************)
(* The task of src/src/audio/router.rs that stands between the capture     *)
(* device and the pipeline and lets the device be changed while the        *)
(* pipeline runs.                                                          *)
(*                                                                         *)
(* Each device that is opened is a stream with a channel of its own, into  *)
(* which a capture thread sends and waits when the channel is full.  The   *)
(* router writes every chunk to the audio archive and tries to send it     *)
(* downstream, without waiting.  A swap opens the new device first, then   *)
(* drains the channel of the old one for at most DRAIN_TIMEOUT_MS, while   *)
(* both devices capture.  RouterState is written by the task and read by   *)
(* nothing, and is left out.                                               *)
(***************************************************************************)
EXTENDS Integers, Sequences, FiniteSets

CONSTANTS Callers,         \* threads that ask for a swap: the watcher and the settings
          NoCaller,        \* no request in hand
          UpstreamCap,     \* CHANNEL_CAPACITY of a capture stream
          DownstreamCap,   \* ROUTER_CHANNEL_CAPACITY
          ArchiveMayFail,  \* append_chunk may return an error
          MaxStreams,      \* BOUND: devices opened
          MaxChunks        \* BOUND: chunks captured by one device

None == 0

RouterConstants ==
  /\ UpstreamCap \in Nat \ {0} /\ DownstreamCap \in Nat \ {0}
  /\ MaxStreams \in Nat \ {0} /\ MaxChunks \in Nat
  /\ ArchiveMayFail \in BOOLEAN
  /\ NoCaller \notin Callers
  /\ Cardinality(Callers) <= 4   \* the command channel holds 4: nobody waits for it

ASSUME CaptureRouterAssumption == RouterConstants

Streams == 1 .. MaxStreams
Chunk == [stream : Streams, n : 1 .. MaxChunks]

VARIABLES
  live,        \* the capture threads that run
  captured,    \* how many chunks each stream's thread has sent
  upstream,    \* what waits in each stream's channel
  opened,      \* number of streams opened so far; the newest has this number
  current,     \* the stream forwarded from
  retiring,    \* the stream being drained
  commands, serving, answers,   \* swap requests: in the channel, in hand, their replies
  held,        \* some CaptureRouterHandle exists
  archiving, archive,
  downstream, listening,        \* the channel to the pipeline; its receiver exists
  swapDrops, swapCount,         \* RouterMetrics
  pc,
  passed, unheard, abandoned    \* history: sent downstream; dropped by forward_chunk;
                                \* left in a channel whose receiver was dropped

deviceVars == <<live, captured>>
swapVars == <<opened, current, retiring, serving>>
requestVars == <<commands, answers, held>>
archiveVars == <<archiving, archive>>
outVars == <<downstream, swapDrops, passed, unheard>>
vars == <<deviceVars, upstream, swapVars, requestVars, archiveVars, outVars, swapCount,
          listening, pc, abandoned>>

ChunksOf(s) == {[stream |-> s, n |-> upstream[s][i]] : i \in 1 .. Len(upstream[s])}

Init ==
  /\ live = {1} /\ captured = [s \in Streams |-> 0]
  /\ upstream = [s \in Streams |-> <<>>]
  /\ opened = 1 /\ current = 1 /\ retiring = None
  /\ commands = <<>> /\ serving = NoCaller /\ answers = [c \in Callers |-> "none"]
  /\ held = TRUE
  /\ archiving \in BOOLEAN /\ archive = <<>>
  /\ downstream = <<>> /\ listening = TRUE
  /\ swapDrops = 0 /\ swapCount = 0
  /\ pc = "head"
  /\ passed = <<>> /\ unheard = {} /\ abandoned = {}

-----------------------------------------------------------------------------
(* Capture threads.                                                        *)

\* The streams whose receiver the router holds.
Attached == ({current, retiring} \union (IF pc = "drain" THEN {opened} ELSE {})) \ {None}

\* blocking_send: waits for room.
Capture(s) ==
  /\ s \in live /\ s \in Attached /\ pc # "stopped"
  /\ captured[s] < MaxChunks
  /\ Len(upstream[s]) < UpstreamCap
  /\ captured' = [captured EXCEPT ![s] = @ + 1]
  /\ upstream' = [upstream EXCEPT ![s] = Append(@, captured[s] + 1)]
  /\ UNCHANGED <<live, swapVars, requestVars, archiveVars, outVars, swapCount, listening, pc,
                 abandoned>>

\* The device fails, or the thread sees that its receiver is gone.
CaptureEnds(s) ==
  /\ s \in live
  /\ live' = live \ {s}
  /\ UNCHANGED <<captured, upstream, swapVars, requestVars, archiveVars, outVars, swapCount,
                 listening, pc, abandoned>>

-----------------------------------------------------------------------------
(* Requests.                                                               *)

\* CaptureRouterHandle::hot_swap.
HotSwap(c) ==
  /\ held /\ answers[c] # "waiting"
  /\ IF pc = "stopped"
     THEN answers' = [answers EXCEPT ![c] = "err"] /\ commands' = commands
     ELSE /\ answers' = [answers EXCEPT ![c] = "waiting"]
          /\ commands' = Append(commands, c)
  /\ UNCHANGED <<deviceVars, upstream, swapVars, held, archiveVars, outVars, swapCount,
                 listening, pc, abandoned>>

\* The last handle is dropped.  (main keeps one in a static; tests drop it.)
DropHandle ==
  /\ held /\ \A c \in Callers : answers[c] # "waiting"
  /\ held' = FALSE
  /\ UNCHANGED <<deviceVars, upstream, swapVars, commands, answers, archiveVars, outVars,
                 swapCount, listening, pc, abandoned>>

-----------------------------------------------------------------------------
(* The router task.                                                        *)

\* append_chunk; after an error the archive is disabled.
ArchiveChunk(chunk) ==
  \/ archiving /\ archive' = Append(archive, chunk) /\ archiving' = archiving
  \/ archiving /\ ArchiveMayFail /\ archiving' = FALSE /\ archive' = archive
  \/ ~archiving /\ UNCHANGED archiveVars

HasRoom == listening /\ Len(downstream) < DownstreamCap

\* MUTANT of Pass: what waits downstream is overtaken.
PassInFront(chunk) ==
  /\ downstream' = <<chunk>> \o downstream
  /\ passed' = SubSeq(passed, 1, Len(passed) - Len(downstream)) \o downstream'

\* try_send, when there is room.
Pass(chunk) ==
  /\ downstream' = Append(downstream, chunk)
  /\ passed' = Append(passed, chunk)

\* forward_chunk of the next chunk of stream s.
Forward(s) ==
  LET chunk == [stream |-> s, n |-> Head(upstream[s])]
  IN  /\ upstream' = [upstream EXCEPT ![s] = Tail(@)]
      /\ ArchiveChunk(chunk)
      /\ IF HasRoom THEN Pass(chunk) /\ UNCHANGED unheard
                    ELSE unheard' = unheard \union {chunk} /\ UNCHANGED <<downstream, passed>>
      /\ UNCHANGED swapDrops

\* A receiver goes away with what is in its channel.
DropReceiver(s) ==
  /\ upstream' = [upstream EXCEPT ![s] = <<>>]
  /\ abandoned' = abandoned \union ChunksOf(s)

\* The task ends: its receivers are dropped, and requests get no answer but an error.
Stop ==
  /\ pc' = "stopped"
  /\ IF current = None THEN UNCHANGED <<upstream, abandoned>> ELSE DropReceiver(current)
  /\ current' = None
  /\ commands' = <<>>
  /\ answers' = [c \in Callers |-> IF answers[c] = "waiting" THEN "err" ELSE answers[c]]

\* The head of the loop looks whether the pipeline is still there.
LoopHead ==
  /\ pc = "head"
  /\ IF listening THEN pc' = "poll" /\ UNCHANGED <<upstream, abandoned, current, commands, answers>>
                  ELSE Stop
  /\ UNCHANGED <<deviceVars, opened, retiring, serving, held, archiveVars, outVars, swapCount,
                 listening>>

\* poll_action, with a request: it comes before audio.
SwapCmd ==
  /\ pc = "poll" /\ commands # <<>>
  /\ serving' = Head(commands) /\ commands' = Tail(commands)
  /\ pc' = "open"
  /\ UNCHANGED <<deviceVars, upstream, opened, current, retiring, answers, held, archiveVars,
                 outVars, swapCount, listening, abandoned>>

\* poll_action, with a chunk.
PollChunk ==
  /\ pc = "poll" /\ commands = <<>> /\ held /\ current # None
  /\ upstream[current] # <<>>
  /\ Forward(current)
  /\ pc' = "head"
  /\ UNCHANGED <<deviceVars, swapVars, requestVars, swapCount, listening, abandoned>>

\* poll_action, with a stream that has ended.
UpstreamClosed ==
  /\ pc = "poll" /\ commands = <<>> /\ held /\ current # None
  /\ upstream[current] = <<>> /\ current \notin live
  /\ current' = None
  /\ pc' = "head"
  /\ UNCHANGED <<deviceVars, upstream, opened, retiring, serving, requestVars, archiveVars,
                 outVars, swapCount, listening, abandoned>>

\* poll_action, when no handle is left.
Shutdown ==
  /\ pc = "poll" /\ commands = <<>> /\ ~held
  /\ IF current # None THEN pc' = "closing" /\ UNCHANGED <<upstream, abandoned, current, commands, answers>>
                       ELSE Stop
  /\ UNCHANGED <<deviceVars, opened, retiring, serving, held, archiveVars, outVars, swapCount,
                 listening>>

Answer(reply) ==
  /\ answers' = [answers EXCEPT ![serving] = reply]
  /\ serving' = NoCaller

\* MUTANT of OpenFails: the old stream is given up first.
OpenFailsDetached ==
  /\ pc = "open"
  /\ Answer("err")
  /\ current' = None
  /\ IF current = None THEN UNCHANGED <<upstream, abandoned>> ELSE DropReceiver(current)
  /\ pc' = "head"
  /\ UNCHANGED <<deviceVars, opened, retiring, commands, held, archiveVars,
                 outVars, swapCount, listening>>

\* The new device cannot be opened.
OpenFails ==
  /\ pc = "open"
  /\ Answer("err")
  /\ pc' = "head"
  /\ UNCHANGED <<deviceVars, upstream, opened, current, retiring, commands, held, archiveVars,
                 outVars, swapCount, listening, abandoned>>

\* The new device is open.  With no old one to drain it is installed at once.
OpenSucceeds ==
  /\ pc = "open" /\ opened < MaxStreams
  /\ opened' = opened + 1
  /\ live' = live \union {opened + 1}
  /\ retiring' = current
  /\ IF current = None
     THEN /\ current' = opened + 1 /\ swapCount' = swapCount + 1
          /\ Answer("ok")
          /\ pc' = "head"
     ELSE current' = None /\ pc' = "drain" /\ UNCHANGED <<swapCount, answers, serving>>
  /\ UNCHANGED <<captured, upstream, commands, held, archiveVars, outVars, listening, abandoned>>

\* MUTANT of DrainChunk: the archive does not get what is drained.
DrainChunkUnarchived ==
  /\ pc = "drain" /\ upstream[retiring] # <<>>
  /\ LET chunk == [stream |-> retiring, n |-> Head(upstream[retiring])]
     IN  /\ upstream' = [upstream EXCEPT ![retiring] = Tail(@)]
         /\ IF HasRoom THEN Pass(chunk) /\ UNCHANGED swapDrops
                       ELSE swapDrops' = swapDrops + 1 /\ UNCHANGED <<downstream, passed>>
  /\ UNCHANGED <<deviceVars, swapVars, requestVars, archiveVars, swapCount, listening, pc,
                 unheard, abandoned>>

\* MUTANT of DrainChunk: chunks of the new stream may come in between.
DrainChunkOfEither ==
  /\ pc = "drain"
  /\ \E s \in {retiring, opened} : upstream[s] # <<>> /\ Forward(s)
  /\ UNCHANGED <<deviceVars, swapVars, requestVars, swapCount, listening, pc, abandoned>>

\* drain_old: one chunk of the old stream.
DrainChunk ==
  /\ pc = "drain" /\ upstream[retiring] # <<>>
  /\ LET chunk == [stream |-> retiring, n |-> Head(upstream[retiring])]
     IN  /\ upstream' = [upstream EXCEPT ![retiring] = Tail(@)]
         /\ ArchiveChunk(chunk)
         /\ IF HasRoom THEN Pass(chunk) /\ UNCHANGED swapDrops
                       ELSE swapDrops' = swapDrops + 1 /\ UNCHANGED <<downstream, passed>>
  /\ UNCHANGED <<deviceVars, swapVars, requestVars, swapCount, listening, pc, unheard,
                 abandoned>>

\* MUTANT of DrainEnds: no deadline, only the end of the old stream.
DrainEndsDisconnected ==
  /\ pc = "drain" /\ upstream[retiring] = <<>> /\ retiring \notin live
  /\ retiring' = None /\ current' = opened
  /\ swapCount' = swapCount + 1
  /\ Answer("ok")
  /\ pc' = "head"
  /\ UNCHANGED <<deviceVars, upstream, opened, commands, held, archiveVars, outVars, listening,
                 abandoned>>

\* The old stream has ended, or DRAIN_TIMEOUT_MS have passed: it is dropped
\* with what is left in its channel, and the new one is installed.
DrainEnds ==
  /\ pc = "drain"
  /\ DropReceiver(retiring)
  /\ retiring' = None /\ current' = opened
  /\ swapCount' = swapCount + 1
  /\ Answer("ok")
  /\ pc' = "head"
  /\ UNCHANGED <<deviceVars, opened, commands, held, archiveVars, outVars, listening>>

\* After Shutdown: forward until the stream ends or the pipeline is gone.
CloseChunk ==
  /\ pc = "closing" /\ upstream[current] # <<>>
  /\ Forward(current)
  /\ pc' = IF listening THEN "closing" ELSE "ended"
  /\ UNCHANGED <<deviceVars, swapVars, requestVars, swapCount, listening, abandoned>>

CloseEnds ==
  /\ pc = "closing" /\ upstream[current] = <<>> /\ current \notin live
  /\ pc' = "ended"
  /\ UNCHANGED <<deviceVars, upstream, swapVars, requestVars, archiveVars, outVars, swapCount,
                 listening, abandoned>>

Ended ==
  /\ pc = "ended"
  /\ Stop
  /\ UNCHANGED <<deviceVars, opened, retiring, serving, held, archiveVars, outVars, swapCount,
                 listening>>

Router ==
  \/ LoopHead \/ SwapCmd \/ PollChunk \/ UpstreamClosed \/ Shutdown
  \/ OpenFails \/ OpenSucceeds \/ DrainChunk \/ DrainEnds
  \/ CloseChunk \/ CloseEnds \/ Ended

-----------------------------------------------------------------------------
(* The other end of the downstream channel.                                *)

Receive ==
  /\ listening /\ downstream # <<>>
  /\ downstream' = Tail(downstream)
  /\ UNCHANGED <<deviceVars, upstream, swapVars, requestVars, archiveVars, swapDrops, passed,
                 unheard, swapCount, listening, pc, abandoned>>

Hangup ==
  /\ listening
  /\ listening' = FALSE /\ downstream' = <<>>
  /\ UNCHANGED <<deviceVars, upstream, swapVars, requestVars, archiveVars, swapDrops, passed,
                 unheard, swapCount, pc, abandoned>>

Outside ==
  \/ \E s \in Streams : Capture(s) \/ CaptureEnds(s)
  \/ \E c \in Callers : HotSwap(c)
  \/ DropHandle

Next == Router \/ Outside \/ Receive \/ Hangup

Spec == Init /\ [][Next]_vars

\* tokio runs the task when it can go on.  Opening a device ends, one way or
\* the other, and so does the deadline of the drain.
FairSpec == Spec /\ WF_vars(Router) /\ WF_vars(DrainEnds)

-----------------------------------------------------------------------------
(* Properties.                                                             *)

Places == {"head", "poll", "open", "drain", "closing", "ended", "stopped"}
Chunks(s) == [stream : {s}, n : 1 .. captured[s]]
AllChunks == UNION {Chunks(s) : s \in Streams}
Waiting == UNION {ChunksOf(s) : s \in Streams}
InOrder(a, b) == a.stream < b.stream \/ (a.stream = b.stream /\ a.n < b.n)
Ordered(chunks) == \A i, j \in 1 .. Len(chunks) : i < j => InOrder(chunks[i], chunks[j])
SetOf(chunks) == {chunks[i] : i \in 1 .. Len(chunks)}

\* Types, and what the place of the task says of the streams and the request it
\* has in hand (the locals of run_router).
TypeOK ==
  /\ live \subseteq Streams /\ captured \in [Streams -> 0 .. MaxChunks]
  /\ upstream \in [Streams -> Seq(1 .. MaxChunks)]
  /\ opened \in Streams /\ {current, retiring} \subseteq Streams \union {None}
  /\ commands \in Seq(Callers) /\ serving \in Callers \union {NoCaller}
  /\ answers \in [Callers -> {"none", "waiting", "ok", "err"}] /\ held \in BOOLEAN
  /\ archiving \in BOOLEAN /\ archive \in Seq(Chunk)
  /\ downstream \in Seq(Chunk) /\ listening \in BOOLEAN
  /\ swapDrops \in Nat /\ swapCount \in 0 .. opened - 1
  /\ pc \in Places
  /\ passed \in Seq(Chunk) /\ unheard \subseteq Chunk /\ abandoned \subseteq Chunk
  /\ (pc = "drain") = (retiring # None)
  /\ (pc \in {"open", "drain"}) = (serving # NoCaller)

\* However often the device is changed, and while two devices capture, the
\* pipeline hears each chunk at most once, in the order of capture, and nothing
\* of a device once it has heard the next (drain_old, router.rs:434).
FeedInOrder == Ordered(passed)

\* The archive has every chunk the router ever took, those the pipeline had no
\* room for too, in order and across swaps, until it is disabled; then it ends
\* without a hole (router.rs:27, "remains attached throughout").
ArchiveHasNoHoles ==
  LET taken == (AllChunks \ Waiting) \ abandoned
  IN  /\ Ordered(archive)
      /\ SetOf(archive) \subseteq taken
      /\ \A chunk \in taken \ SetOf(archive) :
           ~archiving /\ \A kept \in SetOf(archive) : InOrder(kept, chunk)

\* A swap that fails leaves the old stream in place (router.rs:21): between two
\* requests the router forwards from the device opened last, and has none only
\* when that one has ended.
NewestStreamIsCurrent ==
  pc \in {"head", "poll", "open"} =>
    current = opened \/ (current = None /\ opened \notin live)

\* Every hot_swap gets an answer, also while the old device keeps capturing, the
\* pipeline does not take its chunks, or the task ends with the request queued.
SwapIsAnswered == \A c \in Callers : answers[c] = "waiting" ~> answers[c] # "waiting"
=============================================================================
