-------------------------- MODULE SessionRecorder --------------------------
(***************************************************************************)
(* The recorder of the transcript: the handle the pipeline owns            *)
(* (src/src/session/recorder.rs) and the writer task behind its queue      *)
(* (src/src/session/recorder_writer.rs).                                   *)
(*                                                                         *)
(* A session is a directory of numbered files.  Each file is a sequence of *)
(* lines: a header, a segment (its number), or a line torn by a failed     *)
(* write.  The writer starts the next file when a line would pass the byte *)
(* cap, and another session when it is asked to (seal_and_reopen, which    *)
(* holds the handle exclusively, so nothing is recorded meanwhile).  Every *)
(* disk operation can fail.  What is on disk at any moment is what a crash *)
(* of the program would leave.                                             *)
(***************************************************************************)
EXTENDS Integers, Sequences

CONSTANTS QueueCap,      \* RECORDER_QUEUE_CAPACITY
          Sizes,         \* lengths of a segment's line
          HeaderSize,
          Cap,           \* per_session_bytes_cap, 0 for none
          MaxSessions,   \* BOUND: session directories
          MaxSegments    \* BOUND: segments given to the recorder

ASSUME SessionRecorderAssumption ==
  /\ QueueCap \in Nat \ {0}
  /\ Sizes \subseteq Nat \ {0} /\ HeaderSize \in Nat \ {0}
  /\ Cap \in Nat
  /\ MaxSessions \in Nat \ {0} /\ MaxSegments \in Nat

Ids == 1 .. MaxSegments
Header == 0
Torn == MaxSegments + 1
Sessions == 1 .. MaxSessions
Segment == [id : Ids, size : Sizes]
Seals == [dir : Sessions]

VARIABLES
  disk,        \* per session, its files: the lines, and the bytes of the writes
               \* that succeeded
  dir,         \* session_dir of the writer: its open file is the last of that session
  segBytes,    \* current_segment_bytes
  bytes,       \* bytes_written
  lastError,   \* last_error is set
  queue,       \* messages: segments and requests to seal
  pc, item,    \* where the writer is, and the message in hand
  session,     \* session_dir of the handle
  caller,      \* what the owner of the handle is doing
  arg,         \* the segment or session of its call
  next,        \* number of the next segment
  accepted,    \* history: segments for which record_segment said Ok
  homes        \* history: the session of each segment given to the recorder

writerVars == <<dir, segBytes, bytes, item>>
handleVars == <<session, arg, next, homes>>
vars == <<disk, writerVars, lastError, queue, pc, caller, accepted, handleVars>>

Empty == [lines |-> <<>>, size |-> 0]
HeaderOnly == [lines |-> <<Header>>, size |-> HeaderSize]
NoItem == <<>>

\* SessionRecorder::start has written the header.
Init ==
  /\ disk = [d \in Sessions |-> IF d = 1 THEN <<HeaderOnly>> ELSE <<>>]
  /\ dir = 1 /\ segBytes = HeaderSize /\ bytes = HeaderSize
  /\ lastError = FALSE
  /\ queue = <<>> /\ pc = "recv" /\ item = NoItem
  /\ session = 1 /\ caller = "idle" /\ arg = NoItem
  /\ next = 1 /\ accepted = <<>> /\ homes = <<>>

-----------------------------------------------------------------------------
(* The handle.                                                             *)

\* record_segment: first the error is looked at ...
Record(size) ==
  /\ caller = "idle" /\ next <= MaxSegments
  /\ arg' = [id |-> next, size |-> size]
  /\ next' = next + 1
  /\ homes' = Append(homes, session)
  /\ caller' = IF lastError THEN "idle" ELSE "try_send"
  /\ UNCHANGED <<disk, writerVars, lastError, queue, pc, accepted, session>>

\* ... then the segment is queued, if there is room and the writer has not ended.
TrySend ==
  /\ caller = "try_send"
  /\ IF pc # "done" /\ Len(queue) < QueueCap
     THEN queue' = Append(queue, arg) /\ accepted' = Append(accepted, arg.id)
     ELSE UNCHANGED <<queue, accepted>>
  /\ caller' = "idle"
  /\ UNCHANGED <<disk, writerVars, lastError, pc, handleVars>>

\* MUTANT of Seal: the handle takes over the session before the answer.
SealEagerly(d) ==
  /\ caller = "idle"
  /\ caller' = "send" /\ arg' = [dir |-> d] /\ session' = d
  /\ UNCHANGED <<disk, writerVars, lastError, queue, pc, accepted, next, homes>>

\* seal_and_reopen: sends the request, waiting for room ...
Seal(d) ==
  /\ caller = "idle"
  /\ caller' = "send" /\ arg' = [dir |-> d]
  /\ UNCHANGED <<disk, writerVars, lastError, queue, pc, accepted, session, next, homes>>

SendSeal ==
  /\ caller = "send"
  /\ IF pc = "done" THEN caller' = "idle" /\ queue' = queue
     ELSE Len(queue) < QueueCap /\ queue' = Append(queue, arg) /\ caller' = "sealing"
  /\ UNCHANGED <<disk, writerVars, lastError, pc, accepted, handleVars>>

\* ... and takes over the new session, or not, when it is answered.
Sealed ==
  /\ caller = "sealed"
  /\ session' = arg.dir
  /\ caller' = "idle"
  /\ UNCHANGED <<disk, writerVars, lastError, queue, pc, accepted, arg, next, homes>>

\* The writer has ended without an answer.
SealUnanswered ==
  /\ caller = "sealing" /\ pc = "done"
  /\ caller' = "idle"
  /\ UNCHANGED <<disk, writerVars, lastError, queue, pc, accepted, handleVars>>

\* shutdown drops the sender and awaits the writer.
Shutdown ==
  /\ caller = "idle"
  /\ caller' = "closing"
  /\ UNCHANGED <<disk, writerVars, lastError, queue, pc, accepted, handleVars>>

Closed ==
  /\ caller = "closing" /\ pc = "done"
  /\ caller' = IF lastError THEN "failed" ELSE "closed"
  /\ UNCHANGED <<disk, writerVars, lastError, queue, pc, accepted, handleVars>>

-----------------------------------------------------------------------------
(* The writer.                                                             *)

\* MUTANT of NeedsNextFile: the file that would pass the cap gets the line.
NeedsNextFileLate == Cap > 0 /\ segBytes > Cap

NeedsNextFile == Cap > 0 /\ segBytes > 0 /\ segBytes + item.size > Cap

Recv ==
  /\ pc = "recv" /\ queue # <<>>
  /\ item' = Head(queue) /\ queue' = Tail(queue)
  /\ pc' = IF Head(queue) \in Seals THEN "seal" ELSE "record"
  /\ UNCHANGED <<disk, dir, segBytes, bytes, lastError, caller, accepted, handleVars>>

\* MUTANT of RecvEnd: the writer leaves when the handle is gone.
RecvEndAtOnce ==
  /\ pc = "recv" /\ caller = "closing"
  /\ pc' = "flush"
  /\ UNCHANGED <<disk, writerVars, lastError, queue, caller, accepted, handleVars>>

\* MUTANT of RecvEnd: shutdown awaits the writer before it drops the sender.
RecvEndAfterShutdown ==
  /\ pc = "recv" /\ queue = <<>> /\ caller \in {"closed", "failed"}
  /\ pc' = "flush"
  /\ UNCHANGED <<disk, writerVars, lastError, queue, caller, accepted, handleVars>>

\* The handle is gone and the queue is empty.
RecvEnd ==
  /\ pc = "recv" /\ queue = <<>> /\ caller = "closing"
  /\ pc' = "flush"
  /\ UNCHANGED <<disk, writerVars, lastError, queue, caller, accepted, handleVars>>

\* The writer gives up: what is queued will not be written.
GiveUp == lastError' = TRUE /\ pc' = "flush"

\* The next file of the session, if it can be made.
Rotate ==
  /\ pc = "record" /\ NeedsNextFile
  /\ \/ /\ disk' = [disk EXCEPT ![dir] = Append(@, Empty)]
        /\ segBytes' = 0
        /\ pc' = "write"
        /\ UNCHANGED lastError
     \/ GiveUp /\ UNCHANGED <<disk, segBytes>>
  /\ UNCHANGED <<dir, bytes, item, queue, caller, accepted, handleVars>>

\* The lines of the last file of a session, with one more.
WithLine(files, line, size) ==
  [files EXCEPT ![Len(files)] = [lines |-> Append(@.lines, line), size |-> @.size + size]]

\* One line, or a failure (of the write, or of the flush after it) that may
\* leave a part of it or all of it.
Write ==
  /\ pc \in {"record", "write"} /\ (pc = "record" => ~NeedsNextFile)
  /\ \/ /\ disk' = [disk EXCEPT ![dir] = WithLine(@, item.id, item.size)]
        /\ segBytes' = segBytes + item.size /\ bytes' = bytes + item.size
        /\ pc' = "recv"
        /\ UNCHANGED lastError
     \/ /\ \/ UNCHANGED disk
           \/ \E line \in {Torn, item.id} :
                disk' = [disk EXCEPT ![dir] = WithLine(@, line, 0)]
        /\ GiveUp
        /\ UNCHANGED <<segBytes, bytes>>
  /\ item' = NoItem
  /\ UNCHANGED <<dir, queue, caller, accepted, handleVars>>

\* MUTANT of SealOpens: the new file is in use before its header is written.
SealOpensEarly ==
  /\ pc = "seal" /\ disk[item.dir] = <<>>
  /\ \/ /\ disk' = [disk EXCEPT ![item.dir] = <<HeaderOnly>>]
        /\ segBytes' = HeaderSize
        /\ caller' = "sealed"
     \/ /\ disk' = [disk EXCEPT ![item.dir] = <<[Empty EXCEPT !.lines = <<Torn>>]>>]
        /\ segBytes' = 0
        /\ caller' = "idle"
  /\ dir' = item.dir
  /\ pc' = "recv" /\ item' = NoItem
  /\ UNCHANGED <<bytes, lastError, queue, accepted, handleVars>>

\* A new session: its first file is made and gets the header.  If the header
\* cannot be written the old file stays in use.
SealOpens ==
  /\ pc = "seal" /\ disk[item.dir] = <<>>
  /\ \/ /\ disk' = [disk EXCEPT ![item.dir] = <<HeaderOnly>>]
        /\ dir' = item.dir /\ segBytes' = HeaderSize
        /\ caller' = "sealed"
     \/ /\ \E lines \in {<<>>, <<Torn>>, <<Header>>} :
             disk' = [disk EXCEPT ![item.dir] = <<[Empty EXCEPT !.lines = lines]>>]
        /\ UNCHANGED <<dir, segBytes>>
        /\ caller' = "idle"
  /\ pc' = "recv" /\ item' = NoItem
  /\ UNCHANGED <<bytes, lastError, queue, accepted, handleVars>>

\* The flush or the directory fails, or the session's first file exists already.
SealFails ==
  /\ pc = "seal"
  /\ caller' = "idle"
  /\ pc' = "recv" /\ item' = NoItem
  /\ UNCHANGED <<disk, dir, segBytes, bytes, lastError, queue, accepted, handleVars>>

\* After the loop: a last flush.  The queue is dropped with the receiver.
Flush ==
  /\ pc = "flush"
  /\ lastError' \in {lastError, TRUE}
  /\ pc' = "done" /\ queue' = <<>> /\ item' = NoItem
  /\ UNCHANGED <<disk, dir, segBytes, bytes, caller, accepted, handleVars>>

Writer ==
  Recv \/ RecvEnd \/ Rotate \/ Write \/ SealOpens \/ SealFails \/ Flush

Calling == TrySend \/ SendSeal \/ Sealed \/ SealUnanswered \/ Closed

Next ==
  \/ Writer \/ Calling \/ Shutdown
  \/ \E size \in Sizes : Record(size)
  \/ \E d \in Sessions : Seal(d)

Spec == Init /\ [][Next]_vars

\* Disk operations end, one way or the other, and tokio runs what can go on.
FairSpec == Spec /\ WF_vars(Writer) /\ WF_vars(Calling)

-----------------------------------------------------------------------------
(* Properties.                                                             *)

Callers == {"idle", "try_send", "send", "sealing", "sealed", "closing", "closed", "failed"}
Places == {"recv", "seal", "record", "write", "flush", "done"}

TypeOK ==
  /\ disk \in [Sessions -> Seq([lines : Seq(Ids \union {Header, Torn}), size : Nat])]
  /\ dir \in Sessions /\ session \in Sessions
  /\ segBytes \in Nat /\ bytes \in Nat /\ lastError \in BOOLEAN
  /\ queue \in Seq(Segment \union Seals) /\ Len(queue) <= QueueCap
  /\ pc \in Places /\ item \in {NoItem} \union Segment \union Seals
  /\ caller \in Callers /\ arg \in {NoItem} \union Segment \union Seals
  /\ next \in 1 .. MaxSegments + 1
  /\ accepted \in Seq(Ids) /\ homes \in Seq(Sessions)

Lines(d, k) == disk[d][k].lines
Written ==
  {id \in Ids :
     \E d \in Sessions : \E k \in 1 .. Len(disk[d]) : \E i \in 1 .. Len(Lines(d, k)) :
       Lines(d, k)[i] = id}
Messages == {queue[i] : i \in 1 .. Len(queue)} \union {item}
Pending == {message.id : message \in Messages \intersect Segment}
Accepted == {accepted[i] : i \in 1 .. Len(accepted)}

\* A segment for which record_segment said Ok is in the transcript or will be,
\* or the recorder has an error to report, at the next segment and at the end
\* (WriterStopped): only segments that were refused with QueueFull, or before
\* an error, are missing without one.  A shutdown that says Ok has lost nothing.
LossIsReported ==
  /\ Written \subseteq Accepted
  /\ ~lastError => Accepted = Written \union Pending
  /\ caller = "closed" => Accepted = Written

\* Whatever fails and however sessions are exchanged, each session holds its
\* segments in the order they were given, and a segment is in the session that
\* was the handle's when it was given (recorder.rs:312-316).
SegmentsInTheirSession ==
  \A d \in Sessions : \A k, l \in 1 .. Len(disk[d]) :
    \A i \in 1 .. Len(Lines(d, k)), j \in 1 .. Len(Lines(d, l)) :
      LET line == Lines(d, k)[i]
          other == Lines(d, l)[j]
      IN  /\ line \in Ids => homes[line] = d
          /\ {line, other} \subseteq Ids /\ (k < l \/ (k = l /\ i < j)) => line < other

\* Files can be read up to their last line: a torn line is the last of its
\* session, and nothing is added to it by a later segment or file; a session in
\* use starts with its header (recorder.rs:304).
OnlyTheLastLineIsTorn ==
  /\ \A d \in Sessions : \A k \in 1 .. Len(disk[d]) : \A i \in 1 .. Len(Lines(d, k)) :
       Lines(d, k)[i] = Torn => k = Len(disk[d]) /\ i = Len(Lines(d, k))
  /\ disk[dir] # <<>> /\ Lines(dir, 1) # <<>> /\ Lines(dir, 1)[1] = Header

\* A file passes the cap only when it has a single line (recorder.rs:40).
FilesWithinCap ==
  Cap > 0 =>
    \A d \in Sessions : \A k \in 1 .. Len(disk[d]) :
      disk[d][k].size > Cap => Len(Lines(d, k)) = 1

\* A request to change the session is answered, and a shutdown returns, also
\* when the writer fails with messages still queued.
CallsReturn ==
  /\ caller = "send" ~> caller # "send"
  /\ caller = "sealing" ~> caller # "sealing"
  /\ caller = "closing" ~> caller # "closing"
=============================================================================
