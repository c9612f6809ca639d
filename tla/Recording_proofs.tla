--------------------------- MODULE Recording_proofs ---------------------------
(***************************************************************************)
(* What holds of the two things kept of a session on disk: its text        *)
(* (SessionRecorder) and its audio (AudioArchive).                         *)
(*                                                                         *)
(* The recorder, for any queue, any cap, any number of sessions and        *)
(* segments, and whatever disk operations fail.  CInv says where a message *)
(* can be.  On it stand three invariants: that no segment is lost on the   *)
(* way without an error (KInv), what the files look like while the writer  *)
(* works (FInv), and that numbers grow from the disk to the caller, in the *)
(* session each was given to (OInv).                                       *)
(*                                                                         *)
(* The archive, for any quota, any cap, any chunks and any number of runs  *)
(* that overlap, are killed or fail.  AInv says what the files of a        *)
(* session look like at each place of its writer.  On it stand two: that   *)
(* its chunks follow each other up to the one in hand (HoleInv), and what  *)
(* an eviction has removed and passed over so far (RoomInv).               *)
(***************************************************************************)
EXTENDS SessionRecorder, AudioArchive, FunctionTheorems, SequenceTheorems,
        WellFoundedInduction, TLAPS

Line == Ids \union {Header, Torn}
File == [lines : Seq(Line), size : Nat]
Disk == [Sessions -> Seq(File)]
Message == Segment \union Seals

-----------------------------------------------------------------------------
(* Sequences.                                                              *)

LEMMA AppendIs ==
  ASSUME NEW S, NEW s \in Seq(S), NEW e \in S
  PROVE  /\ Append(s, e) \in Seq(S) /\ Len(Append(s, e)) = Len(s) + 1
         /\ \A i \in 1 .. Len(s) : Append(s, e)[i] = s[i]
         /\ Append(s, e)[Len(s) + 1] = e
  OBVIOUS

LEMMA TailIs ==
  ASSUME NEW S, NEW s \in Seq(S), s # <<>>
  PROVE  /\ Head(s) \in S /\ Head(s) = s[1] /\ Len(s) > 0
         /\ Tail(s) \in Seq(S) /\ Len(Tail(s)) = Len(s) - 1
         /\ \A i \in 1 .. Len(s) - 1 : Tail(s)[i] = s[i + 1]
  OBVIOUS

LEMMA SeqIs ==
  ASSUME NEW S, NEW s \in Seq(S)
  PROVE  /\ Len(s) \in Nat /\ (s = <<>> <=> Len(s) = 0)
         /\ \A i \in 1 .. Len(s) : s[i] \in S
  OBVIOUS

LEMMA EmptyIs == ASSUME NEW S PROVE <<>> \in Seq(S) /\ Len(<<>>) = 0
  OBVIOUS

LEMMA OneIs ==
  ASSUME NEW S, NEW e \in S
  PROVE  <<e>> \in Seq(S) /\ Len(<<e>>) = 1 /\ <<e>>[1] = e /\ <<e>> # <<>>
  OBVIOUS

LEMMA ReplaceIs ==
  ASSUME NEW S, NEW s \in Seq(S), NEW k \in 1 .. Len(s), NEW e \in S
  PROVE  LET r == [s EXCEPT ![k] = e]
         IN  /\ r \in Seq(S) /\ Len(r) = Len(s)
             /\ \A i \in 1 .. Len(s) : r[i] = IF i = k THEN e ELSE s[i]
  OBVIOUS

-----------------------------------------------------------------------------
(* Messages.                                                               *)

\* The constants, as facts.
LEMMA Constants ==
  /\ QueueCap \in Nat /\ QueueCap > 0
  /\ HeaderSize \in Nat /\ HeaderSize > 0
  /\ Cap \in Nat /\ MaxSessions \in Nat /\ MaxSessions > 0 /\ MaxSegments \in Nat
  /\ \A size \in Sizes : size \in Nat /\ size > 0
  /\ Header \notin Ids /\ Torn \notin Ids /\ Header # Torn
  BY SessionRecorderAssumption DEF SessionRecorderAssumption, Ids, Header, Torn

\* A segment is no request to seal.
LEMMA Apart ==
  /\ \A m \in Segment : m \notin Seals /\ m.id \in Ids /\ m.size \in Sizes /\ m # NoItem
  /\ \A m \in Seals : m.dir \in Sessions /\ m # NoItem
<1>1. \A m \in Segment : DOMAIN m = {"id", "size"} /\ m.id \in Ids /\ m.size \in Sizes
  BY DEF Segment
<1>2. \A m \in Seals : DOMAIN m = {"dir"} /\ m.dir \in Sessions
  BY DEF Seals
<1>3. DOMAIN NoItem = {}
  BY DEF NoItem
<1> QED BY <1>1, <1>2, <1>3

-----------------------------------------------------------------------------
(* What is on disk.                                                        *)

\* The disk dk has an i-th line in the k-th file of session d.
Has(dk, d, k, i) == d \in Sessions /\ k \in 1 .. Len(dk[d]) /\ i \in 1 .. Len(dk[d][k].lines)
At(dk, d, k, i) == dk[d][k].lines[i]

LEMMA DiskIs ==
  ASSUME NEW dk \in Disk, NEW d \in Sessions
  PROVE  /\ Len(dk[d]) \in Nat /\ (dk[d] = <<>> <=> Len(dk[d]) = 0)
         /\ \A k \in 1 .. Len(dk[d]) :
              /\ dk[d][k] \in File /\ dk[d][k].lines \in Seq(Line) /\ dk[d][k].size \in Nat
              /\ Len(dk[d][k].lines) \in Nat
              /\ \A i \in 1 .. Len(dk[d][k].lines) : dk[d][k].lines[i] \in Line
<1>1. dk[d] \in Seq(File)
  BY DEF Disk
<1>2. ASSUME NEW k \in 1 .. Len(dk[d])
      PROVE  /\ dk[d][k] \in File /\ dk[d][k].lines \in Seq(Line) /\ dk[d][k].size \in Nat
  <2>1. dk[d][k] \in File
    BY <1>1, SeqIs
  <2> QED BY <2>1 DEF File
<1>3. ASSUME NEW k \in 1 .. Len(dk[d])
      PROVE  /\ Len(dk[d][k].lines) \in Nat
             /\ \A i \in 1 .. Len(dk[d][k].lines) : dk[d][k].lines[i] \in Line
  BY <1>2, SeqIs
<1> QED BY <1>1, <1>2, <1>3, SeqIs

\* The file with one more line.
Longer(file, line, size) == [lines |-> Append(file.lines, line), size |-> file.size + size]

LEMMA LongerIs ==
  ASSUME NEW file \in File, NEW line \in Line, NEW size \in Nat
  PROVE  /\ Longer(file, line, size) \in File
         /\ Longer(file, line, size).size = file.size + size
         /\ Len(Longer(file, line, size).lines) = Len(file.lines) + 1
         /\ \A i \in 1 .. Len(file.lines) : Longer(file, line, size).lines[i] = file.lines[i]
         /\ Longer(file, line, size).lines[Len(file.lines) + 1] = line
<1>1. file.lines \in Seq(Line) /\ file.size \in Nat
  BY DEF File
<1>2. /\ Append(file.lines, line) \in Seq(Line)
      /\ Len(Append(file.lines, line)) = Len(file.lines) + 1
      /\ \A i \in 1 .. Len(file.lines) : Append(file.lines, line)[i] = file.lines[i]
      /\ Append(file.lines, line)[Len(file.lines) + 1] = line
  BY <1>1, AppendIs
<1>3. /\ Longer(file, line, size).lines = Append(file.lines, line)
      /\ Longer(file, line, size).size = file.size + size
  BY DEF Longer
<1>4. Longer(file, line, size) \in File
  BY <1>1, <1>2 DEF Longer, File
<1> QED BY <1>2, <1>3, <1>4

\* A line is added to the last file of session e.
AddsLine(e, line, size) == disk' = [disk EXCEPT ![e] = WithLine(@, line, size)]

\* Session e gets an empty file.
AddsFile(e) == disk' = [disk EXCEPT ![e] = Append(@, Empty)]

\* Session e, which has no file, gets one.
AddsSession(e, file) == disk' = [disk EXCEPT ![e] = <<file>>]

LEMMA LineAdded ==
  ASSUME disk \in Disk, NEW e \in Sessions, disk[e] # <<>>, NEW line \in Line, NEW size \in Nat,
         AddsLine(e, line, size)
  PROVE  /\ disk' \in Disk
         /\ \A d \in Sessions : Len(disk'[d]) = Len(disk[d])
         /\ \A d \in Sessions \ {e} : disk'[d] = disk[d]
         /\ \A k \in 1 .. Len(disk[e]) - 1 : disk'[e][k] = disk[e][k]
         /\ disk'[e][Len(disk[e])] = Longer(disk[e][Len(disk[e])], line, size)
         /\ Len(disk[e]) \in 1 .. Len(disk[e]) /\ disk[e][Len(disk[e])] \in File
<1> DEFINE last == Len(disk[e])
           longer == Longer(disk[e][last], line, size)
<1>1. disk[e] \in Seq(File) /\ last \in 1 .. last /\ last \in Nat
  BY SeqIs DEF Disk
<1>2. disk[e][last] \in File
  BY <1>1, SeqIs
<1>3. longer \in File
  BY <1>2, LongerIs
<1>4. WithLine(disk[e], line, size) = [disk[e] EXCEPT ![last] = longer]
  BY <1>1 DEF WithLine, Longer
<1> HIDE DEF longer
<1>5. LET r == [disk[e] EXCEPT ![last] = longer]
      IN  /\ r \in Seq(File) /\ Len(r) = last
          /\ \A i \in 1 .. last : r[i] = IF i = last THEN longer ELSE disk[e][i]
  BY <1>1, <1>3, ReplaceIs
<1>6. disk'[e] = [disk[e] EXCEPT ![last] = longer] /\ \A d \in Sessions \ {e} : disk'[d] = disk[d]
  BY <1>4 DEF Disk, AddsLine
<1>7. disk' \in Disk
  BY <1>4, <1>5 DEF Disk, AddsLine
<1>8. \A k \in 1 .. last - 1 : k \in 1 .. last /\ k # last
  BY <1>1
<1>9. \A d \in Sessions : Len(disk'[d]) = Len(disk[d])
  BY <1>5, <1>6
<1> QED BY <1>1, <1>2, <1>5, <1>6, <1>7, <1>8, <1>9 DEF longer

LEMMA FileAdded ==
  ASSUME disk \in Disk, NEW e \in Sessions, AddsFile(e)
  PROVE  /\ disk' \in Disk
         /\ \A d \in Sessions \ {e} : disk'[d] = disk[d]
         /\ Len(disk'[e]) = Len(disk[e]) + 1
         /\ \A k \in 1 .. Len(disk[e]) : disk'[e][k] = disk[e][k]
         /\ disk'[e][Len(disk[e]) + 1] = Empty
         /\ Empty.lines = <<>> /\ Empty.size = 0 /\ Len(Empty.lines) = 0
<1>1. Empty \in File /\ Empty.lines = <<>> /\ Empty.size = 0 /\ Len(Empty.lines) = 0
  BY EmptyIs DEF Empty, File
<1>2. disk[e] \in Seq(File)
  BY DEF Disk
<1>3. /\ Append(disk[e], Empty) \in Seq(File) /\ Len(Append(disk[e], Empty)) = Len(disk[e]) + 1
      /\ \A k \in 1 .. Len(disk[e]) : Append(disk[e], Empty)[k] = disk[e][k]
      /\ Append(disk[e], Empty)[Len(disk[e]) + 1] = Empty
  BY <1>1, <1>2, AppendIs
<1>4. disk'[e] = Append(disk[e], Empty) /\ \A d \in Sessions \ {e} : disk'[d] = disk[d]
  BY DEF Disk, AddsFile
<1>5. disk' \in Disk
  BY <1>3 DEF Disk, AddsFile
<1> QED BY <1>1, <1>3, <1>4, <1>5

LEMMA SessionAdded ==
  ASSUME disk \in Disk, NEW e \in Sessions, NEW file \in File, AddsSession(e, file)
  PROVE  /\ disk' \in Disk
         /\ \A d \in Sessions \ {e} : disk'[d] = disk[d]
         /\ Len(disk'[e]) = 1 /\ disk'[e][1] = file
<1>1. <<file>> \in Seq(File) /\ Len(<<file>>) = 1 /\ <<file>>[1] = file
  BY OneIs
<1> QED BY <1>1 DEF Disk, AddsSession

LEMMA HeaderOnlyIs ==
  /\ HeaderOnly \in File /\ HeaderOnly.size = HeaderSize
  /\ Len(HeaderOnly.lines) = 1 /\ HeaderOnly.lines[1] = Header /\ HeaderOnly.lines # <<>>
<1>1. Header \in Line
  BY DEF Line
<1>2. <<Header>> \in Seq(Line) /\ Len(<<Header>>) = 1 /\ <<Header>>[1] = Header /\ <<Header>> # <<>>
  BY <1>1, OneIs
<1> QED BY <1>2, Constants DEF HeaderOnly, File

-----------------------------------------------------------------------------
(* Where a message can be.                                                 *)

Ended == pc \in {"flush", "done"}

\* The writer has in hand what its place says, and a request to seal is the last
\* message, because its caller waits for the answer.
Hand ==
  /\ pc = "recv" => item = NoItem
  /\ pc \in {"record", "write"} => item \in Segment
  /\ pc = "seal" => item \in Seals /\ item = arg /\ caller = "sealing" /\ queue = <<>>
  /\ \A i \in 1 .. Len(queue) :
       queue[i] \in Seals => i = Len(queue) /\ queue[i] = arg /\ caller = "sealing"

\* What the caller waits for, and that a writer that ended without an error has
\* written all it was given.
Calls ==
  /\ caller = "sealed" => arg \in Seals /\ arg.dir = dir /\ queue = <<>> /\ pc = "recv"
  /\ caller \in {"send", "sealing"} => arg \in Seals
  /\ caller = "try_send" => arg \in Segment /\ arg.id = next - 1
  /\ caller # "sealed" => session = dir
  /\ caller = "closed" => pc = "done" /\ ~lastError
  /\ pc = "done" => queue = <<>> /\ item = NoItem
  /\ Ended /\ ~lastError => queue = <<>> /\ item = NoItem /\ caller \in {"closing", "closed"}

CInv == TypeOK /\ Hand /\ Calls /\ disk[dir] # <<>>

\* TypeOK in the words of the lemmas.
LEMMA TypeIs ==
  TypeOK <=> /\ disk \in Disk /\ dir \in Sessions /\ session \in Sessions
             /\ segBytes \in Nat /\ bytes \in Nat /\ lastError \in BOOLEAN
             /\ queue \in Seq(Message) /\ Len(queue) <= QueueCap
             /\ pc \in Places /\ item \in {NoItem} \union Message
             /\ caller \in Callers /\ arg \in {NoItem} \union Message
             /\ next \in 1 .. MaxSegments + 1
             /\ accepted \in Seq(Ids) /\ homes \in Seq(Sessions)
  BY DEF TypeOK, Disk, File, Line, Message

LEMMA CInit == Init => CInv
<1> SUFFICES ASSUME Init PROVE CInv
  OBVIOUS
<1>1. 1 \in Sessions
  BY Constants DEF Sessions
<1>2. <<HeaderOnly>> \in Seq(File) /\ <<>> \in Seq(File)
  BY HeaderOnlyIs, OneIs, EmptyIs
<1>3. disk \in Disk
  BY <1>2 DEF Init, Disk
<1>4. queue \in Seq(Message) /\ Len(queue) = 0 /\ accepted \in Seq(Ids) /\ homes \in Seq(Sessions)
  BY EmptyIs DEF Init
<1>5. TypeOK
  <2>1. /\ segBytes \in Nat /\ bytes \in Nat /\ Len(queue) <= QueueCap
        /\ next \in 1 .. MaxSegments + 1
    BY <1>4, Constants DEF Init
  <2>2. /\ lastError \in BOOLEAN /\ pc \in Places /\ caller \in Callers
        /\ item = NoItem /\ arg = NoItem
    BY DEF Init, Places, Callers
  <2> QED BY <1>1, <1>3, <1>4, <2>1, <2>2, TypeIs DEF Init
<1>6. Hand /\ Calls
  BY <1>4 DEF Init, Hand, Calls, Ended
<1>7. disk[dir] # <<>>
  BY <1>1, OneIs, HeaderOnlyIs DEF Init
<1> QED BY <1>5, <1>6, <1>7 DEF CInv

\* What the steps of the writer do to the disk.
LEMMA DiskSteps ==
  ASSUME TypeOK, Hand
  PROVE  /\ Rotate => \/ AddsFile(dir) /\ segBytes' = 0 /\ pc' = "write" /\ lastError' = lastError
                      \/ UNCHANGED <<disk, segBytes>> /\ GiveUp
         /\ Write => /\ item \in Segment /\ item.id \in Line /\ item.size \in Nat /\ Torn \in Line
                     /\ \/ /\ AddsLine(dir, item.id, item.size)
                           /\ segBytes' = segBytes + item.size /\ pc' = "recv" /\ lastError' = lastError
                        \/ disk' = disk /\ GiveUp
                        \/ AddsLine(dir, item.id, 0) /\ GiveUp
                        \/ AddsLine(dir, Torn, 0) /\ GiveUp
         /\ SealOpens => /\ item \in Seals /\ item.dir \in Sessions /\ disk[item.dir] = <<>>
                         /\ \/ /\ AddsSession(item.dir, HeaderOnly)
                               /\ dir' = item.dir /\ segBytes' = HeaderSize /\ caller' = "sealed"
                            \/ /\ \E file \in File :
                                    /\ AddsSession(item.dir, file) /\ file.size = 0
                                    /\ Len(file.lines) <= 1
                                    /\ \A i \in 1 .. Len(file.lines) : file.lines[i] \in {Header, Torn}
                               /\ UNCHANGED <<dir, segBytes>> /\ caller' = "idle"
<1>1. ASSUME Rotate
      PROVE  \/ AddsFile(dir) /\ segBytes' = 0 /\ pc' = "write" /\ lastError' = lastError
             \/ UNCHANGED <<disk, segBytes>> /\ GiveUp
  BY <1>1 DEF Rotate, AddsFile
<1>2. ASSUME Write
      PROVE  /\ item \in Segment /\ item.id \in Line /\ item.size \in Nat /\ Torn \in Line
             /\ \/ /\ AddsLine(dir, item.id, item.size)
                   /\ segBytes' = segBytes + item.size /\ pc' = "recv" /\ lastError' = lastError
                \/ disk' = disk /\ GiveUp
                \/ AddsLine(dir, item.id, 0) /\ GiveUp
                \/ AddsLine(dir, Torn, 0) /\ GiveUp
  <2>1. item \in Segment /\ item.id \in Line /\ Torn \in Line /\ item.size \in Nat
    BY <1>2, Apart, Constants DEF Write, Hand, Line
  <2> QED BY <1>2, <2>1 DEF Write, AddsLine
<1>3. ASSUME SealOpens
      PROVE  /\ item \in Seals /\ item.dir \in Sessions /\ disk[item.dir] = <<>>
             /\ \/ /\ AddsSession(item.dir, HeaderOnly)
                   /\ dir' = item.dir /\ segBytes' = HeaderSize /\ caller' = "sealed"
                \/ /\ \E file \in File :
                        /\ AddsSession(item.dir, file) /\ file.size = 0
                        /\ Len(file.lines) <= 1
                        /\ \A i \in 1 .. Len(file.lines) : file.lines[i] \in {Header, Torn}
                   /\ UNCHANGED <<dir, segBytes>> /\ caller' = "idle"
  <2>1. item \in Seals /\ item.dir \in Sessions /\ disk[item.dir] = <<>>
    BY <1>3, Apart DEF SealOpens, Hand
  <2>2. ASSUME NEW lines \in {<<>>, <<Torn>>, <<Header>>},
               disk' = [disk EXCEPT ![item.dir] = <<[Empty EXCEPT !.lines = lines]>>]
        PROVE  \E file \in File : /\ AddsSession(item.dir, file) /\ file.size = 0
                                 /\ Len(file.lines) <= 1
                                 /\ \A i \in 1 .. Len(file.lines) : file.lines[i] \in {Header, Torn}
    <3>1. lines \in Seq(Line) /\ Len(lines) <= 1 /\ \A i \in 1 .. Len(lines) : lines[i] \in {Header, Torn}
      <4>1. CASE lines = <<>>
        BY <4>1, EmptyIs
      <4>2. ASSUME NEW line \in {Header, Torn}, lines = <<line>>
            PROVE  lines \in Seq(Line) /\ Len(lines) <= 1
                   /\ \A i \in 1 .. Len(lines) : lines[i] \in {Header, Torn}
        <5>1. line \in Line
          BY DEF Line
        <5> QED BY <4>2, <5>1, OneIs
      <4> QED BY <4>1, <4>2
    <3> DEFINE file == [Empty EXCEPT !.lines = lines]
    <3>2. file \in File /\ file.lines = lines /\ file.size = 0
      BY <3>1 DEF Empty, File
    <3>3. AddsSession(item.dir, file)
      BY <2>2 DEF AddsSession
    <3> HIDE DEF file
    <3> QED BY <3>1, <3>2, <3>3
  <2>3. \/ disk' = [disk EXCEPT ![item.dir] = <<HeaderOnly>>]
           /\ dir' = item.dir /\ segBytes' = HeaderSize /\ caller' = "sealed"
        \/ (\E lines \in {<<>>, <<Torn>>, <<Header>>} :
              disk' = [disk EXCEPT ![item.dir] = <<[Empty EXCEPT !.lines = lines]>>])
           /\ UNCHANGED <<dir, segBytes>> /\ caller' = "idle"
    BY <1>3 DEF SealOpens
  <2> QED BY <2>1, <2>2, <2>3 DEF AddsSession
<1> QED BY <1>1, <1>2, <1>3

LEMMA DiskTyped ==
  ASSUME CInv, Rotate \/ Write \/ SealOpens
  PROVE  /\ disk' \in Disk /\ dir' \in Sessions /\ segBytes' \in Nat /\ bytes' \in Nat
         /\ disk'[dir'] # <<>>
<1>a. TypeOK /\ Hand /\ disk[dir] # <<>>
  BY DEF CInv
<1>b. /\ disk \in Disk /\ dir \in Sessions /\ segBytes \in Nat /\ bytes \in Nat
      /\ Len(disk[dir]) > 0 /\ Len(disk[dir]) \in Nat
  BY <1>a, TypeIs, DiskIs
<1>c. ASSUME disk' \in Disk, dir' \in Sessions, Len(disk'[dir']) > 0 PROVE disk'[dir'] # <<>>
  BY <1>c, DiskIs
<1>1. CASE Rotate
  <2>1. disk' \in Disk /\ Len(disk'[dir]) > 0 /\ segBytes' \in Nat
    <3>1. CASE AddsFile(dir) /\ segBytes' = 0
      <4>1. disk' \in Disk /\ Len(disk'[dir]) = Len(disk[dir]) + 1
        BY <1>b, <3>1, FileAdded
      <4> QED BY <1>b, <3>1, <4>1
    <3>2. CASE UNCHANGED <<disk, segBytes>>
      BY <1>b, <3>2
    <3> QED BY <1>1, <1>a, <3>1, <3>2, DiskSteps
  <2> QED BY <1>1, <1>b, <1>c, <2>1 DEF Rotate
<1>2. CASE Write
  <2>0. item \in Segment /\ item.id \in Line /\ item.size \in Nat /\ Torn \in Line /\ 0 \in Nat
    BY <1>2, <1>a, DiskSteps
  <2>1. ASSUME NEW line \in Line, NEW size \in Nat, AddsLine(dir, line, size)
        PROVE  disk' \in Disk /\ Len(disk'[dir]) > 0
    <3>1. disk' \in Disk /\ \A d \in Sessions : Len(disk'[d]) = Len(disk[d])
      BY <1>a, <1>b, <2>1, LineAdded
    <3> QED BY <1>b, <3>1
  <2>2. \/ AddsLine(dir, item.id, item.size) \/ disk' = disk
        \/ AddsLine(dir, item.id, 0) \/ AddsLine(dir, Torn, 0)
    BY <1>2, <1>a, DiskSteps
  <2>3. disk' \in Disk /\ Len(disk'[dir]) > 0
    BY <1>b, <2>0, <2>1, <2>2
  <2>4. segBytes' \in Nat /\ bytes' \in Nat /\ dir' = dir
    BY <1>2, <1>b, <2>0 DEF Write
  <2> QED BY <1>b, <1>c, <2>3, <2>4
<1>3. CASE SealOpens
  <2> DEFINE e == item.dir
  <2>1. e \in Sessions
    BY <1>3, <1>a, DiskSteps
  <2>2. HeaderOnly \in File
    BY HeaderOnlyIs
  <2>3. \E file \in File : AddsSession(e, file)
    BY <1>3, <1>a, <2>2, DiskSteps
  <2>4. dir' \in {dir, e} /\ segBytes' \in {segBytes, HeaderSize} /\ bytes' = bytes
    BY <1>3 DEF SealOpens
  <2> HIDE DEF e
  <2>5. disk' \in Disk /\ Len(disk'[e]) = 1 /\ \A d \in Sessions \ {e} : disk'[d] = disk[d]
    BY <1>b, <2>1, <2>3, SessionAdded
  <2>6. Len(disk'[dir']) > 0
    <3>1. CASE dir' = e
      BY <2>5, <3>1
    <3>2. CASE dir' = dir /\ dir # e
      BY <1>b, <2>5, <3>2
    <3> QED BY <2>4, <3>1, <3>2
  <2> QED BY <1>b, <1>c, <2>1, <2>4, <2>5, <2>6, Constants
<1> QED BY <1>1, <1>2, <1>3

LEMMA CStep == CInv /\ [Next]_vars => CInv'
<1> SUFFICES ASSUME CInv, [Next]_vars PROVE CInv'
  OBVIOUS
<1> USE DEF vars, writerVars, handleVars
<1>a. TypeOK /\ Hand /\ Calls /\ disk[dir] # <<>>
  BY DEF CInv
<1>b. /\ disk \in Disk /\ dir \in Sessions /\ session \in Sessions
      /\ segBytes \in Nat /\ bytes \in Nat /\ lastError \in BOOLEAN
      /\ queue \in Seq(Message) /\ Len(queue) <= QueueCap
      /\ pc \in Places /\ item \in {NoItem} \union Message
      /\ caller \in Callers /\ arg \in {NoItem} \union Message
      /\ next \in 1 .. MaxSegments + 1
      /\ accepted \in Seq(Ids) /\ homes \in Seq(Sessions)
  BY <1>a, TypeIs
<1>c. Len(queue) \in Nat /\ \A i \in 1 .. Len(queue) : queue[i] \in Message
  BY <1>b, SeqIs
<1>d. /\ \A m \in Segment : m \notin Seals /\ m \in Message /\ m # NoItem
      /\ \A m \in Seals : m \in Message /\ m # NoItem
  BY Apart DEF Message
<1>e. TypeOK' <=> /\ disk' \in Disk /\ dir' \in Sessions /\ session' \in Sessions
             /\ segBytes' \in Nat /\ bytes' \in Nat /\ lastError' \in BOOLEAN
             /\ queue' \in Seq(Message) /\ Len(queue') <= QueueCap
             /\ pc' \in Places /\ item' \in {NoItem} \union Message
             /\ caller' \in Callers /\ arg' \in {NoItem} \union Message
             /\ next' \in 1 .. MaxSegments + 1
             /\ accepted' \in Seq(Ids) /\ homes' \in Seq(Sessions)
  BY DEF TypeOK, Disk, File, Line, Message
\* A message is queued.
<1>f. ASSUME NEW m \in Message, queue' = Append(queue, m)
      PROVE  /\ queue' \in Seq(Message) /\ Len(queue') = Len(queue) + 1
             /\ \A i \in 1 .. Len(queue) : queue'[i] = queue[i]
             /\ queue'[Len(queue) + 1] = m
  BY <1>b, <1>f, AppendIs
<1>1. CASE UNCHANGED vars
  BY <1>1, <1>a DEF CInv, TypeOK, Hand, Calls, Ended
\* The handle.
<1>2. ASSUME NEW size \in Sizes, Record(size) PROVE CInv'
  <2>1. /\ caller = "idle" /\ next <= MaxSegments /\ next' = next + 1
        /\ arg' = [id |-> next, size |-> size] /\ homes' = Append(homes, session)
        /\ caller' = IF lastError THEN "idle" ELSE "try_send"
        /\ UNCHANGED <<disk, writerVars, lastError, queue, pc, accepted, session>>
    BY <1>2 DEF Record
  <2>2. arg' \in Segment /\ arg'.id = next /\ next' \in 1 .. MaxSegments + 1 /\ next = next' - 1
    BY <1>b, <2>1, Constants DEF Segment, Ids
  <2>3. homes' \in Seq(Sessions)
    BY <1>b, <2>1, AppendIs
  <2>4. TypeOK'
    BY <1>b, <1>d, <1>e, <2>1, <2>2, <2>3 DEF Callers
  <2>5. Hand'
    BY <1>a, <1>c, <2>1 DEF Hand
  <2>6. Calls'
    BY <1>a, <2>1, <2>2 DEF Calls, Ended
  <2> QED BY <1>a, <2>1, <2>4, <2>5, <2>6 DEF CInv
<1>3. CASE TrySend
  <2>1. /\ caller = "try_send" /\ caller' = "idle"
        /\ UNCHANGED <<disk, writerVars, lastError, pc, handleVars>>
        /\ arg \in Segment /\ arg.id \in Ids
    BY <1>3, <1>a, Apart DEF TrySend, Calls
  <2>2. CASE pc # "done" /\ Len(queue) < QueueCap
    <3>1. queue' = Append(queue, arg) /\ accepted' = Append(accepted, arg.id)
      BY <1>3, <2>2 DEF TrySend
    <3>2. /\ queue' \in Seq(Message) /\ Len(queue') = Len(queue) + 1
          /\ \A i \in 1 .. Len(queue) : queue'[i] = queue[i]
          /\ queue'[Len(queue) + 1] = arg
      BY <1>d, <1>f, <2>1, <3>1
    <3>3. accepted' \in Seq(Ids) /\ Len(queue') <= QueueCap
      BY <1>b, <1>c, <2>1, <2>2, <3>1, <3>2, AppendIs, Constants
    <3>4. TypeOK'
      BY <1>b, <1>e, <2>1, <3>2, <3>3 DEF Callers
    <3>5. Hand'
      <4>1. \A i \in 1 .. Len(queue') : queue'[i] \notin Seals
        BY <1>a, <1>c, <1>d, <2>1, <3>2 DEF Hand
      <4> QED BY <1>a, <2>1, <4>1 DEF Hand
    <3>6. Calls'
      BY <1>a, <2>1, <2>2 DEF Calls, Ended
    <3> QED BY <1>a, <2>1, <3>4, <3>5, <3>6 DEF CInv
  <2>3. CASE ~(pc # "done" /\ Len(queue) < QueueCap)
    <3>1. UNCHANGED <<queue, accepted>>
      BY <1>3, <2>3 DEF TrySend
    <3>2. TypeOK'
      BY <1>b, <1>e, <2>1, <3>1 DEF Callers
    <3>3. Hand' /\ Calls'
      BY <1>a, <2>1, <3>1 DEF Hand, Calls, Ended
    <3> QED BY <1>a, <2>1, <3>2, <3>3 DEF CInv
  <2> QED BY <2>2, <2>3
<1>4. ASSUME NEW d \in Sessions, Seal(d) PROVE CInv'
  <2>1. /\ caller = "idle" /\ caller' = "send" /\ arg' = [dir |-> d] /\ arg' \in Seals
        /\ UNCHANGED <<disk, writerVars, lastError, queue, pc, accepted, session, next, homes>>
    BY <1>4 DEF Seal, Seals
  <2>2. TypeOK'
    BY <1>b, <1>d, <1>e, <2>1 DEF Callers
  <2>3. Hand' /\ Calls'
    BY <1>a, <2>1 DEF Hand, Calls, Ended
  <2> QED BY <1>a, <2>1, <2>2, <2>3 DEF CInv
<1>5. CASE SendSeal
  <2>1. /\ caller = "send" /\ arg \in Seals
        /\ UNCHANGED <<disk, writerVars, lastError, pc, accepted, handleVars>>
    BY <1>5, <1>a DEF SendSeal, Calls
  <2>2. CASE pc = "done"
    <3>1. caller' = "idle" /\ queue' = queue
      BY <1>5, <2>2 DEF SendSeal
    <3>2. TypeOK'
      BY <1>b, <1>e, <2>1, <3>1 DEF Callers
    <3>3. Hand' /\ Calls'
      BY <1>a, <2>1, <3>1 DEF Hand, Calls, Ended
    <3> QED BY <1>a, <2>1, <3>2, <3>3 DEF CInv
  <2>3. CASE pc # "done"
    <3>1. Len(queue) < QueueCap /\ queue' = Append(queue, arg) /\ caller' = "sealing"
      BY <1>5, <2>3 DEF SendSeal
    <3>2. /\ queue' \in Seq(Message) /\ Len(queue') = Len(queue) + 1
          /\ \A i \in 1 .. Len(queue) : queue'[i] = queue[i]
          /\ queue'[Len(queue) + 1] = arg
      BY <1>d, <1>f, <2>1, <3>1
    <3>3. Len(queue') <= QueueCap
      BY <1>c, <3>1, <3>2, Constants
    <3>4. TypeOK'
      BY <1>b, <1>e, <2>1, <3>1, <3>2, <3>3 DEF Callers
    <3>5. Hand'
      <4>1. \A i \in 1 .. Len(queue') : queue'[i] \in Seals => i = Len(queue') /\ queue'[i] = arg
        BY <1>a, <1>c, <2>1, <3>2 DEF Hand
      <4> QED BY <1>a, <2>1, <3>1, <4>1 DEF Hand
    <3>6. Calls'
      BY <1>a, <2>1, <2>3, <3>1 DEF Calls, Ended
    <3> QED BY <1>a, <2>1, <3>4, <3>5, <3>6 DEF CInv
  <2> QED BY <2>2, <2>3
<1>6. CASE Sealed
  <2>1. /\ caller = "sealed" /\ caller' = "idle" /\ session' = arg.dir
        /\ arg.dir = dir /\ queue = <<>> /\ pc = "recv"
        /\ UNCHANGED <<disk, writerVars, lastError, queue, pc, accepted, arg, next, homes>>
    BY <1>6, <1>a DEF Sealed, Calls
  <2>2. TypeOK'
    BY <1>b, <1>e, <2>1 DEF Callers
  <2>3. Hand' /\ Calls'
    BY <1>a, <2>1 DEF Hand, Calls, Ended
  <2> QED BY <1>a, <2>1, <2>2, <2>3 DEF CInv
<1>7. CASE SealUnanswered \/ Shutdown \/ Closed
  <2>1. /\ UNCHANGED <<disk, writerVars, lastError, queue, pc, accepted, handleVars>>
        /\ \/ caller = "sealing" /\ pc = "done" /\ caller' = "idle"
           \/ caller = "idle" /\ caller' = "closing"
           \/ caller = "closing" /\ pc = "done" /\ caller' = IF lastError THEN "failed" ELSE "closed"
    BY <1>7 DEF SealUnanswered, Shutdown, Closed
  <2>2. TypeOK'
    BY <1>b, <1>e, <2>1 DEF Callers
  <2>3. pc = "done" => Len(queue) = 0
    BY <1>a, EmptyIs DEF Calls
  <2>4. \A i \in 1 .. Len(queue) : queue[i] \notin Seals
    BY <1>a, <2>1, <2>3 DEF Hand
  <2>5. Hand'
    BY <1>a, <2>1, <2>3, <2>4 DEF Hand
  <2>6. Calls'
    BY <1>a, <1>b, <2>1 DEF Calls, Ended
  <2> QED BY <1>a, <2>1, <2>2, <2>5, <2>6 DEF CInv
\* The writer.
<1>8. CASE Recv
  <2>1. /\ pc = "recv" /\ queue # <<>> /\ item' = Head(queue) /\ queue' = Tail(queue)
        /\ pc' = IF Head(queue) \in Seals THEN "seal" ELSE "record"
        /\ UNCHANGED <<disk, dir, segBytes, bytes, lastError, caller, accepted, handleVars>>
    BY <1>8 DEF Recv
  <2>2. /\ item' \in Message /\ item' = queue[1] /\ Len(queue) > 0
        /\ queue' \in Seq(Message) /\ Len(queue') = Len(queue) - 1
        /\ \A i \in 1 .. Len(queue) - 1 : queue'[i] = queue[i + 1]
    BY <1>b, <2>1, TailIs
  <2>3. TypeOK'
    BY <1>b, <1>c, <1>e, <2>1, <2>2, Constants DEF Places
  <2>4. Hand'
    <3>1. item' \in Seals => item' = arg /\ caller = "sealing" /\ Len(queue) = 1
      BY <1>a, <1>c, <2>2 DEF Hand
    <3>2. Len(queue') = 0 => queue' = <<>>
      BY <2>2, SeqIs
    <3>3. item' \notin Seals => item' \in Segment
      BY <2>2 DEF Message
    <3>4. \A i \in 1 .. Len(queue') :
            queue'[i] \in Seals => i = Len(queue') /\ queue'[i] = arg /\ caller = "sealing"
      BY <1>a, <1>c, <2>2 DEF Hand
    <3>5. pc' = "seal" => item' \in Seals /\ queue' = <<>> /\ item' = arg /\ caller = "sealing"
      BY <1>c, <2>1, <2>2, <3>1, <3>2
    <3>6. pc' = "record" => item' \in Segment
      BY <2>1, <3>3
    <3> QED BY <2>1, <3>4, <3>5, <3>6 DEF Hand
  <2>5. Calls'
    BY <1>a, <2>1 DEF Calls, Ended
  <2> QED BY <1>a, <2>1, <2>3, <2>4, <2>5 DEF CInv
<1>9. CASE RecvEnd
  <2>1. /\ pc = "recv" /\ queue = <<>> /\ caller = "closing" /\ pc' = "flush"
        /\ UNCHANGED <<disk, writerVars, lastError, queue, caller, accepted, handleVars>>
    BY <1>9 DEF RecvEnd
  <2>2. TypeOK'
    BY <1>b, <1>e, <2>1 DEF Places
  <2>3. Hand' /\ Calls'
    BY <1>a, <2>1 DEF Hand, Calls, Ended
  <2> QED BY <1>a, <2>1, <2>2, <2>3 DEF CInv
<1>10. CASE Rotate
  <2>1. /\ pc = "record" /\ pc' \in {"write", "flush"} /\ (pc' = "flush" => lastError')
        /\ lastError' \in BOOLEAN
        /\ UNCHANGED <<dir, bytes, item, queue, caller, accepted, handleVars>>
    BY <1>10, <1>b DEF Rotate, GiveUp
  <2>2. disk' \in Disk /\ segBytes' \in Nat /\ disk'[dir'] # <<>>
    BY <1>10, DiskTyped
  <2>3. TypeOK'
    BY <1>b, <1>e, <2>1, <2>2 DEF Places
  <2>4. Hand' /\ Calls'
    BY <1>a, <2>1 DEF Hand, Calls, Ended
  <2> QED BY <2>2, <2>3, <2>4 DEF CInv
<1>11. CASE Write
  <2>1. /\ pc \in {"record", "write"} /\ pc' \in {"recv", "flush"} /\ (pc' = "flush" => lastError')
        /\ lastError' \in BOOLEAN /\ item' = NoItem
        /\ UNCHANGED <<dir, queue, caller, accepted, handleVars>>
    BY <1>11, <1>b DEF Write, GiveUp
  <2>2. disk' \in Disk /\ segBytes' \in Nat /\ bytes' \in Nat /\ disk'[dir'] # <<>>
    BY <1>11, DiskTyped
  <2>3. TypeOK'
    BY <1>b, <1>e, <2>1, <2>2 DEF Places
  <2>4. Hand' /\ Calls'
    BY <1>a, <2>1 DEF Hand, Calls, Ended
  <2> QED BY <2>2, <2>3, <2>4 DEF CInv
<1>12. CASE SealOpens
  <2>1. /\ pc = "seal" /\ pc' = "recv" /\ item' = NoItem /\ item = arg /\ arg \in Seals
        /\ queue = <<>> /\ caller = "sealing"
        /\ UNCHANGED <<bytes, lastError, queue, accepted, handleVars>>
    BY <1>12, <1>a DEF SealOpens, Hand
  <2>2. \/ dir' = arg.dir /\ caller' = "sealed"
        \/ dir' = dir /\ caller' = "idle"
    BY <1>12, <2>1 DEF SealOpens
  <2>3. disk' \in Disk /\ dir' \in Sessions /\ segBytes' \in Nat /\ disk'[dir'] # <<>>
    BY <1>12, DiskTyped
  <2>4. TypeOK'
    BY <1>b, <1>e, <2>1, <2>2, <2>3 DEF Places, Callers
  <2>5. Len(queue) = 0
    BY <2>1, EmptyIs
  <2>6. Hand' /\ Calls'
    BY <1>a, <2>1, <2>2, <2>5 DEF Hand, Calls, Ended
  <2> QED BY <2>3, <2>4, <2>6 DEF CInv
<1>13. CASE SealFails
  <2>1. /\ pc = "seal" /\ pc' = "recv" /\ item' = NoItem /\ caller' = "idle"
        /\ queue = <<>> /\ caller = "sealing"
        /\ UNCHANGED <<disk, dir, segBytes, bytes, lastError, queue, accepted, handleVars>>
    BY <1>13, <1>a DEF SealFails, Hand
  <2>2. TypeOK'
    BY <1>b, <1>e, <2>1 DEF Places, Callers
  <2>3. Len(queue) = 0
    BY <2>1, EmptyIs
  <2>4. Hand' /\ Calls'
    BY <1>a, <2>1, <2>3 DEF Hand, Calls, Ended
  <2> QED BY <1>a, <2>1, <2>2, <2>4 DEF CInv
<1>14. CASE Flush
  <2>1. /\ pc = "flush" /\ pc' = "done" /\ queue' = <<>> /\ item' = NoItem
        /\ lastError' \in {lastError, TRUE}
        /\ UNCHANGED <<disk, dir, segBytes, bytes, caller, accepted, handleVars>>
    BY <1>14 DEF Flush
  <2>2. queue' \in Seq(Message) /\ Len(queue') = 0 /\ Len(queue') <= QueueCap
    BY <2>1, EmptyIs, Constants
  <2>3. TypeOK'
    BY <1>b, <1>e, <2>1, <2>2 DEF Places
  <2>4. Hand'
    BY <2>1, <2>2 DEF Hand
  <2>5. Calls'
    BY <1>a, <1>b, <2>1 DEF Calls, Ended
  <2> QED BY <1>a, <2>1, <2>3, <2>4, <2>5 DEF CInv
<1> QED BY <1>1, <1>2, <1>3, <1>4, <1>5, <1>6, <1>7, <1>8, <1>9, <1>10, <1>11, <1>12, <1>13, <1>14
        DEF Next, Writer, Calling

\* The disk, the queue, the counters and the call of the recorder keep their
\* types, and the queue its capacity (recorder.rs:108-187).
THEOREM TypeCorrect == Spec => []TypeOK
<1>1. CInv => TypeOK
  BY DEF CInv
<1> QED BY CInit, CStep, <1>1, PTL DEF Spec

-----------------------------------------------------------------------------
(* Which lines there are, and where.                                       *)

OnDisk(dk) == {id \in Ids : \E d, k, i : Has(dk, d, k, i) /\ At(dk, d, k, i) = id}

\* Where the lines are after a line is added ...
LEMMA LinePlaces ==
  ASSUME disk \in Disk, NEW e \in Sessions, disk[e] # <<>>, NEW line \in Line, NEW size \in Nat,
         AddsLine(e, line, size)
  PROVE  LET last == Len(disk[e])
             end == Len(disk[e][last].lines) + 1
         IN  /\ \A d, k, i : Has(disk, d, k, i) =>
                  Has(disk', d, k, i) /\ At(disk', d, k, i) = At(disk, d, k, i)
             /\ \A d, k, i : Has(disk', d, k, i) =>
                  \/ Has(disk, d, k, i) /\ At(disk', d, k, i) = At(disk, d, k, i)
                  \/ d = e /\ k = last /\ i = end /\ At(disk', d, k, i) = line
             /\ Has(disk', e, last, end) /\ At(disk', e, last, end) = line
<1> DEFINE last == Len(disk[e])
           end == Len(disk[e][last].lines) + 1
<1>1. /\ disk' \in Disk
      /\ \A d \in Sessions : Len(disk'[d]) = Len(disk[d])
      /\ \A d \in Sessions \ {e} : disk'[d] = disk[d]
      /\ \A k \in 1 .. last - 1 : disk'[e][k] = disk[e][k]
      /\ disk'[e][last] = Longer(disk[e][last], line, size)
      /\ last \in 1 .. last /\ disk[e][last] \in File
  BY LineAdded
<1>2. /\ last \in Nat
      /\ \A k \in 1 .. last : Len(disk[e][k].lines) \in Nat
  BY DiskIs
<1>3. /\ Len(disk'[e][last].lines) = end
      /\ \A i \in 1 .. end - 1 : disk'[e][last].lines[i] = disk[e][last].lines[i]
      /\ disk'[e][last].lines[end] = line
      /\ end \in Nat /\ end > 0
  <2> DEFINE file == disk[e][last]
  <2>1. file \in File /\ Len(file.lines) \in Nat /\ disk'[e][last] = Longer(file, line, size)
    BY <1>1, <1>2
  <2> HIDE DEF file
  <2>2. /\ Len(Longer(file, line, size).lines) = Len(file.lines) + 1
        /\ \A i \in 1 .. Len(file.lines) : Longer(file, line, size).lines[i] = file.lines[i]
        /\ Longer(file, line, size).lines[Len(file.lines) + 1] = line
    BY <2>1, LongerIs
  <2>3. end = Len(file.lines) + 1
    BY DEF file
  <2> HIDE DEF end
  <2>4. end - 1 = Len(file.lines) /\ end \in Nat /\ end > 0
    BY <2>1, <2>3
  <2>5. \A i \in 1 .. end - 1 : disk'[e][last].lines[i] = file.lines[i]
    BY <2>1, <2>2, <2>4
  <2>6. Len(disk'[e][last].lines) = end /\ disk'[e][last].lines[end] = line
    BY <2>1, <2>2, <2>3
  <2> QED BY <2>4, <2>5, <2>6 DEF file
<1>4. ASSUME NEW d, NEW k, NEW i, Has(disk, d, k, i)
      PROVE  Has(disk', d, k, i) /\ At(disk', d, k, i) = At(disk, d, k, i)
  <2>1. CASE d # e
    BY <1>1, <1>4, <2>1 DEF Has, At
  <2>2. CASE d = e /\ k # last
    BY SMTT(60), <1>1, <1>2, <1>4, <2>2 DEF Has, At
  <2>3. CASE d = e /\ k = last
    <3>1. i \in 1 .. Len(disk[e][last].lines)
      BY <1>4, <2>3 DEF Has
    <3>2. i \in 1 .. Len(disk'[e][last].lines) /\ disk'[e][last].lines[i] = disk[e][last].lines[i]
      BY <1>2, <1>3, <3>1
    <3>3. last \in 1 .. Len(disk'[e])
      BY <1>1
    <3> QED BY <2>3, <3>2, <3>3 DEF Has, At
  <2> QED BY <2>1, <2>2, <2>3
<1>5. ASSUME NEW d, NEW k, NEW i, Has(disk', d, k, i)
      PROVE  \/ Has(disk, d, k, i) /\ At(disk', d, k, i) = At(disk, d, k, i)
             \/ d = e /\ k = last /\ i = end /\ At(disk', d, k, i) = line
  <2>1. CASE d # e
    BY <1>1, <1>5, <2>1 DEF Has, At
  <2>2. CASE d = e /\ k # last
    BY SMTT(60), <1>1, <1>2, <1>5, <2>2 DEF Has, At
  <2>3. CASE d = e /\ k = last
    <3>1. i \in 1 .. end
      BY <1>3, <1>5, <2>3 DEF Has
    <3>2. CASE i = end
      BY <1>3, <2>3, <3>2 DEF At
    <3>3. CASE i # end
      <4>1. i \in 1 .. end - 1
        BY <1>3, <3>1, <3>3
      <4>2. i \in 1 .. Len(disk[e][last].lines) /\ disk'[e][last].lines[i] = disk[e][last].lines[i]
        BY <1>1, <1>2, <1>3, <4>1
      <4> QED BY <1>1, <2>3, <4>2 DEF Has, At
    <3> QED BY <3>2, <3>3
  <2> QED BY <2>1, <2>2, <2>3
<1>6. Has(disk', e, last, end) /\ At(disk', e, last, end) = line
  BY <1>1, <1>2, <1>3 DEF Has, At
<1> QED BY <1>4, <1>5, <1>6

\* ... or an empty file ...
LEMMA FilePlaces ==
  ASSUME disk \in Disk, NEW e \in Sessions, AddsFile(e)
  PROVE  /\ \A d, k, i : Has(disk, d, k, i) <=> Has(disk', d, k, i)
         /\ \A d, k, i : Has(disk, d, k, i) => At(disk', d, k, i) = At(disk, d, k, i)
<1>1. /\ \A d \in Sessions \ {e} : disk'[d] = disk[d]
      /\ Len(disk'[e]) = Len(disk[e]) + 1
      /\ \A k \in 1 .. Len(disk[e]) : disk'[e][k] = disk[e][k]
      /\ disk'[e][Len(disk[e]) + 1] = Empty
      /\ Len(Empty.lines) = 0
  BY FileAdded
<1>2. Len(disk[e]) \in Nat
  BY DiskIs
<1>3. \A d, k, i : d # e => (Has(disk, d, k, i) <=> Has(disk', d, k, i))
                           /\ (Has(disk, d, k, i) => At(disk', d, k, i) = At(disk, d, k, i))
  BY <1>1 DEF Has, At
<1>4. ASSUME NEW k, NEW i
      PROVE  (Has(disk, e, k, i) <=> Has(disk', e, k, i))
             /\ (Has(disk, e, k, i) => At(disk', e, k, i) = At(disk, e, k, i))
  <2>1. CASE k \in 1 .. Len(disk[e])
    BY SMTT(60), <1>1, <1>2, <2>1 DEF Has, At
  <2>2. CASE k = Len(disk[e]) + 1
    BY <1>1, <1>2, <2>2 DEF Has, At
  <2>3. CASE k \notin 1 .. Len(disk[e]) + 1
    BY <1>1, <1>2, <2>3 DEF Has, At
  <2> QED BY <1>2, <2>1, <2>2, <2>3
<1> QED BY <1>3, <1>4

\* ... or the file of a session that had none.
LEMMA SessionPlaces ==
  ASSUME disk \in Disk, NEW e \in Sessions, disk[e] = <<>>, NEW file \in File, AddsSession(e, file)
  PROVE  /\ \A d, k, i : Has(disk, d, k, i) =>
              d # e /\ Has(disk', d, k, i) /\ At(disk', d, k, i) = At(disk, d, k, i)
         /\ \A d, k, i : Has(disk', d, k, i) =>
              \/ Has(disk, d, k, i) /\ At(disk', d, k, i) = At(disk, d, k, i)
              \/ /\ d = e /\ k = 1 /\ Len(disk'[e]) = 1 /\ disk'[e][1] = file
                 /\ i \in 1 .. Len(file.lines) /\ At(disk', d, k, i) = file.lines[i]
<1>1. /\ \A d \in Sessions \ {e} : disk'[d] = disk[d]
      /\ Len(disk'[e]) = 1 /\ disk'[e][1] = file
      /\ Len(disk[e]) = 0
  BY SessionAdded, DiskIs
<1>2. \A d, k, i : d # e => (Has(disk, d, k, i) <=> Has(disk', d, k, i))
                           /\ (Has(disk, d, k, i) => At(disk', d, k, i) = At(disk, d, k, i))
  BY <1>1 DEF Has, At
<1>3. \A k, i : ~Has(disk, e, k, i)
  BY <1>1 DEF Has
<1>4. \A k, i : Has(disk', e, k, i) => k = 1 /\ i \in 1 .. Len(file.lines)
                                     /\ At(disk', e, k, i) = file.lines[i]
  BY <1>1 DEF Has, At
<1> QED BY <1>1, <1>2, <1>3, <1>4

LEMMA OnDiskSteps ==
  ASSUME CInv
  PROVE  /\ \A line \in Line, size \in Nat :
              AddsLine(dir, line, size) => OnDisk(disk') = OnDisk(disk) \union ({line} \intersect Ids)
         /\ AddsFile(dir) => OnDisk(disk') = OnDisk(disk)
         /\ \A e \in Sessions, file \in File :
              /\ disk[e] = <<>> /\ AddsSession(e, file)
              /\ \A i \in 1 .. Len(file.lines) : file.lines[i] \in {Header, Torn}
              => OnDisk(disk') = OnDisk(disk)
<1>a. disk \in Disk /\ dir \in Sessions /\ disk[dir] # <<>>
  BY TypeIs DEF CInv
<1>1. ASSUME NEW line \in Line, NEW size \in Nat, AddsLine(dir, line, size)
      PROVE  OnDisk(disk') = OnDisk(disk) \union ({line} \intersect Ids)
  <2>1. \A d, k, i : Has(disk, d, k, i) =>
           Has(disk', d, k, i) /\ At(disk', d, k, i) = At(disk, d, k, i)
    BY <1>a, <1>1, LinePlaces
  <2>2. \A d, k, i : Has(disk', d, k, i) =>
           \/ Has(disk, d, k, i) /\ At(disk', d, k, i) = At(disk, d, k, i)
           \/ At(disk', d, k, i) = line
    BY <1>a, <1>1, LinePlaces
  <2>3. \E d, k, i : Has(disk', d, k, i) /\ At(disk', d, k, i) = line
    BY <1>a, <1>1, LinePlaces
  <2>4. \A id \in Ids : id \in OnDisk(disk') <=> id \in OnDisk(disk) \/ id = line
    BY <2>1, <2>2, <2>3 DEF OnDisk
  <2> QED BY <2>4 DEF OnDisk
<1>2. ASSUME AddsFile(dir) PROVE OnDisk(disk') = OnDisk(disk)
  <2>1. /\ \A d, k, i : Has(disk, d, k, i) <=> Has(disk', d, k, i)
        /\ \A d, k, i : Has(disk, d, k, i) => At(disk', d, k, i) = At(disk, d, k, i)
    BY <1>a, <1>2, FilePlaces
  <2> QED BY <2>1 DEF OnDisk
<1>3. ASSUME NEW e \in Sessions, NEW file \in File, disk[e] = <<>>, AddsSession(e, file),
             \A i \in 1 .. Len(file.lines) : file.lines[i] \in {Header, Torn}
      PROVE  OnDisk(disk') = OnDisk(disk)
  <2>1. \A d, k, i : Has(disk, d, k, i) =>
           Has(disk', d, k, i) /\ At(disk', d, k, i) = At(disk, d, k, i)
    BY <1>a, <1>3, SessionPlaces
  <2>2. \A d, k, i : Has(disk', d, k, i) =>
           \/ Has(disk, d, k, i) /\ At(disk', d, k, i) = At(disk, d, k, i)
           \/ At(disk', d, k, i) \notin Ids
    BY <1>a, <1>3, SessionPlaces, Constants
  <2> QED BY <2>1, <2>2 DEF OnDisk
<1> QED BY <1>1, <1>2, <1>3

-----------------------------------------------------------------------------
(* Which segments are on the way.                                          *)

OnTheWay(q, it) == {m.id : m \in ({q[i] : i \in 1 .. Len(q)} \union {it}) \intersect Segment}
Members(a) == {a[i] : i \in 1 .. Len(a)}

LEMMA Named ==
  /\ Written = OnDisk(disk)
  /\ Pending = OnTheWay(queue, item)
  /\ Accepted = Members(accepted)
<1>1. Written = OnDisk(disk)
  BY DEF Written, OnDisk, Lines, Has, At
<1> QED BY <1>1 DEF Pending, Messages, OnTheWay, Accepted, Members

LEMMA WayAppend ==
  ASSUME NEW q \in Seq(Message), NEW it, NEW m \in Message
  PROVE  /\ m \in Segment => OnTheWay(Append(q, m), it) = OnTheWay(q, it) \union {m.id}
         /\ m \notin Segment => OnTheWay(Append(q, m), it) = OnTheWay(q, it)
<1>1. /\ Append(q, m) \in Seq(Message) /\ Len(Append(q, m)) = Len(q) + 1
      /\ \A i \in 1 .. Len(q) : Append(q, m)[i] = q[i]
      /\ Append(q, m)[Len(q) + 1] = m
  BY AppendIs
<1>2. Len(q) \in Nat
  BY SeqIs
<1>3. {Append(q, m)[i] : i \in 1 .. Len(Append(q, m))} = {q[i] : i \in 1 .. Len(q)} \union {m}
  <2> DEFINE r == Append(q, m)
             n == Len(q)
  <2>1. n \in Nat /\ Len(r) = n + 1 /\ (\A i \in 1 .. n : r[i] = q[i]) /\ r[n + 1] = m
    BY <1>1, <1>2
  <2> HIDE DEF r, n
  <2>2. {r[i] : i \in 1 .. n + 1} = {q[i] : i \in 1 .. n} \union {m}
    <3>1. \A i \in 1 .. n + 1 : i \in 1 .. n \/ i = n + 1
      BY <2>1
    <3>2. \A i \in 1 .. n : i \in 1 .. n + 1
      BY <2>1
    <3>3. n + 1 \in 1 .. n + 1
      BY <2>1
    <3> QED BY <2>1, <3>1, <3>2, <3>3
  <2> QED BY <2>1, <2>2 DEF r, n
<1>4. ASSUME m \in Segment PROVE OnTheWay(Append(q, m), it) = OnTheWay(q, it) \union {m.id}
  BY <1>3, <1>4 DEF OnTheWay
<1>5. ASSUME m \notin Segment PROVE OnTheWay(Append(q, m), it) = OnTheWay(q, it)
  BY <1>3, <1>5 DEF OnTheWay
<1> QED BY <1>4, <1>5

LEMMA WayTail ==
  ASSUME NEW q \in Seq(Message), q # <<>>
  PROVE  OnTheWay(Tail(q), Head(q)) = OnTheWay(q, NoItem)
<1> DEFINE r == Tail(q)
           n == Len(q)
           h == Head(q)
<1>1. /\ h = q[1] /\ n > 0 /\ n \in Nat /\ Len(r) = n - 1
      /\ \A i \in 1 .. n - 1 : r[i] = q[i + 1]
  BY TailIs, SeqIs
<1> HIDE DEF r, n, h
<1>2. {r[i] : i \in 1 .. n - 1} \union {h} = {q[i] : i \in 1 .. n}
  <2>1. \A i \in 1 .. n - 1 : i + 1 \in 1 .. n
    BY <1>1
  <2>2. \A i \in 1 .. n : i = 1 \/ (i - 1 \in 1 .. n - 1 /\ (i - 1) + 1 = i)
    BY <1>1
  <2>3. 1 \in 1 .. n
    BY <1>1
  <2>4. ASSUME NEW x \in {r[i] : i \in 1 .. n - 1} \union {h} PROVE x \in {q[i] : i \in 1 .. n}
    BY <1>1, <2>1, <2>3, <2>4
  <2>5. ASSUME NEW i \in 1 .. n PROVE q[i] \in {r[j] : j \in 1 .. n - 1} \union {h}
    <3>1. CASE i = 1
      BY <1>1, <3>1
    <3>2. CASE i # 1
      <4>1. i - 1 \in 1 .. n - 1 /\ r[i - 1] = q[(i - 1) + 1] /\ (i - 1) + 1 = i
        BY <1>1, <2>2, <3>2
      <4> QED BY <4>1
    <3> QED BY <3>1, <3>2
  <2> QED BY <2>4, <2>5
<1>3. NoItem \notin Segment
  BY Apart
<1>4. OnTheWay(r, h) = {m.id : m \in {q[i] : i \in 1 .. n} \intersect Segment}
  BY <1>1, <1>2 DEF OnTheWay
<1>5. OnTheWay(q, NoItem) = {m.id : m \in {q[i] : i \in 1 .. n} \intersect Segment}
  <2>1. ({q[i] : i \in 1 .. n} \union {NoItem}) \intersect Segment
          = {q[i] : i \in 1 .. n} \intersect Segment
    BY <1>3
  <2> QED BY <2>1 DEF OnTheWay, n
<1> QED BY <1>4, <1>5 DEF r, h

LEMMA WayItem ==
  ASSUME NEW q, NEW it
  PROVE  /\ it \in Segment => OnTheWay(q, it) = OnTheWay(q, NoItem) \union {it.id}
         /\ it \notin Segment => OnTheWay(q, it) = OnTheWay(q, NoItem)
         /\ OnTheWay(q, NoItem) \subseteq OnTheWay(q, it)
<1>1. NoItem \notin Segment
  BY Apart
<1> QED BY <1>1 DEF OnTheWay

LEMMA WayEmpty == OnTheWay(<<>>, NoItem) = {}
  BY Apart, EmptyIs DEF OnTheWay

LEMMA MembersAppend ==
  ASSUME NEW a \in Seq(Ids), NEW id \in Ids
  PROVE  Members(Append(a, id)) = Members(a) \union {id}
<1> DEFINE r == Append(a, id)
           n == Len(a)
<1>1. n \in Nat /\ Len(r) = n + 1 /\ (\A i \in 1 .. n : r[i] = a[i]) /\ r[n + 1] = id
  BY AppendIs, SeqIs
<1> HIDE DEF r, n
<1>2. {r[i] : i \in 1 .. n + 1} = {a[i] : i \in 1 .. n} \union {id}
  <2>1. \A i \in 1 .. n + 1 : i \in 1 .. n \/ i = n + 1
    BY <1>1
  <2>2. \A i \in 1 .. n : i \in 1 .. n + 1
    BY <1>1
  <2>3. n + 1 \in 1 .. n + 1
    BY <1>1
  <2> QED BY <1>1, <2>1, <2>2, <2>3
<1> QED BY <1>1, <1>2 DEF Members, r, n

-----------------------------------------------------------------------------
(* None is lost without an error.                                          *)

Kept ==
  /\ OnDisk(disk) \subseteq Members(accepted)
  /\ OnTheWay(queue, item) \subseteq Members(accepted)
  /\ ~lastError => Members(accepted) \subseteq OnDisk(disk) \union OnTheWay(queue, item)

KInv == CInv /\ Kept

LEMMA NothingYet == Init => OnDisk(disk) = {}
<1> SUFFICES ASSUME Init PROVE OnDisk(disk) = {}
  OBVIOUS
<1>1. ASSUME NEW d, NEW k, NEW i, Has(disk, d, k, i) PROVE At(disk, d, k, i) \notin Ids
  <2>1. CASE d = 1
    <3>1. disk[d] = <<HeaderOnly>>
      BY <1>1, <2>1 DEF Init, Has
    <3>2. k = 1 /\ disk[d][k] = HeaderOnly
      BY <1>1, <3>1, OneIs, HeaderOnlyIs DEF Has
    <3>3. i = 1
      BY <1>1, <3>2, HeaderOnlyIs DEF Has
    <3> QED BY <3>2, <3>3, HeaderOnlyIs, Constants DEF At
  <2>2. CASE d # 1
    <3>1. disk[d] = <<>>
      BY <1>1, <2>2 DEF Init, Has
    <3> QED BY <1>1, <3>1, EmptyIs DEF Has
  <2> QED BY <2>1, <2>2
<1> QED BY <1>1 DEF OnDisk

LEMMA KInit == Init => KInv
<1> SUFFICES ASSUME Init PROVE KInv
  OBVIOUS
<1>1. OnTheWay(queue, item) = {} /\ Members(accepted) = {}
  BY WayEmpty, EmptyIs DEF Init, Members
<1>2. OnDisk(disk) = {}
  BY NothingYet
<1> QED BY <1>1, <1>2, CInit DEF KInv, Kept

LEMMA KStep == KInv /\ [Next]_vars => KInv'
<1> SUFFICES ASSUME KInv, [Next]_vars PROVE KInv'
  OBVIOUS
<1> USE DEF vars, writerVars, handleVars
<1>c. CInv /\ CInv'
  BY CStep DEF KInv
<1>a. TypeOK /\ Hand /\ Calls /\ Kept
  BY <1>c DEF CInv, KInv
<1>b. /\ disk \in Disk /\ dir \in Sessions /\ lastError \in BOOLEAN
      /\ queue \in Seq(Message) /\ accepted \in Seq(Ids)
      /\ \A m \in Segment : m \in Message /\ m.id \in Ids
      /\ \A m \in Seals : m \in Message /\ m \notin Segment
  BY <1>a, TypeIs, Apart DEF Message
<1>d. ASSUME UNCHANGED <<disk, queue, item, accepted>>, lastError => lastError' PROVE KInv'
  BY <1>c, <1>a, <1>d DEF KInv, Kept
<1>e. ASSUME OnDisk(disk') = OnDisk(disk), OnTheWay(queue', item') = OnTheWay(queue, item),
             accepted' = accepted, lastError => lastError'
      PROVE  KInv'
  BY <1>c, <1>a, <1>e DEF KInv, Kept
<1>1. CASE UNCHANGED vars
  BY <1>d, <1>1
<1>2. ASSUME NEW size \in Sizes, Record(size) PROVE KInv'
  BY <1>d, <1>2 DEF Record
<1>3. CASE TrySend
  <2>1. arg \in Segment /\ arg \in Message /\ arg.id \in Ids
    BY <1>3, <1>a, <1>b DEF TrySend, Calls
  <2>2. CASE UNCHANGED <<queue, accepted>>
    BY <1>3, <1>d, <2>2 DEF TrySend
  <2>3. CASE queue' = Append(queue, arg) /\ accepted' = Append(accepted, arg.id)
    <3>1. OnTheWay(queue', item) = OnTheWay(queue, item) \union {arg.id}
      BY <1>b, <2>1, <2>3, WayAppend
    <3>2. Members(accepted') = Members(accepted) \union {arg.id}
      BY <1>b, <2>1, <2>3, MembersAppend
    <3>3. UNCHANGED <<disk, item, lastError>>
      BY <1>3 DEF TrySend
    <3> QED BY <1>a, <1>c, <3>1, <3>2, <3>3 DEF KInv, Kept
  <2> QED BY <1>3, <2>2, <2>3 DEF TrySend
<1>4. ASSUME NEW d \in Sessions, Seal(d) PROVE KInv'
  BY <1>d, <1>4 DEF Seal
<1>5. CASE SendSeal
  <2>1. arg \in Seals /\ arg \in Message /\ arg \notin Segment
    BY <1>5, <1>a, <1>b DEF SendSeal, Calls
  <2>2. queue' = queue \/ queue' = Append(queue, arg)
    BY <1>5 DEF SendSeal
  <2>3. OnTheWay(queue', item) = OnTheWay(queue, item)
    <3>1. CASE queue' = queue
      BY <3>1
    <3>2. CASE queue' = Append(queue, arg)
      <4>1. OnTheWay(Append(queue, arg), item) = OnTheWay(queue, item)
        BY <1>b, <2>1, WayAppend
      <4> QED BY <3>2, <4>1
    <3> QED BY <2>2, <3>1, <3>2
  <2> QED BY <1>5, <1>e, <2>3 DEF SendSeal
<1>6. CASE Sealed \/ SealUnanswered \/ Shutdown \/ Closed \/ RecvEnd
  BY <1>d, <1>6 DEF Sealed, SealUnanswered, Shutdown, Closed, RecvEnd
<1>8. CASE Recv
  <2>1. item = NoItem /\ queue # <<>> /\ item' = Head(queue) /\ queue' = Tail(queue)
        /\ UNCHANGED <<disk, accepted, lastError>>
    BY <1>8, <1>a DEF Recv, Hand
  <2>2. OnTheWay(queue', item') = OnTheWay(queue, item)
    BY <1>b, <2>1, WayTail
  <2> QED BY <1>e, <2>1, <2>2
<1>9. CASE Rotate
  <2>1. UNCHANGED <<queue, item, accepted>> /\ (lastError => lastError')
    BY <1>9 DEF Rotate, GiveUp
  <2>2. AddsFile(dir) \/ disk' = disk
    BY <1>9, <1>a, DiskSteps
  <2>3. OnDisk(disk') = OnDisk(disk)
    BY <1>c, <2>2, OnDiskSteps
  <2> QED BY <1>e, <2>1, <2>3
<1>10. CASE Write
  <2>1. /\ item' = NoItem /\ UNCHANGED <<queue, accepted>>
        /\ item \in Segment /\ item.id \in Line /\ item.id \in Ids /\ item.size \in Nat
        /\ Torn \in Line /\ 0 \in Nat
    BY <1>10, <1>a, <1>b, DiskSteps DEF Write
  <2>2. /\ OnTheWay(queue, item) = OnTheWay(queue, NoItem) \union {item.id}
        /\ OnTheWay(queue', item') = OnTheWay(queue, NoItem)
    BY <2>1, WayItem
  <2>3. CASE AddsLine(dir, item.id, item.size) /\ lastError' = lastError
    <3>1. OnDisk(disk') = OnDisk(disk) \union {item.id}
      BY <1>c, <2>1, <2>3, OnDiskSteps
    <3> QED BY <1>a, <1>c, <2>1, <2>2, <2>3, <3>1 DEF KInv, Kept
  <2>4. CASE (disk' = disk \/ AddsLine(dir, item.id, 0) \/ AddsLine(dir, Torn, 0)) /\ GiveUp
    <3>1. OnDisk(disk') \subseteq OnDisk(disk) \union {item.id}
      <4>1. CASE disk' = disk
        BY <4>1
      <4>2. CASE AddsLine(dir, item.id, 0)
        <5>1. OnDisk(disk') = OnDisk(disk) \union ({item.id} \intersect Ids)
          BY <1>c, <2>1, <4>2, OnDiskSteps
        <5> QED BY <5>1
      <4>3. CASE AddsLine(dir, Torn, 0)
        <5>1. OnDisk(disk') = OnDisk(disk) \union ({Torn} \intersect Ids)
          BY <1>c, <2>1, <4>3, OnDiskSteps
        <5> QED BY <5>1, Constants
      <4> QED BY <2>4, <4>1, <4>2, <4>3
    <3> QED BY <1>a, <1>c, <2>1, <2>2, <2>4, <3>1 DEF KInv, Kept, GiveUp
  <2> QED BY <1>10, <1>a, <2>3, <2>4, DiskSteps
<1>11. CASE SealOpens
  <2> DEFINE e == item.dir
  <2>1. /\ e \in Sessions /\ disk[e] = <<>> /\ item \notin Segment /\ item' = NoItem
        /\ UNCHANGED <<queue, accepted, lastError>>
    BY <1>11, <1>a, <1>b, DiskSteps DEF SealOpens
  <2>2. OnTheWay(queue', item') = OnTheWay(queue, item)
    BY <2>1, WayItem
  <2>3. \/ AddsSession(e, HeaderOnly)
        \/ \E file \in File : AddsSession(e, file)
                              /\ \A i \in 1 .. Len(file.lines) : file.lines[i] \in {Header, Torn}
    BY <1>11, <1>a, DiskSteps
  <2>4. HeaderOnly \in File /\ \A i \in 1 .. Len(HeaderOnly.lines) : HeaderOnly.lines[i] \in {Header, Torn}
    BY HeaderOnlyIs
  <2> HIDE DEF e
  <2>5. OnDisk(disk') = OnDisk(disk)
    BY <1>c, <2>1, <2>3, <2>4, OnDiskSteps
  <2> QED BY <1>e, <2>1, <2>2, <2>5
<1>12. CASE SealFails
  <2>1. /\ item \notin Segment /\ item' = NoItem
        /\ UNCHANGED <<disk, queue, accepted, lastError>>
    BY <1>12, <1>a, <1>b DEF SealFails, Hand
  <2>2. OnTheWay(queue', item') = OnTheWay(queue, item)
    BY <2>1, WayItem
  <2> QED BY <1>e, <2>1, <2>2
<1>13. CASE Flush
  <2>1. /\ pc = "flush" /\ queue' = <<>> /\ item' = NoItem /\ lastError' \in {lastError, TRUE}
        /\ UNCHANGED <<disk, accepted>>
    BY <1>13 DEF Flush
  <2>2. OnTheWay(queue', item') = {}
    BY <2>1, WayEmpty
  <2>3. ~lastError => OnTheWay(queue, item) = {}
    BY <1>a, <2>1, WayEmpty DEF Calls, Ended
  <2> QED BY <1>a, <1>b, <1>c, <2>1, <2>2, <2>3 DEF KInv, Kept
<1> QED BY <1>1, <1>2, <1>3, <1>4, <1>5, <1>6, <1>8, <1>9, <1>10, <1>11, <1>12, <1>13
        DEF Next, Writer, Calling

\* Whatever fails, a segment for which record_segment said Ok is on disk, on the
\* way, or there is an error to report; a shutdown that says Ok has lost nothing
\* (recorder.rs:269-290, 363-376).
THEOREM LossReported == Spec => []LossIsReported
<1>1. KInv => LossIsReported
  <2> SUFFICES ASSUME KInv PROVE LossIsReported
    OBVIOUS
  <2>1. /\ Written = OnDisk(disk) /\ Pending = OnTheWay(queue, item)
        /\ Accepted = Members(accepted)
    BY Named
  <2>2. caller = "closed" => ~lastError /\ OnTheWay(queue, item) = {}
    BY WayEmpty DEF KInv, CInv, Calls
  <2> QED BY <2>1, <2>2 DEF KInv, Kept, LossIsReported
<1> QED BY KInit, KStep, <1>1, PTL DEF Spec

-----------------------------------------------------------------------------
(* What the files look like.                                               *)

LastFile == disk[dir][Len(disk[dir])]

\* While the writer works, its counter is the size of the open file.
Measured ==
  /\ ~Ended => LastFile.size = segBytes /\ (segBytes = 0 => Len(LastFile.lines) = 0)
  /\ pc = "write" => segBytes = 0

\* While the writer works, the session in use has no torn line.
Whole ==
  /\ ~Ended => \A k, i : Has(disk, dir, k, i) => At(disk, dir, k, i) # Torn
  /\ \A d, k, i : Has(disk, d, k, i) /\ At(disk, d, k, i) = Torn =>
       k = Len(disk[d]) /\ i = Len(disk[d][k].lines)
  /\ Has(disk, dir, 1, 1) /\ At(disk, dir, 1, 1) = Header

Capped ==
  Cap > 0 =>
    \A d \in Sessions : \A k \in 1 .. Len(disk[d]) :
      disk[d][k].size > Cap => Len(disk[d][k].lines) = 1

FInv == CInv /\ Measured /\ Whole /\ Capped

LEMMA FInit == Init => FInv
<1> SUFFICES ASSUME Init PROVE FInv
  OBVIOUS
<1>1. /\ dir = 1 /\ 1 \in Sessions /\ disk[1] = <<HeaderOnly>> /\ pc = "recv" /\ segBytes = HeaderSize
      /\ \A d \in Sessions \ {1} : disk[d] = <<>>
  BY Constants DEF Init, Sessions
<1>2. /\ Len(disk[1]) = 1 /\ disk[1][1] = HeaderOnly /\ HeaderOnly.size = HeaderSize
      /\ Len(HeaderOnly.lines) = 1 /\ HeaderOnly.lines[1] = Header
  BY <1>1, OneIs, HeaderOnlyIs
<1>3. \A d \in Sessions \ {1} : Len(disk[d]) = 0
  BY <1>1, EmptyIs
<1>0. \A k \in 1 .. 1 : k = 1
  OBVIOUS
<1>4. \A d, k, i : Has(disk, d, k, i) => d = 1 /\ k = 1 /\ i = 1 /\ At(disk, d, k, i) = Header
  <2> SUFFICES ASSUME NEW d, NEW k, NEW i, Has(disk, d, k, i)
               PROVE  d = 1 /\ k = 1 /\ i = 1 /\ At(disk, d, k, i) = Header
    OBVIOUS
  <2>1. d \in Sessions /\ k \in 1 .. Len(disk[d]) /\ i \in 1 .. Len(disk[d][k].lines)
    BY DEF Has
  <2>2. ASSUME d # 1 PROVE FALSE
    <3>1. Len(disk[d]) = 0
      BY <1>3, <2>1, <2>2
    <3> QED BY <2>1, <3>1
  <2>3. k = 1
    <3>1. k \in 1 .. 1
      BY <1>2, <2>1, <2>2
    <3> QED BY <1>0, <3>1
  <2>4. i = 1
    <3>1. i \in 1 .. 1
      BY <1>2, <2>1, <2>2, <2>3
    <3> QED BY <1>0, <3>1
  <2> QED BY <1>2, <2>2, <2>3, <2>4 DEF At
<1>5. Has(disk, 1, 1, 1) /\ At(disk, 1, 1, 1) = Header
  BY <1>1, <1>2 DEF Has, At
<1>6. Measured
  BY <1>1, <1>2, Constants DEF Measured, LastFile
<1>7. Whole
  BY <1>1, <1>4, <1>5, Constants DEF Whole
<1>8. Capped
  <2> SUFFICES ASSUME NEW d \in Sessions, NEW k \in 1 .. Len(disk[d]) PROVE Len(disk[d][k].lines) = 1
    BY DEF Capped
  <2>1. ASSUME d # 1 PROVE FALSE
    <3>1. Len(disk[d]) = 0
      BY <1>3, <2>1
    <3> QED BY <3>1
  <2>2. k = 1
    <3>1. k \in 1 .. 1
      BY <1>2, <2>1
    <3> QED BY <1>0, <3>1
  <2> QED BY <1>2, <2>1, <2>2
<1> QED BY <1>6, <1>7, <1>8, CInit DEF FInv

\* A line is written, whole or torn, or not counted.
LEMMA FWrite ==
  ASSUME FInv, Write, NEW line \in Line, NEW size \in Nat, AddsLine(dir, line, size), CInv',
         \/ size = item.size /\ line \in Ids /\ segBytes' = segBytes + item.size
         \/ size = 0 /\ Ended'
  PROVE  Measured' /\ Whole' /\ Capped'
<1> DEFINE last == Len(disk[dir])
           file == disk[dir][last]
<1>a. /\ TypeOK /\ Hand /\ disk \in Disk /\ dir \in Sessions /\ disk[dir] # <<>> /\ segBytes \in Nat
      /\ ~Ended /\ dir' = dir /\ pc' \in {"recv", "flush"}
      /\ Measured /\ Whole /\ Capped
      /\ item \in Segment /\ item.size \in Nat /\ item.size > 0 /\ Cap \in Nat
  <2>1. item \in Segment
    BY DEF FInv, CInv, Hand, Write
  <2> QED BY <2>1, TypeIs, Apart, Constants DEF FInv, CInv, Write, Ended, GiveUp
<1>b. segBytes = 0 \/ Cap = 0 \/ segBytes + item.size <= Cap
  BY <1>a DEF Write, NeedsNextFile, Measured
<1>1. /\ disk' \in Disk
      /\ \A d \in Sessions : Len(disk'[d]) = Len(disk[d])
      /\ \A d \in Sessions \ {dir} : disk'[d] = disk[d]
      /\ \A k \in 1 .. last - 1 : disk'[dir][k] = disk[dir][k]
      /\ disk'[dir][last] = Longer(file, line, size)
      /\ last \in 1 .. last /\ file \in File
  BY <1>a, LineAdded
<1>2. /\ Len(file.lines) \in Nat /\ file.size \in Nat /\ last \in Nat
  BY <1>a, <1>1, DiskIs
<1>3. /\ disk'[dir][last].size = file.size + size
      /\ Len(disk'[dir][last].lines) = Len(file.lines) + 1
  BY <1>1, LongerIs
<1>4. /\ file.size = segBytes /\ (segBytes = 0 => Len(file.lines) = 0)
  BY <1>a DEF Measured, LastFile
<1>5. /\ \A d, k, i : Has(disk, d, k, i) =>
           Has(disk', d, k, i) /\ At(disk', d, k, i) = At(disk, d, k, i)
      /\ \A d, k, i : Has(disk', d, k, i) =>
           \/ Has(disk, d, k, i) /\ At(disk', d, k, i) = At(disk, d, k, i)
           \/ d = dir /\ k = last /\ i = Len(file.lines) + 1 /\ At(disk', d, k, i) = line
  BY <1>a, LinePlaces
<1> HIDE DEF file, last
<1>0. last = Len(disk[dir]) /\ file = disk[dir][last]
  BY DEF file, last
<1>6. Measured'
  <2>1. CASE Ended'
    BY <1>a, <2>1 DEF Measured, Ended
  <2>2. CASE size = item.size /\ segBytes' = segBytes + item.size
    <3>1. disk'[dir'][Len(disk'[dir'])].size = segBytes' /\ segBytes' # 0 /\ pc' # "write"
      BY <1>a, <1>0, <1>1, <1>2, <1>3, <1>4, <2>2
    <3> QED BY <3>1 DEF Measured, LastFile
  <2> QED BY <2>1, <2>2
<1>7. Whole'
  <2>1. ASSUME ~Ended', NEW k, NEW i, Has(disk', dir, k, i) PROVE At(disk', dir, k, i) # Torn
    BY <1>a, <1>5, <2>1, Constants DEF Whole
  <2>2. ASSUME NEW d, NEW k, NEW i, Has(disk', d, k, i), At(disk', d, k, i) = Torn
        PROVE  k = Len(disk'[d]) /\ i = Len(disk'[d][k].lines)
    <3>1. CASE d = dir
      <4>1. k = last /\ i = Len(file.lines) + 1
        BY <1>a, <1>5, <2>2, <3>1 DEF Whole
      <4> QED BY <1>a, <1>0, <1>1, <1>3, <3>1, <4>1
    <3>2. CASE d # dir
      <4>1. Has(disk, d, k, i) /\ At(disk, d, k, i) = Torn /\ d \in Sessions
        BY <1>5, <2>2, <3>2 DEF Has
      <4>2. k = Len(disk[d]) /\ i = Len(disk[d][k].lines)
        BY <1>a, <4>1 DEF Whole
      <4> QED BY <1>1, <3>2, <4>1, <4>2
    <3> QED BY <3>1, <3>2
  <2>3. Has(disk', dir, 1, 1) /\ At(disk', dir, 1, 1) = Header
    BY <1>a, <1>5 DEF Whole
  <2> QED BY <1>a, <2>1, <2>2, <2>3 DEF Whole
<1>8. Capped'
  <2> SUFFICES ASSUME Cap > 0, NEW d \in Sessions, NEW k \in 1 .. Len(disk'[d]), disk'[d][k].size > Cap
               PROVE  Len(disk'[d][k].lines) = 1
    BY DEF Capped
  <2>1. k \in 1 .. Len(disk[d])
    BY <1>1
  <2>2. CASE d # dir
    <3>1. disk'[d] = disk[d]
      BY <1>1, <2>2
    <3> QED BY <1>a, <2>1, <3>1 DEF Capped
  <2>3. CASE d = dir /\ k # last
    <3>1. disk'[d][k] = disk[d][k]
      BY <1>0, <1>1, <1>2, <2>1, <2>3
    <3> QED BY <1>a, <2>1, <3>1 DEF Capped
  <2>4. CASE d = dir /\ k = last
    <3>1. file.size + size > Cap
      BY <1>3, <2>4
    <3>2. segBytes = 0
      BY <1>a, <1>b, <1>4, <3>1
    <3>3. Len(file.lines) = 0
      BY <1>4, <3>2
    <3>4. disk'[d][k].lines = disk'[dir][last].lines
      BY <2>4
    <3>5. Len(disk'[dir][last].lines) = 1
      BY <1>3, <3>3
    <3> QED BY <3>4, <3>5
  <2> QED BY <2>2, <2>3, <2>4
<1> QED BY <1>6, <1>7, <1>8

\* The next file is empty, and so is the counter.
LEMMA FRotate ==
  ASSUME FInv, Rotate, AddsFile(dir), segBytes' = 0, CInv'
  PROVE  Measured' /\ Whole' /\ Capped'
<1> DEFINE last == Len(disk[dir])
<1>a. /\ disk \in Disk /\ dir \in Sessions /\ last \in Nat /\ last > 0 /\ dir' = dir /\ ~Ended
      /\ Measured /\ Whole /\ Capped
  <2>1. disk \in Disk /\ dir \in Sessions /\ disk[dir] # <<>>
    BY TypeIs DEF FInv, CInv
  <2>2. last \in Nat /\ last > 0
    BY <2>1, DiskIs
  <2> QED BY <2>1, <2>2 DEF FInv, Rotate, Ended
<1>1. /\ \A d \in Sessions \ {dir} : disk'[d] = disk[d]
      /\ Len(disk'[dir]) = last + 1
      /\ \A k \in 1 .. last : disk'[dir][k] = disk[dir][k]
      /\ disk'[dir][last + 1] = Empty
      /\ Empty.size = 0 /\ Len(Empty.lines) = 0
  BY <1>a, FileAdded
<1>2. /\ \A d, k, i : Has(disk, d, k, i) <=> Has(disk', d, k, i)
      /\ \A d, k, i : Has(disk, d, k, i) => At(disk', d, k, i) = At(disk, d, k, i)
  BY <1>a, FilePlaces
<1>3. Measured'
  <2>1. disk'[dir'][Len(disk'[dir'])].size = 0 /\ Len(disk'[dir'][Len(disk'[dir'])].lines) = 0
    BY <1>a, <1>1
  <2> QED BY <2>1 DEF Measured, LastFile
<1> HIDE DEF last
<1>4. Whole'
  <2>1. \A k, i : Has(disk', dir, k, i) => At(disk', dir, k, i) # Torn
    BY <1>a, <1>2 DEF Whole
  <2>2. ASSUME NEW d, NEW k, NEW i, Has(disk', d, k, i), At(disk', d, k, i) = Torn
        PROVE  k = Len(disk'[d]) /\ i = Len(disk'[d][k].lines)
    <3>1. Has(disk, d, k, i) /\ At(disk, d, k, i) = Torn /\ d # dir /\ d \in Sessions
      BY <1>2, <2>1, <2>2 DEF Has
    <3>2. k = Len(disk[d]) /\ i = Len(disk[d][k].lines)
      BY <1>a, <3>1 DEF Whole
    <3> QED BY <1>1, <3>1, <3>2
  <2>3. Has(disk', dir, 1, 1) /\ At(disk', dir, 1, 1) = Header
    BY <1>a, <1>2 DEF Whole
  <2> QED BY <1>a, <2>1, <2>2, <2>3 DEF Whole
<1>5. Capped'
  <2> SUFFICES ASSUME Cap > 0, NEW d \in Sessions, NEW k \in 1 .. Len(disk'[d]), disk'[d][k].size > Cap
               PROVE  Len(disk'[d][k].lines) = 1
    BY DEF Capped
  <2>1. CASE d # dir
    <3>1. disk'[d] = disk[d]
      BY <1>1, <2>1
    <3> QED BY <1>a, <3>1 DEF Capped
  <2>2. CASE d = dir /\ k # last + 1
    <3>1. k \in 1 .. last /\ last = Len(disk[dir])
      BY <1>a, <1>1, <2>2 DEF last
    <3>2. disk'[d][k] = disk[d][k]
      BY <1>1, <2>2, <3>1
    <3> QED BY <1>a, <2>2, <3>1, <3>2 DEF Capped
  <2>3. CASE d = dir /\ k = last + 1
    BY <1>1, <2>3, Constants
  <2> QED BY <2>1, <2>2, <2>3
<1> QED BY <1>3, <1>4, <1>5

\* The first file of another session, in use only if its header is whole.
LEMMA FSealOpens ==
  ASSUME FInv, SealOpens, NEW e \in Sessions, NEW file \in File,
         disk[e] = <<>>, AddsSession(e, file), CInv', Len(file.lines) <= 1,
         \A i \in 1 .. Len(file.lines) : file.lines[i] \in {Header, Torn},
         \/ file = HeaderOnly /\ dir' = e /\ segBytes' = HeaderSize
         \/ file.size = 0 /\ dir' = dir /\ segBytes' = segBytes
  PROVE  Measured' /\ Whole' /\ Capped'
<1>a. /\ disk \in Disk /\ dir \in Sessions /\ dir # e /\ ~Ended /\ pc' = "recv"
      /\ Measured /\ Whole /\ Capped
      /\ HeaderSize \in Nat /\ HeaderSize > 0 /\ Header # Torn
  BY TypeIs, Constants DEF FInv, CInv, SealOpens, Ended
<1>b. /\ HeaderOnly.size = HeaderSize /\ Len(HeaderOnly.lines) = 1 /\ HeaderOnly.lines[1] = Header
  BY HeaderOnlyIs
<1>1. /\ \A d \in Sessions \ {e} : disk'[d] = disk[d]
      /\ Len(disk'[e]) = 1 /\ disk'[e][1] = file
  BY <1>a, SessionAdded
<1>2. /\ \A d, k, i : Has(disk, d, k, i) =>
           d # e /\ Has(disk', d, k, i) /\ At(disk', d, k, i) = At(disk, d, k, i)
      /\ \A d, k, i : Has(disk', d, k, i) =>
           \/ Has(disk, d, k, i) /\ At(disk', d, k, i) = At(disk, d, k, i)
           \/ /\ d = e /\ k = 1 /\ Len(disk'[e]) = 1 /\ disk'[e][1] = file
              /\ i \in 1 .. Len(file.lines) /\ At(disk', d, k, i) = file.lines[i]
  BY <1>a, SessionPlaces
<1>3. Len(file.lines) \in Nat
  BY SeqIs DEF File
<1>c. \A i \in 1 .. 1 : i = 1
  OBVIOUS
<1>4. Measured'
  <2>1. CASE file = HeaderOnly /\ dir' = e /\ segBytes' = HeaderSize
    <3>1. LastFile' = HeaderOnly
      BY <1>1, <2>1 DEF LastFile
    <3> QED BY <1>a, <1>b, <2>1, <3>1 DEF Measured
  <2>2. CASE dir' = dir /\ segBytes' = segBytes
    <3>1. LastFile' = LastFile
      BY <1>a, <1>1, <2>2 DEF LastFile
    <3> QED BY <1>a, <2>2, <3>1 DEF Measured
  <2> QED BY <2>1, <2>2
<1>5. Whole'
  <2>1. CASE file = HeaderOnly /\ dir' = e
    <3>1. \A k, i : Has(disk', e, k, i) => At(disk', e, k, i) # Torn
      <4> SUFFICES ASSUME NEW k, NEW i, Has(disk', e, k, i) PROVE At(disk', e, k, i) # Torn
        OBVIOUS
      <4>1. i \in 1 .. 1 /\ At(disk', e, k, i) = HeaderOnly.lines[i]
        BY <1>2, <1>b, <2>1
      <4>2. i = 1
        BY <4>1, <1>c
      <4> QED BY <1>a, <1>b, <4>1, <4>2
    <3>2. \A d, k, i : Has(disk', d, k, i) /\ At(disk', d, k, i) = Torn =>
            k = Len(disk'[d]) /\ i = Len(disk'[d][k].lines)
      <4> SUFFICES ASSUME NEW d, NEW k, NEW i, Has(disk', d, k, i), At(disk', d, k, i) = Torn
                   PROVE  k = Len(disk'[d]) /\ i = Len(disk'[d][k].lines)
        OBVIOUS
      <4>1. d # e /\ d \in Sessions /\ Has(disk, d, k, i) /\ At(disk, d, k, i) = Torn
        BY <1>2, <3>1 DEF Has
      <4>2. k = Len(disk[d]) /\ i = Len(disk[d][k].lines)
        BY <1>a, <4>1 DEF Whole
      <4> QED BY <1>1, <4>1, <4>2
    <3>3. Has(disk', e, 1, 1) /\ At(disk', e, 1, 1) = Header
      BY <1>1, <1>b, <2>1 DEF Has, At
    <3> QED BY <2>1, <3>1, <3>2, <3>3 DEF Whole
  <2>2. CASE dir' = dir
    <3>1. \A k, i : Has(disk', dir, k, i) => At(disk', dir, k, i) # Torn
      BY <1>a, <1>2 DEF Whole
    <3>2. \A d, k, i : Has(disk', d, k, i) /\ At(disk', d, k, i) = Torn =>
            k = Len(disk'[d]) /\ i = Len(disk'[d][k].lines)
      <4> SUFFICES ASSUME NEW d, NEW k, NEW i, Has(disk', d, k, i), At(disk', d, k, i) = Torn
                   PROVE  k = Len(disk'[d]) /\ i = Len(disk'[d][k].lines)
        OBVIOUS
      <4>1. CASE Has(disk, d, k, i) /\ At(disk', d, k, i) = At(disk, d, k, i)
        <5>1. d # e /\ d \in Sessions
          BY <1>2, <4>1 DEF Has
        <5>2. k = Len(disk[d]) /\ i = Len(disk[d][k].lines)
          BY <1>a, <4>1 DEF Whole
        <5> QED BY <1>1, <5>1, <5>2
      <4>2. CASE /\ d = e /\ k = 1 /\ i \in 1 .. Len(file.lines)
        <5>0. \A n \in Nat : n <= 1 => (\A j \in 1 .. n : n = 1 /\ j = 1)
          OBVIOUS
        <5>1. Len(file.lines) = 1 /\ i = 1
          BY <1>3, <4>2, <5>0
        <5> QED BY <1>1, <4>2, <5>1
      <4> QED BY <1>2, <4>1, <4>2
    <3>3. Has(disk', dir, 1, 1) /\ At(disk', dir, 1, 1) = Header
      BY <1>a, <1>2 DEF Whole
    <3> QED BY <2>2, <3>1, <3>2, <3>3 DEF Whole
  <2> QED BY <2>1, <2>2
<1>6. Capped'
  <2> SUFFICES ASSUME Cap > 0, NEW d \in Sessions, NEW k \in 1 .. Len(disk'[d]), disk'[d][k].size > Cap
               PROVE  Len(disk'[d][k].lines) = 1
    BY DEF Capped
  <2>1. CASE d # e
    <3>1. disk'[d] = disk[d]
      BY <1>1, <2>1
    <3> QED BY <1>a, <3>1 DEF Capped
  <2>2. CASE d = e
    <3>1. k = 1
      BY <1>1, <1>c, <2>2
    <3>2. disk'[d][k] = file
      BY <1>1, <2>2, <3>1
    <3> QED BY <1>b, <3>2, Constants
  <2> QED BY <2>1, <2>2
<1> QED BY <1>4, <1>5, <1>6

LEMMA FStep == FInv /\ [Next]_vars => FInv'
<1> SUFFICES ASSUME FInv, [Next]_vars PROVE Measured' /\ Whole' /\ Capped'
  BY CStep DEF FInv
<1> USE DEF vars, writerVars, handleVars
<1>a. TypeOK /\ Hand /\ Calls /\ Measured /\ Whole /\ Capped /\ CInv'
  BY CStep DEF FInv, CInv
\* The disk stays, and the writer goes no way but on.
<1>b. ASSUME UNCHANGED <<disk, dir, segBytes>>, Ended => Ended', pc' = "write" => pc = "write"
      PROVE  Measured' /\ Whole' /\ Capped'
  BY <1>a, <1>b DEF Measured, LastFile, Whole, Capped, Has, At
<1>1. CASE Write
  <2>0. item.size > 0 /\ item.id \in Ids /\ 0 \in Nat
    BY <1>1, <1>a, Apart, Constants DEF Write, Hand
  <2>1. /\ item \in Segment /\ item.id \in Line /\ item.size \in Nat /\ Torn \in Line
        /\ \/ /\ AddsLine(dir, item.id, item.size)
              /\ segBytes' = segBytes + item.size /\ pc' = "recv" /\ lastError' = lastError
           \/ disk' = disk /\ GiveUp
           \/ AddsLine(dir, item.id, 0) /\ GiveUp
           \/ AddsLine(dir, Torn, 0) /\ GiveUp
    BY <1>1, <1>a, DiskSteps
  <2>2. GiveUp => Ended'
    BY DEF GiveUp, Ended
  <2>3. CASE AddsLine(dir, item.id, item.size) /\ segBytes' = segBytes + item.size
    <3> DEFINE line == item.id
               size == item.size
    <3>1. line \in Line /\ size \in Nat /\ line \in Ids /\ segBytes' = segBytes + item.size
          /\ size = item.size /\ AddsLine(dir, line, size)
      BY <2>0, <2>1, <2>3
    <3> HIDE DEF line, size
    <3> QED BY <1>1, <1>a, <3>1, FWrite
  <2>4. CASE disk' = disk /\ GiveUp
    BY <1>1, <1>b, <2>2, <2>4 DEF Write, GiveUp
  <2>5. CASE AddsLine(dir, item.id, 0) /\ GiveUp
    <3> DEFINE line == item.id
    <3>1. line \in Line /\ AddsLine(dir, line, 0)
      BY <2>1, <2>5
    <3> HIDE DEF line
    <3> QED BY <1>1, <1>a, <2>0, <2>2, <2>5, <3>1, FWrite
  <2>6. CASE AddsLine(dir, Torn, 0) /\ GiveUp
    BY <1>1, <1>a, <2>0, <2>1, <2>2, <2>6, FWrite
  <2> QED BY <2>1, <2>3, <2>4, <2>5, <2>6
<1>2. CASE Rotate
  <2>1. \/ AddsFile(dir) /\ segBytes' = 0
        \/ UNCHANGED <<disk, segBytes>> /\ GiveUp
    BY <1>2, <1>a, DiskSteps
  <2>2. CASE AddsFile(dir) /\ segBytes' = 0
    BY <1>2, <1>a, <2>2, FRotate
  <2>3. CASE UNCHANGED <<disk, segBytes>> /\ GiveUp
    BY <1>2, <1>b, <2>3 DEF Rotate, GiveUp, Ended
  <2> QED BY <2>1, <2>2, <2>3
<1>3. CASE SealOpens
  <2> DEFINE e == item.dir
  <2>1. e \in Sessions /\ disk[e] = <<>>
    BY <1>3, <1>a, DiskSteps
  <2>2. \/ AddsSession(e, HeaderOnly) /\ dir' = e /\ segBytes' = HeaderSize
        \/ /\ \E file \in File :
                /\ AddsSession(e, file) /\ file.size = 0
                /\ Len(file.lines) <= 1
                /\ \A i \in 1 .. Len(file.lines) : file.lines[i] \in {Header, Torn}
           /\ UNCHANGED <<dir, segBytes>>
    BY <1>3, <1>a, DiskSteps
  <2> HIDE DEF e
  <2>3. /\ HeaderOnly \in File /\ Len(HeaderOnly.lines) <= 1
        /\ \A i \in 1 .. Len(HeaderOnly.lines) : HeaderOnly.lines[i] \in {Header, Torn}
    BY HeaderOnlyIs
  <2>4. CASE AddsSession(e, HeaderOnly) /\ dir' = e /\ segBytes' = HeaderSize
    BY <1>3, <1>a, <2>1, <2>3, <2>4, FSealOpens
  <2>5. ASSUME NEW file \in File, AddsSession(e, file), file.size = 0, Len(file.lines) <= 1,
               \A i \in 1 .. Len(file.lines) : file.lines[i] \in {Header, Torn},
               UNCHANGED <<dir, segBytes>>
        PROVE  Measured' /\ Whole' /\ Capped'
    BY <1>3, <1>a, <2>1, <2>5, FSealOpens
  <2> QED BY <2>2, <2>4, <2>5
<1>4. CASE Flush
  BY <1>4, <1>b DEF Flush, Ended
<1>5. CASE Recv \/ RecvEnd \/ SealFails
  BY <1>5, <1>b DEF Recv, RecvEnd, SealFails, Ended
<1>6. CASE Calling \/ Shutdown \/ (\E size \in Sizes : Record(size)) \/ (\E d \in Sessions : Seal(d))
  BY <1>6, <1>b DEF Calling, TrySend, SendSeal, Sealed, SealUnanswered, Closed, Shutdown, Record, Seal, Ended
<1>7. CASE UNCHANGED vars
  BY <1>7, <1>b DEF Ended
<1> QED BY <1>1, <1>2, <1>3, <1>4, <1>5, <1>6, <1>7 DEF Next, Writer

LEMMA FAlways == Spec => []FInv
BY FInit, FStep, PTL DEF Spec

\* Whatever fails, a torn line is the last of its session, and a session in use
\* starts with its header (recorder_writer.rs:133-151, recorder.rs:304).
THEOREM TornAtTheEnd == Spec => []OnlyTheLastLineIsTorn
<1>1. FInv => OnlyTheLastLineIsTorn
  <2> SUFFICES ASSUME FInv PROVE OnlyTheLastLineIsTorn
    OBVIOUS
  <2>1. disk \in Disk /\ dir \in Sessions /\ disk[dir] # <<>> /\ Whole
    BY TypeIs DEF FInv, CInv
  <2>2. /\ \A d \in Sessions : \A k \in 1 .. Len(disk[d]) : \A i \in 1 .. Len(Lines(d, k)) :
             Lines(d, k)[i] = Torn => k = Len(disk[d]) /\ i = Len(Lines(d, k))
    BY <2>1 DEF Whole, Has, At, Lines
  <2>3. Lines(dir, 1) # <<>> /\ Lines(dir, 1)[1] = Header
    <3>1. 1 \in 1 .. Len(disk[dir]) /\ 1 \in 1 .. Len(disk[dir][1].lines) /\ disk[dir][1].lines[1] = Header
      BY <2>1 DEF Whole, Has, At
    <3>2. disk[dir][1].lines # <<>>
      BY <2>1, <3>1, DiskIs, EmptyIs
    <3> QED BY <3>1, <3>2 DEF Lines
  <2> QED BY <2>1, <2>2, <2>3 DEF OnlyTheLastLineIsTorn
<1> QED BY FAlways, <1>1, PTL

\* A file passes the cap only with a single line (recorder.rs:40).
THEOREM WithinCap == Spec => []FilesWithinCap
<1>1. FInv => FilesWithinCap
  BY DEF FInv, Capped, FilesWithinCap, Lines
<1> QED BY FAlways, <1>1, PTL

-----------------------------------------------------------------------------
(* In which order, and in which session.                                   *)

\* Numbers grow along the queue, behind the segment in hand.
Rising(q) ==
  \A i, j \in 1 .. Len(q) :
    i < j /\ q[i] \in Segment /\ q[j] \in Segment => q[i].id < q[j].id
First(q, it) == it \in Segment => \A j \in 1 .. Len(q) : q[j] \in Segment => it.id < q[j].id

LEMMA RisingAppend ==
  ASSUME NEW q \in Seq(Message), NEW it, NEW m \in Message, Rising(q), First(q, it),
         m \in Segment => \A id \in OnTheWay(q, it) : id < m.id
  PROVE  Rising(Append(q, m)) /\ First(Append(q, m), it)
<1> DEFINE r == Append(q, m)
           n == Len(q)
<1>1. n \in Nat /\ Len(r) = n + 1 /\ (\A i \in 1 .. n : r[i] = q[i]) /\ r[n + 1] = m
  BY AppendIs, SeqIs
<1>2. /\ \A i \in 1 .. n : q[i] \in Segment => q[i].id \in OnTheWay(q, it)
      /\ it \in Segment => it.id \in OnTheWay(q, it)
  BY DEF OnTheWay
<1>3. /\ \A i, j \in 1 .. n : i < j /\ q[i] \in Segment /\ q[j] \in Segment => q[i].id < q[j].id
      /\ it \in Segment => \A j \in 1 .. n : q[j] \in Segment => it.id < q[j].id
  BY DEF Rising, First
<1> HIDE DEF r, n
<1>4. ASSUME NEW i \in 1 .. n + 1, NEW j \in 1 .. n + 1, i < j, r[i] \in Segment, r[j] \in Segment
      PROVE  r[i].id < r[j].id
  <2>1. i \in 1 .. n /\ r[i] = q[i]
    BY <1>1, <1>4
  <2>2. CASE j \in 1 .. n
    <3>1. r[j] = q[j]
      BY <1>1, <2>2
    <3> QED BY <1>3, <1>4, <2>1, <2>2, <3>1
  <2>3. CASE j = n + 1
    BY <1>1, <1>2, <1>4, <2>1, <2>3
  <2> QED BY <1>1, <2>2, <2>3
<1>5. ASSUME it \in Segment, NEW j \in 1 .. n + 1, r[j] \in Segment PROVE it.id < r[j].id
  <2>1. CASE j \in 1 .. n
    BY <1>1, <1>3, <1>5, <2>1
  <2>2. CASE j = n + 1
    BY <1>1, <1>2, <1>5, <2>2
  <2> QED BY <1>1, <2>1, <2>2
<1>6. Rising(r) /\ First(r, it)
  BY <1>1, <1>4, <1>5 DEF Rising, First
<1> QED BY <1>6 DEF r

LEMMA RisingTail ==
  ASSUME NEW q \in Seq(Message), q # <<>>, Rising(q)
  PROVE  Rising(Tail(q)) /\ First(Tail(q), Head(q))
<1> DEFINE r == Tail(q)
           n == Len(q)
           h == Head(q)
<1>1. /\ h = q[1] /\ n > 0 /\ n \in Nat /\ Len(r) = n - 1
      /\ \A i \in 1 .. n - 1 : r[i] = q[i + 1]
  BY TailIs, SeqIs
<1>2. \A i, j \in 1 .. n : i < j /\ q[i] \in Segment /\ q[j] \in Segment => q[i].id < q[j].id
  BY DEF Rising
<1> HIDE DEF r, n, h
<1>3. ASSUME NEW i \in 1 .. n - 1, NEW j \in 1 .. n - 1, i < j, r[i] \in Segment, r[j] \in Segment
      PROVE  r[i].id < r[j].id
  <2>1. /\ i + 1 \in 1 .. n /\ j + 1 \in 1 .. n /\ i + 1 < j + 1
        /\ r[i] = q[i + 1] /\ r[j] = q[j + 1]
    BY <1>1, <1>3
  <2> QED BY <1>2, <1>3, <2>1
<1>4. ASSUME h \in Segment, NEW j \in 1 .. n - 1, r[j] \in Segment PROVE h.id < r[j].id
  <2>1. 1 \in 1 .. n /\ j + 1 \in 1 .. n /\ 1 < j + 1 /\ r[j] = q[j + 1]
    BY <1>1
  <2> QED BY <1>1, <1>2, <1>4, <2>1
<1>5. Rising(r) /\ First(r, h)
  BY <1>1, <1>3, <1>4 DEF Rising, First
<1> QED BY <1>5 DEF r, h

LEMMA FirstIs ==
  ASSUME NEW q \in Seq(Message), NEW it
  PROVE  /\ it \notin Segment => First(q, it)
         /\ it \in Segment /\ First(q, it) => \A id \in OnTheWay(q, NoItem) : it.id < id
<1>1. NoItem \notin Segment
  BY Apart
<1> QED BY <1>1 DEF First, OnTheWay

\* Segments are numbered as they are given, and what was given last is the
\* greatest number anywhere.
Numbers ==
  /\ Len(homes) = next - 1
  /\ \A id \in OnDisk(disk) \union OnTheWay(queue, item) :
       id < next /\ (caller = "try_send" => id < arg.id)

\* While the writer works, what is on the way comes after what is on disk.
Order ==
  /\ Rising(queue) /\ First(queue, item)
  /\ ~Ended => \A id \in OnDisk(disk), m \in OnTheWay(queue, item) : id < m

\* What is on the way goes to the session it was given to.
AtHome ==
  /\ \A id \in OnTheWay(queue, item) : homes[id] = dir
  /\ caller = "try_send" => homes[arg.id] = dir

Placed == \A d, k, i : Has(disk, d, k, i) /\ At(disk, d, k, i) \in Ids => homes[At(disk, d, k, i)] = d

Sorted ==
  \A d, k, i, l, j :
    /\ Has(disk, d, k, i) /\ Has(disk, d, l, j)
    /\ At(disk, d, k, i) \in Ids /\ At(disk, d, l, j) \in Ids
    /\ k < l \/ (k = l /\ i < j)
    => At(disk, d, k, i) < At(disk, d, l, j)

OInv == CInv /\ Numbers /\ Order /\ AtHome /\ Placed /\ Sorted

LEMMA OInit == Init => OInv
<1> SUFFICES ASSUME Init PROVE OInv
  OBVIOUS
<1>1. /\ next = 1 /\ Len(homes) = 0 /\ caller = "idle" /\ queue = <<>> /\ item = NoItem
      /\ Len(queue) = 0
  BY EmptyIs DEF Init
<1>2. OnDisk(disk) = {}
  BY NothingYet
<1>3. OnTheWay(queue, item) = {}
  BY <1>1, WayEmpty
<1>4. \A d, k, i : Has(disk, d, k, i) => At(disk, d, k, i) \notin Ids
  BY <1>2 DEF OnDisk
<1>5. Numbers /\ AtHome
  BY <1>1, <1>2, <1>3 DEF Numbers, AtHome
<1>6. Order
  BY <1>1, <1>2, Apart DEF Order, Rising, First
<1>7. Placed /\ Sorted
  BY <1>4 DEF Placed, Sorted
<1> QED BY <1>5, <1>6, <1>7, CInit DEF OInv

\* A segment goes to the end of the session it was given to.
LEMMA OWrite ==
  ASSUME OInv, Write, CInv', NEW line \in Line, NEW size \in Nat, AddsLine(dir, line, size),
         line \in {item.id, Torn}
  PROVE  OInv'
<1>a. /\ TypeOK /\ Hand /\ disk \in Disk /\ dir \in Sessions /\ disk[dir] # <<>> /\ queue \in Seq(Message)
      /\ Numbers /\ Order /\ AtHome /\ Placed /\ Sorted /\ ~Ended
      /\ item' = NoItem
      /\ UNCHANGED <<queue, caller, arg, next, homes, dir>>
  BY TypeIs DEF OInv, CInv, Write, Ended, handleVars
<1>b. item \in Segment /\ item.id \in Ids /\ Torn \notin Ids
  BY <1>a, Apart, Constants DEF Write, Hand
<1> DEFINE last == Len(disk[dir])
           end == Len(disk[dir][last].lines) + 1
<1>1. /\ \A d, k, i : Has(disk, d, k, i) =>
           Has(disk', d, k, i) /\ At(disk', d, k, i) = At(disk, d, k, i)
      /\ \A d, k, i : Has(disk', d, k, i) =>
           \/ Has(disk, d, k, i) /\ At(disk', d, k, i) = At(disk, d, k, i)
           \/ d = dir /\ k = last /\ i = end /\ At(disk', d, k, i) = line
  BY <1>a, LinePlaces
<1>2. \A k, i : Has(disk, dir, k, i) => ~(last < k \/ (k = last /\ end < i))
  <2> SUFFICES ASSUME NEW k, NEW i, Has(disk, dir, k, i)
               PROVE  ~(last < k) /\ ~(k = last /\ end < i)
    OBVIOUS
  <2>1. last \in Nat /\ k \in 1 .. last /\ i \in 1 .. Len(disk[dir][k].lines)
        /\ Len(disk[dir][k].lines) \in Nat
    BY <1>a, DiskIs DEF Has
  <2> QED BY <2>1
<1>3. ~(last < last) /\ ~(end < end)
  <2>1. last \in Nat /\ last \in 1 .. last
    BY <1>a, DiskIs
  <2>2. end \in Nat
    BY SMTT(60), <1>a, <2>1, DiskIs
  <2> QED BY <2>1, <2>2
<1> HIDE DEF last, end
<1>4. OnDisk(disk') = OnDisk(disk) \union ({line} \intersect Ids)
  BY OnDiskSteps DEF OInv
<1>5. OnTheWay(queue, item) = OnTheWay(queue, NoItem) \union {item.id}
  BY <1>b, WayItem
<1>6. OnDisk(disk') \subseteq OnDisk(disk) \union {item.id}
  BY <1>b, <1>4
<1>7. \A id \in OnTheWay(queue, NoItem) : item.id < id
  BY <1>a, <1>b, FirstIs DEF Order
<1>8. Numbers'
  BY <1>a, <1>5, <1>6 DEF Numbers
<1>9. Order'
  <2>1. First(queue', item')
    BY <1>a, Apart, FirstIs
  <2>2. \A id \in OnDisk(disk'), m \in OnTheWay(queue', item') : id < m
    BY <1>a, <1>5, <1>6, <1>7 DEF Order
  <2> QED BY <1>a, <2>1, <2>2 DEF Order
<1>10. AtHome'
  BY <1>a, <1>5 DEF AtHome
<1>11. homes[item.id] = dir /\ \A id \in OnDisk(disk) : id < item.id
  BY <1>a, <1>5 DEF AtHome, Order
<1>12. Placed'
  BY <1>a, <1>b, <1>1, <1>11 DEF Placed
<1>13. Sorted'
  <2> SUFFICES ASSUME NEW d, NEW k, NEW i, NEW l, NEW j,
                      Has(disk', d, k, i), Has(disk', d, l, j),
                      At(disk', d, k, i) \in Ids, At(disk', d, l, j) \in Ids,
                      k < l \/ (k = l /\ i < j)
               PROVE  At(disk', d, k, i) < At(disk', d, l, j)
    BY DEF Sorted
  <2>1. CASE /\ Has(disk, d, k, i) /\ At(disk', d, k, i) = At(disk, d, k, i)
             /\ Has(disk, d, l, j) /\ At(disk', d, l, j) = At(disk, d, l, j)
    BY <1>a, <2>1 DEF Sorted
  <2>2. CASE /\ Has(disk, d, k, i) /\ At(disk', d, k, i) = At(disk, d, k, i)
             /\ d = dir /\ l = last /\ j = end /\ At(disk', d, l, j) = line
    <3>1. At(disk, d, k, i) \in OnDisk(disk)
      BY <2>2 DEF OnDisk
    <3>2. line = item.id
      BY <1>b, <2>2
    <3> QED BY <1>11, <2>2, <3>1, <3>2
  <2>3. ~(d = dir /\ k = last /\ i = end)
    <3> SUFFICES ASSUME d = dir, k = last, i = end PROVE FALSE
      OBVIOUS
    <3>1. Has(disk, dir, l, j) \/ (l = last /\ j = end)
      BY <1>1
    <3> QED BY <1>2, <1>3, <3>1
  <2> QED BY <1>1, <2>1, <2>2, <2>3
<1> QED BY <1>8, <1>9, <1>10, <1>12, <1>13 DEF OInv

LEMMA OStep == OInv /\ [Next]_vars => OInv'
<1> SUFFICES ASSUME OInv, [Next]_vars PROVE OInv'
  OBVIOUS
<1> USE DEF vars, writerVars, handleVars
<1>a. /\ TypeOK /\ Hand /\ Calls /\ CInv /\ CInv'
      /\ Numbers /\ Order /\ AtHome /\ Placed /\ Sorted
  BY CStep DEF OInv, CInv
<1>b. /\ disk \in Disk /\ dir \in Sessions /\ session \in Sessions /\ queue \in Seq(Message)
      /\ next \in 1 .. MaxSegments + 1 /\ next \in Nat /\ homes \in Seq(Sessions)
      /\ MaxSegments \in Nat
      /\ \A m \in Segment : m \in Message /\ m.id \in Ids
      /\ \A m \in Seals : m \in Message /\ m \notin Segment
      /\ NoItem \notin Segment
  BY <1>a, TypeIs, Apart, Constants DEF Message
\* The disk keeps its segments, and the numbers their sessions.
<1>c. ASSUME disk' = disk, homes' = homes PROVE Placed' /\ Sorted'
  BY <1>a, <1>c DEF Placed, Sorted, Has, At
<1>d. ASSUME UNCHANGED <<disk, queue, item, homes, next, dir>>,
             Ended => Ended', caller' # "try_send"
      PROVE  OInv'
  BY <1>a, <1>c, <1>d DEF OInv, Numbers, Order, AtHome
<1>1. CASE UNCHANGED vars
  <2>1. UNCHANGED <<disk, queue, item, homes, next, dir, caller, arg, pc>>
    BY <1>1
  <2> QED BY <1>a, <1>c, <2>1 DEF OInv, Numbers, Order, AtHome, Ended
<1>2. ASSUME NEW size \in Sizes, Record(size) PROVE OInv'
  <2>1. /\ caller = "idle" /\ next \in Ids /\ arg' = [id |-> next, size |-> size] /\ next' = next + 1
        /\ homes' = Append(homes, session) /\ session = dir
        /\ UNCHANGED <<disk, queue, item, dir, pc>>
    BY <1>2, <1>a, <1>b DEF Record, Calls, Ids
  <2>2. /\ Len(homes') = Len(homes) + 1
        /\ \A i \in 1 .. Len(homes) : homes'[i] = homes[i]
        /\ homes'[Len(homes) + 1] = session
    BY <1>b, <2>1, AppendIs
  <2>3. arg'.id = next /\ Len(homes) = next - 1
    BY <1>a, <2>1 DEF Numbers
  <2>4. \A id \in Ids : id < next => id \in 1 .. Len(homes) /\ id < next'
    BY <1>b, <2>1, <2>3 DEF Ids
  <2>5. homes'[next] = dir
    BY <1>b, <2>1, <2>2, <2>3
  <2>6. OnDisk(disk) \subseteq Ids /\ OnTheWay(queue, item) \subseteq Ids
    BY <1>b DEF OnDisk, OnTheWay
  <2>7. Numbers'
    <3>1. Len(homes') = next' - 1
      BY <1>b, <2>1, <2>2, <2>3
    <3> QED BY <1>a, <2>1, <2>3, <2>4, <2>6, <3>1 DEF Numbers
  <2>8. Order'
    BY <1>a, <2>1 DEF Order, Ended
  <2>9. AtHome'
    BY <1>a, <2>1, <2>2, <2>3, <2>4, <2>5, <2>6 DEF AtHome, Numbers
  <2>10. Placed'
    <3> SUFFICES ASSUME NEW d, NEW k, NEW i, Has(disk, d, k, i), At(disk, d, k, i) \in Ids
                 PROVE  homes'[At(disk, d, k, i)] = d
      <4>1. disk' = disk
        BY <2>1
      <4> QED BY <4>1 DEF Placed
    <3>1. At(disk, d, k, i) \in OnDisk(disk) /\ homes[At(disk, d, k, i)] = d
      BY <1>a DEF OnDisk, Placed
    <3> QED BY <1>a, <2>2, <2>4, <3>1 DEF Numbers
  <2>11. Sorted'
    <3>1. disk' = disk
      BY <2>1
    <3> QED BY <1>a, <3>1 DEF Sorted
  <2> QED BY <1>a, <2>7, <2>8, <2>9, <2>10, <2>11 DEF OInv
<1>3. CASE TrySend
  <2>1. /\ caller = "try_send" /\ caller' = "idle" /\ arg \in Segment /\ arg \in Message
        /\ arg.id \in Ids /\ arg.id = next - 1 /\ arg.id < next
        /\ UNCHANGED <<disk, item, homes, next, dir, pc>>
    BY <1>3, <1>a, <1>b DEF TrySend, Calls
  <2>2. CASE queue' = queue
    BY <1>d, <2>1, <2>2 DEF Ended
  <2>3. CASE queue' = Append(queue, arg) /\ pc # "done"
    <3>1. OnTheWay(queue', item') = OnTheWay(queue, item) \union {arg.id}
      BY <1>b, <2>1, <2>3, WayAppend
    <3>2. \A id \in OnDisk(disk) \union OnTheWay(queue, item) : id < arg.id
      BY <1>a, <2>1 DEF Numbers
    <3>3. Rising(queue') /\ First(queue', item')
      BY <1>a, <1>b, <2>1, <2>3, <3>2, RisingAppend DEF Order
    <3>4. Numbers'
      BY <1>a, <2>1, <3>1 DEF Numbers
    <3>5. Order'
      BY <1>a, <2>1, <3>1, <3>2, <3>3 DEF Order, Ended
    <3>6. AtHome'
      BY <1>a, <2>1, <3>1 DEF AtHome
    <3> QED BY <1>a, <1>c, <2>1, <3>4, <3>5, <3>6 DEF OInv
  <2> QED BY <1>3, <2>2, <2>3 DEF TrySend
<1>4. ASSUME NEW d \in Sessions, Seal(d) PROVE OInv'
  BY <1>d, <1>4 DEF Seal, Ended
<1>5. CASE SendSeal
  <2>1. /\ arg \in Seals /\ arg \in Message /\ arg \notin Segment /\ caller' # "try_send"
        /\ UNCHANGED <<disk, item, homes, next, dir, pc>>
    BY <1>5, <1>a, <1>b DEF SendSeal, Calls
  <2>2. CASE queue' = queue
    BY <1>d, <2>1, <2>2 DEF Ended
  <2>3. CASE queue' = Append(queue, arg)
    <3>1. OnTheWay(queue', item') = OnTheWay(queue, item)
      BY <1>b, <2>1, <2>3, WayAppend
    <3>2. Rising(queue') /\ First(queue', item')
      BY <1>a, <1>b, <2>1, <2>3, RisingAppend DEF Order
    <3> QED BY <1>a, <1>c, <2>1, <3>1, <3>2 DEF OInv, Numbers, Order, AtHome, Ended
  <2> QED BY <1>5, <2>2, <2>3 DEF SendSeal
<1>6. CASE Sealed \/ SealUnanswered \/ Shutdown \/ Closed
  BY <1>d, <1>6 DEF Sealed, SealUnanswered, Shutdown, Closed, Ended
<1>7. CASE RecvEnd
  <2>1. /\ caller = "closing" /\ caller' = caller /\ Ended'
        /\ UNCHANGED <<disk, queue, item, homes, next, dir>>
    BY <1>7 DEF RecvEnd, Ended
  <2> QED BY <1>d, <2>1
<1>8. CASE Recv
  <2>1. /\ item = NoItem /\ queue # <<>> /\ item' = Head(queue) /\ queue' = Tail(queue) /\ ~Ended
        /\ UNCHANGED <<disk, homes, next, dir, caller, arg>>
    BY <1>8, <1>a DEF Recv, Hand, Ended
  <2>2. OnTheWay(queue', item') = OnTheWay(queue, item)
    BY <1>b, <2>1, WayTail
  <2>3. Rising(queue') /\ First(queue', item')
    BY <1>a, <1>b, <2>1, RisingTail DEF Order
  <2> QED BY <1>a, <1>c, <2>1, <2>2, <2>3 DEF OInv, Numbers, Order, AtHome
<1>9. CASE Rotate
  <2>1. UNCHANGED <<queue, item, homes, next, dir, caller, arg>> /\ ~Ended
    BY <1>9 DEF Rotate, Ended
  <2>2. AddsFile(dir) \/ disk' = disk
    BY <1>9, <1>a, DiskSteps
  <2>3. OnDisk(disk') = OnDisk(disk)
    BY <1>a, <2>2, OnDiskSteps
  <2>4. /\ \A d, k, i : Has(disk, d, k, i) <=> Has(disk', d, k, i)
        /\ \A d, k, i : Has(disk, d, k, i) => At(disk', d, k, i) = At(disk, d, k, i)
    <3>1. CASE disk' = disk
      BY <3>1 DEF Has, At
    <3>2. CASE AddsFile(dir)
      BY <1>b, <3>2, FilePlaces
    <3> QED BY <2>2, <3>1, <3>2
  <2>5. Placed' /\ Sorted'
    BY <1>a, <2>1, <2>4 DEF Placed, Sorted
  <2> QED BY <1>a, <2>1, <2>3, <2>5 DEF OInv, Numbers, Order, AtHome
<1>10. CASE Write
  <2>1. /\ item \in Segment /\ item.id \in Line /\ item.size \in Nat /\ Torn \in Line /\ 0 \in Nat
        /\ \/ AddsLine(dir, item.id, item.size)
           \/ disk' = disk /\ GiveUp
           \/ AddsLine(dir, item.id, 0)
           \/ AddsLine(dir, Torn, 0)
    BY <1>10, <1>a, DiskSteps
  <2>2. CASE AddsLine(dir, item.id, item.size)
    <3> DEFINE line == item.id
               size == item.size
    <3>1. line \in Line /\ size \in Nat /\ AddsLine(dir, line, size) /\ line \in {item.id, Torn}
      BY <2>1, <2>2
    <3> HIDE DEF line, size
    <3> QED BY <1>10, <1>a, <3>1, OWrite
  <2>3. CASE AddsLine(dir, item.id, 0)
    <3> DEFINE line == item.id
    <3>1. line \in Line /\ AddsLine(dir, line, 0) /\ line \in {item.id, Torn}
      BY <2>1, <2>3
    <3> HIDE DEF line
    <3> QED BY <1>10, <1>a, <2>1, <3>1, OWrite
  <2>4. CASE AddsLine(dir, Torn, 0)
    BY <1>10, <1>a, <2>1, <2>4, OWrite
  <2>5. CASE disk' = disk /\ GiveUp
    <3>1. UNCHANGED <<disk, queue, homes, next, dir, caller, arg>> /\ item' = NoItem /\ Ended'
      BY <1>10, <2>5 DEF Write, GiveUp, Ended
    <3>2. OnTheWay(queue', item') \subseteq OnTheWay(queue, item)
      BY <3>1, WayItem
    <3>3. Rising(queue') /\ First(queue', item')
      BY <1>a, <1>b, <3>1, FirstIs DEF Order
    <3> QED BY <1>a, <1>c, <3>1, <3>2, <3>3 DEF OInv, Numbers, Order, AtHome
  <2> QED BY <2>1, <2>2, <2>3, <2>4, <2>5
<1>11. CASE SealOpens
  <2> DEFINE e == item.dir
  <2>1. /\ e \in Sessions /\ disk[e] = <<>> /\ item' = NoItem /\ queue' = queue /\ queue = <<>>
        /\ item \in Seals /\ caller' # "try_send"
        /\ UNCHANGED <<homes, next, arg>>
    BY <1>11, <1>a, <1>b, DiskSteps DEF SealOpens, Hand
  <2>2. OnTheWay(queue', item') = {}
    BY <2>1, WayEmpty
  <2>3. \/ AddsSession(e, HeaderOnly)
        \/ \E file \in File : AddsSession(e, file)
                              /\ \A i \in 1 .. Len(file.lines) : file.lines[i] \in {Header, Torn}
    BY <1>11, <1>a, DiskSteps
  <2>4. HeaderOnly \in File /\ \A i \in 1 .. Len(HeaderOnly.lines) : HeaderOnly.lines[i] \in {Header, Torn}
    BY HeaderOnlyIs
  <2> HIDE DEF e
  <2>5. PICK file \in File : AddsSession(e, file)
                             /\ \A i \in 1 .. Len(file.lines) : file.lines[i] \in {Header, Torn}
    BY <2>3, <2>4
  <2>6. OnDisk(disk') = OnDisk(disk)
    BY <1>a, <2>1, <2>5, OnDiskSteps
  <2>7. \A d, k, i : Has(disk', d, k, i) /\ At(disk', d, k, i) \in Ids =>
           Has(disk, d, k, i) /\ At(disk', d, k, i) = At(disk, d, k, i)
    BY <1>b, <2>1, <2>5, SessionPlaces, Constants
  <2>8. Placed' /\ Sorted'
    BY <1>a, <2>1, <2>7 DEF Placed, Sorted
  <2>9. Rising(queue') /\ First(queue', item')
    BY <1>a, <1>b, <2>1, FirstIs DEF Order
  <2> QED BY <1>a, <2>1, <2>2, <2>6, <2>8, <2>9 DEF OInv, Numbers, Order, AtHome
<1>12. CASE SealFails
  <2>1. /\ item \in Seals /\ item' = NoItem /\ caller' # "try_send" /\ ~Ended
        /\ UNCHANGED <<disk, queue, homes, next, dir, arg>>
    BY <1>12, <1>a DEF SealFails, Hand, Ended
  <2>2. OnTheWay(queue', item') = OnTheWay(queue, item)
    BY <1>b, <2>1, WayItem
  <2>3. First(queue', item')
    BY <1>b, <2>1, FirstIs
  <2> QED BY <1>a, <1>c, <2>1, <2>2, <2>3 DEF OInv, Numbers, Order, AtHome
<1>13. CASE Flush
  <2>1. /\ queue' = <<>> /\ item' = NoItem /\ Len(queue') = 0
        /\ UNCHANGED <<disk, homes, next, dir, caller, arg>>
    BY <1>13, EmptyIs DEF Flush
  <2>2. OnTheWay(queue', item') = {}
    BY <2>1, WayEmpty
  <2>3. Rising(queue') /\ First(queue', item')
    BY <2>1 DEF Rising, First
  <2> QED BY <1>a, <1>c, <2>1, <2>2, <2>3 DEF OInv, Numbers, Order, AtHome
<1> QED BY <1>1, <1>2, <1>3, <1>4, <1>5, <1>6, <1>7, <1>8, <1>9, <1>10, <1>11, <1>12, <1>13
        DEF Next, Writer, Calling

\* Whatever fails and however sessions are exchanged, a segment is in the session
\* it was given to, after those given before it (recorder.rs:312-316).
THEOREM InOrder == Spec => []SegmentsInTheirSession
<1>1. ASSUME OInv,
             NEW d \in Sessions, NEW k \in 1 .. Len(disk[d]), NEW l \in 1 .. Len(disk[d]),
             NEW i \in 1 .. Len(Lines(d, k)), NEW j \in 1 .. Len(Lines(d, l))
      PROVE  LET line == Lines(d, k)[i]
                 other == Lines(d, l)[j]
             IN  /\ line \in Ids => homes[line] = d
                 /\ {line, other} \subseteq Ids /\ (k < l \/ (k = l /\ i < j)) => line < other
  <2>1. Has(disk, d, k, i) /\ Has(disk, d, l, j)
    BY DEF Has, Lines
  <2>2. Lines(d, k)[i] = At(disk, d, k, i) /\ Lines(d, l)[j] = At(disk, d, l, j)
    BY DEF At, Lines
  <2>3. Placed /\ Sorted
    BY <1>1 DEF OInv
  <2> QED BY <2>1, <2>2, <2>3 DEF Placed, Sorted
<1>2. OInv => SegmentsInTheirSession
  BY <1>1 DEF SegmentsInTheirSession
<1> QED BY OInit, OStep, <1>2, PTL DEF Spec

-----------------------------------------------------------------------------
(* Functions defined by what they are at the place before.                *)

Below == {ss \in Nat \X Nat : ss[1] < ss[2]}

\* A nonempty set of numbers has a least member.
LEMMA Least ==
  ASSUME NEW T, T \subseteq Nat, T # {}
  PROVE  \E n \in T : \A m \in T : n <= m
<1>1. IsWellFoundedOn(Below, Nat)
  BY NatLessThanWellFounded DEF OpToRel, Below
<1>2. PICK x \in T : \A y \in T : ~ (<<y, x>> \in Below)
  BY <1>1, WFMin
<1>3. ASSUME NEW y \in T PROVE x <= y
  <2>1. ~(y < x)
    BY <1>2, <1>3 DEF Below
  <2> QED BY <2>1
<1> QED BY <1>3

\* Induction up to a bound, as a fact about a set of numbers.
LEMMA Induct ==
  ASSUME NEW T, 0 \in T, \A n \in Nat : n \in T => n + 1 \in T
  PROVE  \A n \in Nat : n \in T
<1> SUFFICES ASSUME NEW m \in Nat, m \notin T PROVE FALSE
  OBVIOUS
<1> DEFINE U == {n \in Nat : n \notin T}
<1>1. U # {} /\ U \subseteq Nat
  OBVIOUS
<1>2. PICK n \in U : \A k \in U : n <= k
  BY <1>1, Least
<1>3. n # 0 /\ n - 1 \in Nat
  OBVIOUS
<1>4. n - 1 \in T
  BY <1>2, <1>3
<1>5. (n - 1) + 1 \in T
  BY <1>3, <1>4
<1> QED BY <1>5, <1>3

\* The functions that start with v and whose i-th value comes from the one
\* before by the i-th step.
Traces(V, v, n, step) ==
  {f \in [0 .. n -> V] : f[0] = v /\ \A i \in 1 .. n : f[i] = step[i][f[i - 1]]}

\* A function defined by what it is at the place before exists.
LEMMA Recursion ==
  ASSUME NEW V, NEW v \in V, NEW n \in Nat, NEW step \in [1 .. n -> [V -> V]]
  PROVE  Traces(V, v, n, step) # {}
<1> SUFFICES \E f \in [0 .. n -> V] : f[0] = v /\ \A i \in 1 .. n : f[i] = step[i][f[i - 1]]
  BY DEF Traces
<1> DEFINE Good(m, f) == f[0] = v /\ \A i \in 1 .. m : f[i] = step[i][f[i - 1]]
           T == {m \in Nat : m <= n => \E f \in [0 .. m -> V] : Good(m, f)}
<1>1. 0 \in T
  <2> DEFINE f == [i \in 0 .. 0 |-> v]
  <2>1. f \in [0 .. 0 -> V] /\ Good(0, f)
    OBVIOUS
  <2> QED BY <2>1
<1>2. ASSUME NEW m \in Nat, m \in T PROVE m + 1 \in T
  <2> SUFFICES ASSUME m + 1 <= n PROVE \E f \in [0 .. m + 1 -> V] : Good(m + 1, f)
    OBVIOUS
  <2>1. PICK g \in [0 .. m -> V] : Good(m, g)
    BY <1>2
  <2> DEFINE f == [i \in 0 .. m + 1 |-> IF i = m + 1 THEN step[m + 1][g[m]] ELSE g[i]]
  <2>2. step[m + 1] \in [V -> V] /\ g[m] \in V
    OBVIOUS
  <2>3. f \in [0 .. m + 1 -> V]
    BY <2>2
  <2>4. f[0] = v
    BY <2>1
  <2>5. ASSUME NEW i \in 1 .. m + 1 PROVE f[i] = step[i][f[i - 1]]
    <3>1. CASE i = m + 1
      BY <3>1
    <3>2. CASE i # m + 1
      <4>1. i \in 1 .. m /\ i - 1 \in 0 .. m /\ i - 1 # m + 1
        BY <3>2
      <4>2. f[i] = g[i] /\ f[i - 1] = g[i - 1]
        BY <4>1
      <4> QED BY <2>1, <4>1, <4>2
    <3> QED BY <3>1, <3>2
  <2> QED BY <2>3, <2>4, <2>5
<1> HIDE DEF T
<1>3. \A m \in Nat : m \in T
  BY <1>1, <1>2, Induct
<1> QED BY <1>3 DEF T

-----------------------------------------------------------------------------
(* Sequences of sequences, one after the other.                            *)

\* Sequences of sequences, for the provers.
LEMMA Nested ==
  ASSUME NEW R, NEW s \in Seq(Seq(R))
  PROVE  /\ Len(s) \in Nat /\ DOMAIN s = 1 .. Len(s)
         /\ \A i \in 1 .. Len(s) : s[i] \in Seq(R) /\ i - 1 \in 0 .. Len(s)
         /\ \A t \in Seq(R) : <<>> \o t = t /\ t \o <<>> = t
  OBVIOUS

\* What a sequence of texts joins to, after each of them.
Joins(R, s) ==
  {f \in [0 .. Len(s) -> Seq(R)] : f[0] = <<>> /\ \A i \in 1 .. Len(s) : f[i] = f[i - 1] \o s[i]}

\* FlattenSeq is the last of them.
LEMMA FlatIs ==
  ASSUME NEW R, NEW s \in Seq(Seq(R)), NEW f \in Joins(R, s)
  PROVE  FlattenSeq(s) = f[Len(s)]
<1> USE DEF Joins
<1> DEFINE N == Len(s)
           Flat(g) == [i \in 1 .. N |-> IF i = 1 THEN s[i] ELSE g[i - 1] \o s[i]]
<1>1. CASE N = 0
  <2>1. s = <<>>
    BY <1>1
  <2> QED BY <1>1, <2>1 DEF FlattenSeq
<1>2. CASE N # 0
  <2> DEFINE flat == CHOOSE g : g = Flat(g)
             h == [i \in 1 .. N |-> f[i]]
  <2>1. FlattenSeq(s) = flat[N]
    BY <1>2 DEF FlattenSeq
  <2>2. N \in Nat /\ \A i \in 1 .. N : s[i] \in Seq(R) /\ i - 1 \in 0 .. N /\ f[i] = f[i - 1] \o s[i]
    BY Nested
  <2>3. <<>> \in Seq(R) /\ \A t \in Seq(R) : <<>> \o t = t
    BY Nested
  <2> HIDE DEF N
  <2>4. h = Flat(h)
    <3>1. ASSUME NEW i \in 1 .. N PROVE h[i] = IF i = 1 THEN s[i] ELSE h[i - 1] \o s[i]
      <4>1. h[i] = f[i]
        OBVIOUS
      <4>2. CASE i = 1
        <5>1. f[i] = <<>> \o s[i]
          <6>1. i - 1 = 0
            BY <4>2
          <6>2. f[i - 1] = <<>>
            BY <6>1
          <6> QED BY <2>2, <6>2
        <5> QED BY <4>1, <4>2, <5>1, <2>2, <2>3
      <4>3. CASE i # 1
        <5>1. i - 1 \in 1 .. N
          BY <2>2, <4>3
        <5>2. h[i - 1] = f[i - 1]
          BY <5>1
        <5> QED BY <2>2, <4>1, <4>3, <5>2
      <4> QED BY <4>2, <4>3
    <3>2. h = [i \in 1 .. N |-> h[i]]
      OBVIOUS
    <3> HIDE DEF h
    <3> QED BY <3>1, <3>2
  <2>5. flat = Flat(flat)
    <3> HIDE DEF h, Flat
    <3> QED BY <2>4
  <2> HIDE DEF flat
  <2>6. \A i \in 1 .. N : flat[i] = IF i = 1 THEN s[i] ELSE flat[i - 1] \o s[i]
    BY <2>5
  <2> DEFINE g == [i \in 0 .. N |-> IF i = 0 THEN f[0] ELSE flat[i]]
  <2>7. g[0] = f[0]
    BY <2>2
  <2>8. ASSUME NEW i \in 1 .. N, g[i - 1] = f[i - 1] PROVE g[i] = f[i]
    <3>1. g[i] = flat[i]
      BY <2>2
    <3>2. CASE i = 1
      <4>1. flat[i] = s[i]
        BY <3>2, <2>6
      <4>2. f[i] = <<>> \o s[i]
        <5>1. i - 1 = 0
          BY <3>2
        <5>2. f[i - 1] = <<>>
          BY <5>1
        <5> QED BY <2>2, <5>2
      <4> QED BY <2>2, <2>3, <3>1, <4>1, <4>2
    <3>3. CASE i # 1
      <4>1. flat[i] = flat[i - 1] \o s[i]
        BY <3>3, <2>6
      <4>2. g[i - 1] = flat[i - 1]
        BY <2>2, <3>3
      <4> QED BY <2>2, <3>1, <4>1, <4>2, <2>8
    <3> QED BY <3>2, <3>3
  <2> HIDE DEF g
  <2>9. \A i \in 0 .. N : g[i] = f[i]
    <3> DEFINE T == {m \in Nat : m <= N => g[m] = f[m]}
    <3>1. 0 \in T
      BY <2>7
    <3>2. ASSUME NEW m \in Nat, m \in T PROVE m + 1 \in T
      <4> SUFFICES ASSUME m + 1 <= N PROVE g[m + 1] = f[m + 1]
        OBVIOUS
      <4>1. m + 1 \in 1 .. N /\ (m + 1) - 1 = m /\ g[m] = f[m]
        BY <2>2, <3>2
      <4> QED BY <2>8, <4>1
    <3> HIDE DEF T
    <3>3. \A m \in Nat : m \in T
      BY <3>1, <3>2, Induct
    <3> SUFFICES ASSUME NEW i \in 0 .. N PROVE g[i] = f[i]
      OBVIOUS
    <3>4. i \in Nat /\ i <= N
      BY <2>2
    <3>5. i \in T
      BY <3>3, <3>4
    <3> QED BY <3>4, <3>5 DEF T
  <2>10. g[N] = flat[N]
    BY <1>2, <2>2 DEF g
  <2>11. N \in 0 .. N
    BY <2>2
  <2>12. g[N] = f[N]
    BY <2>9, <2>11
  <2> HIDE DEF N
  <2>13. flat[N] = f[N]
    BY <2>10, <2>12
  <2> QED BY <2>1, <2>13 DEF N
<1> QED BY <1>1, <1>2

\* There is such a function for every sequence.
LEMMA FlatSteps ==
  ASSUME NEW R, NEW s \in Seq(Seq(R))
  PROVE  Joins(R, s) # {}
<1> DEFINE N == Len(s)
           V == Seq(R)
           step == [i \in 1 .. N |-> [t \in V |-> t \o s[i]]]
<1>1. N \in Nat /\ <<>> \in V /\ \A i \in 1 .. N : s[i] \in V
  OBVIOUS
<1>2. \A t, u \in V : t \o u \in V
  OBVIOUS
<1> SUFFICES \E f \in [0 .. N -> V] : f[0] = <<>> /\ \A i \in 1 .. N : f[i] = f[i - 1] \o s[i]
  BY DEF Joins
<1> HIDE DEF N, V
<1>3. \A i \in 1 .. N, t \in V : step[i][t] = t \o s[i]
  OBVIOUS
<1>4. step \in [1 .. N -> [V -> V]]
  BY <1>1, <1>2
<1> HIDE DEF step
<1>5. PICK f \in [0 .. N -> V] : f[0] = <<>> /\ \A i \in 1 .. N : f[i] = step[i][f[i - 1]]
  <2>1. Traces(V, <<>>, N, step) # {}
    BY <1>1, <1>4, Recursion
  <2> QED BY <2>1 DEF Traces
<1>6. \A i \in 1 .. N : f[i - 1] \in V
  BY <1>1
<1> QED BY <1>3, <1>5, <1>6, ZenonT(60)

\* It is a sequence.
LEMMA FlatType ==
  ASSUME NEW R, NEW s \in Seq(Seq(R))
  PROVE  FlattenSeq(s) \in Seq(R)
<1>1. PICK f \in Joins(R, s) : TRUE
  BY FlatSteps
<1>2. f[Len(s)] \in Seq(R)
  <2>1. Len(s) \in Nat
    OBVIOUS
  <2> QED BY <2>1 DEF Joins
<1> QED BY <1>2, FlatIs

\* Joining a sequence of one, and of none.
LEMMA FlatOne ==
  ASSUME NEW R, NEW t \in Seq(R)
  PROVE  FlattenSeq(<<t>>) = t /\ FlattenSeq(<<>>) = <<>>
<1> DEFINE f == [i \in 0 .. 1 |-> IF i = 0 THEN <<>> ELSE t]
<1>1. <<t>> \in Seq(Seq(R)) /\ Len(<<t>>) = 1 /\ <<t>>[1] = t /\ <<>> \in Seq(R) /\ <<>> \o t = t
  OBVIOUS
<1>2. f \in [0 .. 1 -> Seq(R)] /\ f[0] = <<>> /\ f[1] = t
  BY <1>1
<1> HIDE DEF f
<1>3. \A i \in 1 .. 1 : f[i] = f[i - 1] \o <<t>>[i]
  <2> SUFFICES f[1] = f[1 - 1] \o <<t>>[1]
    OBVIOUS
  <2>1. 1 - 1 = 0
    OBVIOUS
  <2> QED BY <1>1, <1>2, <2>1
<1>4. f \in Joins(R, <<t>>)
  BY <1>1, <1>2, <1>3 DEF Joins
<1>5. FlattenSeq(<<t>>) = t
  BY <1>1, <1>2, <1>4, FlatIs
<1>6. FlattenSeq(<<>>) = <<>>
  BY DEF FlattenSeq
<1> QED BY <1>5, <1>6

\* Joining two sequences, one after the other.
LEMMA FlatConcat ==
  ASSUME NEW R, NEW a \in Seq(Seq(R)), NEW b \in Seq(Seq(R))
  PROVE  FlattenSeq(a \o b) = FlattenSeq(a) \o FlattenSeq(b)
<1> DEFINE M == Len(a)
           N == Len(b)
           V == Seq(R)
<1>1. /\ M \in Nat /\ N \in Nat /\ a \o b \in Seq(V) /\ Len(a \o b) = M + N
      /\ \A i \in 1 .. M : (a \o b)[i] = a[i] /\ a[i] \in V
      /\ \A i \in M + 1 .. M + N : (a \o b)[i] = b[i - M] /\ b[i - M] \in V
  OBVIOUS
<1>2. <<>> \in V /\ \A t, u \in V : t \o u \in V /\ t \o <<>> = t
  OBVIOUS
<1>17. \A t, u, v \in V : (t \o u) \o v = t \o (u \o v)
  OBVIOUS
<1>3. PICK f \in Joins(R, a) : TRUE
  BY FlatSteps
<1>4. PICK g \in Joins(R, b) : TRUE
  BY FlatSteps
<1>5. f \in [0 .. M -> V] /\ f[0] = <<>> /\ \A i \in 1 .. M : f[i] = f[i - 1] \o a[i]
  BY DEF Joins
<1>6. g \in [0 .. N -> V] /\ g[0] = <<>> /\ \A i \in 1 .. N : g[i] = g[i - 1] \o b[i]
  BY DEF Joins
<1>7. FlattenSeq(a) = f[M] /\ FlattenSeq(b) = g[N]
  BY FlatIs
<1> HIDE DEF M, N, V
<1> DEFINE h == [i \in 0 .. M + N |-> IF i <= M THEN f[i] ELSE f[M] \o g[i - M]]
<1>8. \A i \in 0 .. N : g[i] \in V
  BY <1>6
<1>9. \A i \in 0 .. M : f[i] \in V
  BY <1>5
<1>10. h \in [0 .. M + N -> V]
  <2>1. ASSUME NEW i \in 0 .. M + N, ~(i <= M) PROVE f[M] \o g[i - M] \in V
    <3>1. i - M \in 0 .. N /\ M \in 0 .. M
      BY <1>1, <2>1
    <3> QED BY <3>1, <1>2, <1>8, <1>9
  <2>2. ASSUME NEW i \in 0 .. M + N, i <= M PROVE f[i] \in V
    BY <1>1, <1>9, <2>2
  <2> QED BY <2>1, <2>2
<1>11. \A i \in 0 .. N : h[M + i] = f[M] \o g[i]
  <2> SUFFICES ASSUME NEW i \in 0 .. N PROVE h[M + i] = f[M] \o g[i]
    OBVIOUS
  <2>1. M + i \in 0 .. M + N /\ (M + i) - M = i /\ M \in 0 .. M
    BY <1>1
  <2>2. CASE i = 0
    <3>1. h[M + i] = f[M]
      BY <1>1, <2>1, <2>2
    <3> QED BY <3>1, <2>1, <2>2, <1>2, <1>6, <1>9
  <2>3. CASE i # 0
    <3>1. ~(M + i <= M)
      BY <1>1, <2>3
    <3> QED BY <3>1, <2>1
  <2> QED BY <2>2, <2>3
<1>12. \A i \in 0 .. M : h[i] = f[i]
  BY <1>1
<1> HIDE DEF h
<1>13. ASSUME NEW i \in 1 .. M + N PROVE h[i] = h[i - 1] \o (a \o b)[i]
  <2>1. CASE i <= M
    <3>1. i \in 1 .. M /\ i \in 0 .. M /\ i - 1 \in 0 .. M
      BY <1>1, <2>1
    <3> QED BY <3>1, <1>1, <1>5, <1>12
  <2>2. CASE ~(i <= M)
    <3> DEFINE j == i - M
               k == i - 1 - M
    <3>1. /\ j \in 1 .. N /\ j \in 0 .. N /\ k \in 0 .. N /\ M + j = i /\ M + k = i - 1 /\ k = j - 1
          /\ i \in M + 1 .. M + N /\ M \in 0 .. M
      BY <1>1, <2>2
    <3>2. (a \o b)[i] = b[j] /\ b[j] \in V
      BY <3>1, <1>1
    <3> HIDE DEF j, k
    <3>3. h[i] = f[M] \o g[j] /\ h[i - 1] = f[M] \o g[k]
      BY <3>1, <1>11
    <3>4. f[M] \in V /\ g[k] \in V
      BY <3>1, <1>8, <1>9
    <3>5. (f[M] \o g[k]) \o b[j] = f[M] \o (g[k] \o b[j])
      BY <3>2, <3>4, <1>17
    <3>6. g[j] = g[k] \o b[j]
      BY <3>1, <1>6
    <3> QED BY <3>2, <3>3, <3>5, <3>6
  <2> QED BY <2>1, <2>2
<1>14. 0 \in 0 .. M /\ N \in 0 .. N
  BY <1>1
<1>15. h \in Joins(R, a \o b)
  BY <1>1, <1>5, <1>10, <1>12, <1>13, <1>14 DEF Joins, V
<1>16. FlattenSeq(a \o b) = h[M + N]
  BY <1>15, <1>1, FlatIs DEF V
<1> QED BY <1>7, <1>11, <1>14, <1>16

-----------------------------------------------------------------------------
(* Sums.                                                                   *)

\* The sums of the first numbers.
Sums(s) ==
  {f \in [0 .. Len(s) -> Nat] : f[0] = 0 /\ \A i \in 1 .. Len(s) : f[i] = f[i - 1] + s[i]}

\* There is only one such function.
LEMMA SumsOne ==
  ASSUME NEW s \in Seq(Nat), NEW f, NEW g \in Sums(s), f[0] = 0,
         \A i \in 1 .. Len(s) : f[i] = f[i - 1] + s[i]
  PROVE  \A i \in 0 .. Len(s) : f[i] = g[i]
<1> DEFINE N == Len(s)
           T == {i \in Nat : i <= N => f[i] = g[i]}
<1>1. N \in Nat /\ g[0] = 0 /\ \A i \in 1 .. N : g[i] = g[i - 1] + s[i]
  BY DEF Sums
<1>2. 0 \in T
  BY <1>1
<1>3. ASSUME NEW i \in Nat, i \in T PROVE i + 1 \in T
  <2> SUFFICES ASSUME i + 1 <= N PROVE f[i + 1] = g[i + 1]
    OBVIOUS
  <2>1. i + 1 \in 1 .. N /\ (i + 1) - 1 = i /\ f[i] = g[i]
    BY <1>1, <1>3
  <2>2. f[i + 1] = f[i] + s[i + 1] /\ g[i + 1] = g[i] + s[i + 1]
    BY <1>1, <2>1
  <2> QED BY <2>1, <2>2
<1> HIDE DEF T, N
<1>4. \A i \in Nat : i \in T
  BY <1>2, <1>3, Induct
<1>5. \A i \in 0 .. N : f[i] = g[i]
  BY <1>1, <1>4 DEF T
<1> QED BY <1>5 DEF N

\* SumSeq is its last value.
LEMMA SumIs ==
  ASSUME NEW s \in Seq(Nat)
  PROVE  \E f \in Sums(s) : SumSeq(s) = f[Len(s)]
<1> DEFINE N == Len(s)
           Body(g) == [i \in 0 .. N |-> IF i = 0 THEN 0 ELSE g[i - 1] + s[i]]
           sum == CHOOSE g : g = Body(g)
           step == [i \in 1 .. N |-> [v \in Nat |-> v + s[i]]]
<1>1. N \in Nat /\ \A i \in 1 .. N : s[i] \in Nat
  OBVIOUS
<1>2. SumSeq(s) = sum[N]
  BY DEF SumSeq
<1> HIDE DEF N
<1>3. step \in [1 .. N -> [Nat -> Nat]] /\ \A i \in 1 .. N, v \in Nat : step[i][v] = v + s[i]
  BY <1>1
<1> HIDE DEF step
<1>4. PICK f \in [0 .. N -> Nat] : f[0] = 0 /\ \A i \in 1 .. N : f[i] = step[i][f[i - 1]]
  <2>1. Traces(Nat, 0, N, step) # {}
    BY <1>1, <1>3, Recursion
  <2> QED BY <2>1 DEF Traces
<1>5. \A i \in 1 .. N : f[i] = f[i - 1] + s[i]
  <2> SUFFICES ASSUME NEW i \in 1 .. N PROVE f[i] = f[i - 1] + s[i]
    OBVIOUS
  <2>1. f[i - 1] \in Nat
    BY <1>1
  <2> QED BY <2>1, <1>3, <1>4
<1>6. f \in Sums(s)
  BY <1>4, <1>5 DEF Sums, N
<1>7. f = Body(f)
  <2>1. ASSUME NEW i \in 0 .. N PROVE f[i] = IF i = 0 THEN 0 ELSE f[i - 1] + s[i]
    BY <1>1, <1>4, <1>5
  <2>2. f = [i \in 0 .. N |-> f[i]]
    OBVIOUS
  <2> QED BY <2>1, <2>2
<1>8. sum = Body(sum)
  <2> HIDE DEF Body
  <2> QED BY <1>7
<1> HIDE DEF sum
<1>9. sum[0] = 0 /\ \A i \in 1 .. N : sum[i] = sum[i - 1] + s[i]
  <2>1. \A i \in 0 .. N : sum[i] = IF i = 0 THEN 0 ELSE sum[i - 1] + s[i]
    BY <1>8
  <2>2. 0 \in 0 .. N /\ \A i \in 1 .. N : i \in 0 .. N /\ i # 0
    BY <1>1
  <2> HIDE DEF Body
  <2> QED BY <2>1, <2>2
<1> HIDE DEF Body
<1>10. \A i \in 0 .. N : sum[i] = f[i]
  BY <1>6, <1>9, SumsOne DEF N
<1>11. sum[N] = f[N]
  BY <1>1, <1>10
<1> QED BY <1>2, <1>6, <1>11 DEF N

LEMMA SumBy ==
  ASSUME NEW s \in Seq(Nat), NEW f \in Sums(s)
  PROVE  SumSeq(s) = f[Len(s)] /\ SumSeq(s) \in Nat
<1>1. PICK g \in Sums(s) : SumSeq(s) = g[Len(s)]
  BY SumIs
<1>2. Len(s) \in 0 .. Len(s)
  OBVIOUS
<1>3. f[0] = 0 /\ f[Len(s)] \in Nat /\ \A i \in 1 .. Len(s) : f[i] = f[i - 1] + s[i]
  BY <1>2 DEF Sums
<1>4. f[Len(s)] = g[Len(s)]
  BY <1>2, <1>3, SumsOne
<1> QED BY <1>1, <1>3, <1>4

\* The sum of nothing, and of one number more.
LEMMA SumAppend ==
  ASSUME NEW s \in Seq(Nat), NEW x \in Nat
  PROVE  SumSeq(s) \in Nat /\ SumSeq(<<>>) = 0 /\ SumSeq(Append(s, x)) = SumSeq(s) + x
<1> DEFINE N == Len(s)
           t == Append(s, x)
<1>1. PICK f \in Sums(s) : SumSeq(s) = f[Len(s)]
  BY SumIs
<1>2. SumSeq(s) \in Nat
  BY SumBy
<1>3. PICK e \in Sums(<<>>) : SumSeq(<<>>) = e[Len(<<>>)]
  BY EmptyIs, SumIs
<1>4. SumSeq(<<>>) = 0
  BY <1>3 DEF Sums
<1>5. /\ N \in Nat /\ t \in Seq(Nat) /\ Len(t) = N + 1 /\ t[N + 1] = x
      /\ \A i \in 1 .. N : t[i] = s[i]
  BY AppendIs
<1>6. f \in [0 .. N -> Nat] /\ f[0] = 0 /\ \A i \in 1 .. N : f[i] = f[i - 1] + s[i]
  BY DEF Sums
<1> HIDE DEF t
<1> DEFINE g == [i \in 0 .. N + 1 |-> IF i = N + 1 THEN f[N] + x ELSE f[i]]
<1> HIDE DEF N
<1>7. N \in 0 .. N /\ f[N] + x \in Nat
  BY <1>5, <1>6
<1>8. g \in [0 .. N + 1 -> Nat] /\ g[0] = 0 /\ g[N + 1] = f[N] + x
  BY <1>5, <1>6, <1>7
<1>9. ASSUME NEW i \in 1 .. N + 1 PROVE g[i] = g[i - 1] + t[i]
  <2>1. CASE i = N + 1
    BY <1>5, <1>8, <2>1
  <2>2. CASE i # N + 1
    <3>1. i \in 1 .. N /\ i - 1 \in 0 .. N + 1 /\ i - 1 # N + 1 /\ i \in 0 .. N + 1
      BY <1>5, <2>2
    <3>2. g[i] = f[i] /\ g[i - 1] = f[i - 1]
      BY <2>2, <3>1
    <3> QED BY <1>5, <1>6, <3>1, <3>2
  <2> QED BY <2>1, <2>2
<1> HIDE DEF g
<1>10. g \in Sums(t)
  BY <1>5, <1>8, <1>9 DEF Sums
<1>11. SumSeq(t) = g[N + 1]
  BY <1>5, <1>10, SumBy
<1> QED BY <1>1, <1>2, <1>4, <1>8, <1>11 DEF N, t

\* The sum without one of the numbers.
LEMMA SumDrop ==
  ASSUME NEW s \in Seq(Nat), NEW r \in Seq(Nat), Len(r) = Len(s), NEW k \in 1 .. Len(s),
         r[k] = 0, \A i \in 1 .. Len(s) : i # k => r[i] = s[i]
  PROVE  SumSeq(s) = SumSeq(r) + s[k]
<1> DEFINE N == Len(s)
<1>1. PICK f \in Sums(r) : SumSeq(r) = f[Len(r)]
  BY SumIs
<1>2. N \in Nat /\ k \in 1 .. N /\ s[k] \in Nat /\ \A i \in 1 .. N : s[i] \in Nat /\ r[i] \in Nat
  BY SMTT(60)
<1>3. f \in [0 .. N -> Nat] /\ f[0] = 0 /\ \A i \in 1 .. N : f[i] = f[i - 1] + r[i]
  BY DEF Sums
<1>4. \A i \in 1 .. N : i # k => r[i] = s[i]
  OBVIOUS
<1> DEFINE g == [i \in 0 .. N |-> IF k <= i THEN f[i] + s[k] ELSE f[i]]
<1> HIDE DEF N
<1>5. g \in [0 .. N -> Nat] /\ g[0] = 0
  <2>4. s[k] \in Nat /\ \A i \in 0 .. N : f[i] \in Nat
    BY <1>2, <1>3
  <2>1. \A i \in 0 .. N : f[i] \in Nat /\ f[i] + s[k] \in Nat
    BY <2>4
  <2>2. g \in [0 .. N -> Nat]
    BY <2>1
  <2>3. 0 \in 0 .. N /\ ~(k <= 0)
    BY <1>2
  <2> QED BY <1>3, <2>2, <2>3
<1>6. ASSUME NEW i \in 1 .. N PROVE g[i] = g[i - 1] + s[i]
  <2> DEFINE j == i - 1
  <2>4. i \in 0 .. N /\ j \in 0 .. N /\ i = j + 1
    BY <1>2
  <2>5. f[i] = f[j] + r[i]
    BY <1>3
  <2>6. f[i] \in Nat /\ f[j] \in Nat /\ s[k] \in Nat /\ s[i] \in Nat
    BY <1>2, <1>3, <2>4
  <2> SUFFICES g[i] = g[j] + s[i]
    OBVIOUS
  <2> HIDE DEF j
  <2>2. CASE i = k
    <3>1. k <= i /\ ~(k <= j)
      BY <1>2, <2>2, <2>4
    <3>2. g[i] = f[i] + s[k] /\ g[j] = f[j]
      BY <2>4, <3>1
    <3>3. f[i] = f[j]
      BY <2>2, <2>5, <2>6
    <3> QED BY <2>2, <3>2, <3>3
  <2>3. CASE i # k
    <3>1. r[i] = s[i]
      BY <1>4, <2>3
    <3>2. CASE k <= i
      <4>1. k <= j
        BY <1>2, <2>3, <2>4, <3>2
      <4>2. g[i] = f[i] + s[k] /\ g[j] = f[j] + s[k]
        BY <2>4, <3>2, <4>1
      <4> QED BY <2>5, <2>6, <3>1, <4>2, SMTT(60)
    <3>3. CASE ~(k <= i)
      <4>1. ~(k <= j)
        BY <1>2, <2>4, <3>3
      <4>2. g[i] = f[i] /\ g[j] = f[j]
        BY <2>4, <3>3, <4>1
      <4> QED BY <2>5, <3>1, <4>2
    <3> QED BY <3>2, <3>3
  <2> QED BY <2>2, <2>3
<1>7. N \in 0 .. N /\ g[N] = f[N] + s[k]
  BY <1>2
<1> HIDE DEF g
<1>8. g \in Sums(s)
  BY <1>5, <1>6 DEF Sums, N
<1>9. SumSeq(s) = g[N]
  BY <1>8, SumBy DEF N
<1> QED BY <1>1, <1>7, <1>9 DEF N

-----------------------------------------------------------------------------
(* AudioArchive: its lists and files.                                      *)

\* What Without returns is some of the list, in its order.
LEMMA WithoutIs ==
  ASSUME NEW S, NEW list \in Seq(S), NEW gone
  PROVE  /\ Without(list, gone) \in Seq(S)
         /\ \A i \in 1 .. Len(Without(list, gone)) : Without(list, gone)[i] \notin gone
         /\ (\A i, j \in 1 .. Len(list) : list[i] = list[j] => i = j) =>
              \A i, j \in 1 .. Len(Without(list, gone)) :
                Without(list, gone)[i] = Without(list, gone)[j] => i = j
<1> DEFINE N == Len(list)
           V == Seq(S)
           Body(g) == [i \in 0 .. N |-> IF i = 0 THEN <<>>
                                        ELSE IF list[i] \in gone THEN g[i - 1] ELSE Append(g[i - 1], list[i])]
           kept == CHOOSE g : g = Body(g)
           step == [i \in 1 .. N |-> [v \in V |-> IF list[i] \in gone THEN v ELSE Append(v, list[i])]]
<1>1. N \in Nat /\ \A i \in 1 .. N : list[i] \in S
  OBVIOUS
<1>2. Without(list, gone) = kept[N]
  BY DEF Without
<1>3. <<>> \in V /\ Len(<<>>) = 0 /\ \A v \in V, x \in S : Append(v, x) \in V
  OBVIOUS
<1>4. \A v \in V, x \in S : /\ Len(v) \in Nat /\ Len(Append(v, x)) = Len(v) + 1
                            /\ Append(v, x)[Len(v) + 1] = x
                            /\ \A i \in 1 .. Len(v) : Append(v, x)[i] = v[i]
  OBVIOUS
<1> HIDE DEF N, V
<1>5. step \in [1 .. N -> [V -> V]]
  BY <1>1, <1>3
<1>6. \A i \in 1 .. N, v \in V : step[i][v] = IF list[i] \in gone THEN v ELSE Append(v, list[i])
  OBVIOUS
<1> HIDE DEF step
<1>7. PICK f \in [0 .. N -> V] : f[0] = <<>> /\ \A i \in 1 .. N : f[i] = step[i][f[i - 1]]
  <2>1. Traces(V, <<>>, N, step) # {}
    BY <1>1, <1>3, <1>5, Recursion
  <2> QED BY <2>1 DEF Traces
<1>8. \A i \in 1 .. N : f[i] = IF list[i] \in gone THEN f[i - 1] ELSE Append(f[i - 1], list[i])
  <2> SUFFICES ASSUME NEW i \in 1 .. N
               PROVE  f[i] = IF list[i] \in gone THEN f[i - 1] ELSE Append(f[i - 1], list[i])
    OBVIOUS
  <2>1. f[i - 1] \in V
    BY <1>1
  <2> QED BY <2>1, <1>6, <1>7
<1>9. f = Body(f)
  <2>1. ASSUME NEW i \in 0 .. N
        PROVE  f[i] = IF i = 0 THEN <<>> ELSE IF list[i] \in gone THEN f[i - 1] ELSE Append(f[i - 1], list[i])
    <3>1. CASE i = 0
      BY <1>7, <3>1
    <3>2. CASE i # 0
      <4>1. i \in 1 .. N
        BY <1>1, <3>2
      <4> QED BY <1>8, <3>2, <4>1
    <3> QED BY <3>1, <3>2
  <2>2. f = [i \in 0 .. N |-> f[i]]
    OBVIOUS
  <2> QED BY <2>1, <2>2
<1>10. kept = Body(kept)
  <2> HIDE DEF Body
  <2> QED BY <1>9
<1> HIDE DEF kept
<1>11. kept[0] = <<>> /\ \A i \in 1 .. N : kept[i] = IF list[i] \in gone THEN kept[i - 1] ELSE Append(kept[i - 1], list[i])
  <2>1. \A i \in 0 .. N : kept[i] = IF i = 0 THEN <<>>
                                    ELSE IF list[i] \in gone THEN kept[i - 1] ELSE Append(kept[i - 1], list[i])
    BY <1>10
  <2>2. 0 \in 0 .. N /\ \A i \in 1 .. N : i \in 0 .. N /\ i # 0
    BY <1>1
  <2> HIDE DEF Body
  <2> QED BY <2>1, <2>2
<1> HIDE DEF Body
<1> DEFINE From(v, k) == \A i \in 1 .. Len(v) : v[i] \notin gone /\ \E j \in 1 .. k : v[i] = list[j]
           Once(v) == (\A i, j \in 1 .. N : list[i] = list[j] => i = j) =>
                        \A i, j \in 1 .. Len(v) : v[i] = v[j] => i = j
           T == {k \in Nat : k <= N => kept[k] \in V /\ From(kept[k], k) /\ Once(kept[k])}
<1>12. 0 \in T
  <2>1. \A i \in 1 .. Len(<<>>) : FALSE
    BY <1>3
  <2> QED BY <1>3, <1>11, <2>1
<1>13. ASSUME NEW k \in Nat, k \in T PROVE k + 1 \in T
  <2> HIDE DEF From, Once
  <2> SUFFICES ASSUME k + 1 <= N
               PROVE  kept[k + 1] \in V /\ From(kept[k + 1], k + 1) /\ Once(kept[k + 1])
    OBVIOUS
  <2> USE DEF From, Once
  <2> DEFINE v == kept[k]
             x == list[k + 1]
             w == kept[k + 1]
  <2>1. k + 1 \in 1 .. N /\ (k + 1) - 1 = k /\ v \in V /\ From(v, k) /\ Once(v) /\ x \in S
    <3>1. k + 1 \in 1 .. N /\ (k + 1) - 1 = k /\ k <= N
      BY <1>1
    <3>2. kept[k] \in V /\ From(kept[k], k) /\ Once(kept[k])
      <4> HIDE DEF From, Once
      <4> QED BY <1>13, <3>1
    <3> QED BY <1>1, <3>1, <3>2
  <2>2. w = IF x \in gone THEN v ELSE Append(v, x)
    BY <1>11, <2>1
  <2>3. \A j \in 1 .. k : j \in 1 .. k + 1 /\ j \in 1 .. N /\ j # k + 1
    BY <1>1, <2>1
  <2> HIDE DEF v, x, w
  <2>4. CASE x \in gone
    BY <2>1, <2>2, <2>3, <2>4 DEF v, x, w
  <2>5. CASE x \notin gone
    <3>1. w = Append(v, x)
      BY <2>2, <2>5
    <3>2. /\ w \in V /\ Len(v) \in Nat /\ Len(w) = Len(v) + 1 /\ w[Len(v) + 1] = x
          /\ \A i \in 1 .. Len(v) : w[i] = v[i]
      BY <1>3, <1>4, <2>1, <3>1
    <3>3. \A i \in 1 .. Len(w) : i = Len(v) + 1 \/ i \in 1 .. Len(v)
      BY <3>2
    <3>4. From(w, k + 1)
      <4>1. ASSUME NEW i \in 1 .. Len(w) PROVE w[i] \notin gone /\ \E j \in 1 .. k + 1 : w[i] = list[j]
        <5>1. CASE i = Len(v) + 1
          <6>1. w[i] = list[k + 1] /\ k + 1 \in 1 .. k + 1 /\ w[i] \notin gone
            BY <2>1, <2>5, <3>2, <5>1 DEF x
          <6> QED BY <6>1
        <5>2. CASE i \in 1 .. Len(v)
          BY <2>1, <2>3, <3>2, <5>2
        <5> QED BY <3>3, <5>1, <5>2
      <4> QED BY <4>1
    <3>5. Once(w)
      <4> SUFFICES ASSUME \A i, j \in 1 .. N : list[i] = list[j] => i = j, NEW i \in 1 .. Len(w), NEW j \in 1 .. Len(w), w[i] = w[j]
                   PROVE  i = j
        OBVIOUS
      <4>1. \A m \in 1 .. Len(v) : v[m] # x
        <5> SUFFICES ASSUME NEW m \in 1 .. Len(v), v[m] = x PROVE FALSE
          OBVIOUS
        <5>1. PICK j2 \in 1 .. k : v[m] = list[j2]
          BY <2>1
        <5>2. j2 \in 1 .. N /\ k + 1 \in 1 .. N /\ list[j2] = list[k + 1] /\ j2 # k + 1
          BY <2>1, <2>3, <5>1 DEF x
        <5> QED BY <5>2
      <4>2. \A a, b \in 1 .. Len(v) : v[a] = v[b] => a = b
        BY <2>1
      <4> QED BY <3>2, <3>3, <4>1, <4>2
    <3> QED BY <3>2, <3>4, <3>5 DEF w
  <2> QED BY <2>4, <2>5 DEF w
<1> HIDE DEF T
<1>14. \A k \in Nat : k \in T
  BY <1>12, <1>13, Induct
<1>15. kept[N] \in V /\ From(kept[N], N) /\ Once(kept[N])
  BY <1>1, <1>14, SMTT(60) DEF T
<1> QED BY <1>2, <1>15 DEF N, V

\* All but the last of a sequence, and the last.
LEMMA FrontIs ==
  ASSUME NEW S, NEW s \in Seq(S), s # <<>>, NEW e \in S
  PROVE  /\ Front(s) \in Seq(S) /\ Last(s) = s[Len(s)] /\ Last(s) \in S /\ Len(s) \in 1 .. Len(s)
         /\ Append(Front(s), e) \in Seq(S) /\ Len(Append(Front(s), e)) = Len(s)
         /\ \A i \in 1 .. Len(s) - 1 : Append(Front(s), e)[i] = s[i]
         /\ Append(Front(s), e)[Len(s)] = e /\ Append(Front(s), e) # <<>>
         /\ s = Append(Front(s), Last(s))
<1> DEFINE f == Front(s)
           x == Last(s)
           r == Append(f, x)
<1>1. /\ Len(s) \in Nat /\ Len(s) > 0 /\ Len(s) \in 1 .. Len(s)
      /\ \A i \in 1 .. Len(s) : s[i] \in S
  BY SeqIs
<1>2. x = s[Len(s)] /\ x \in S
  BY <1>1 DEF Last
<1>3. f \in Seq(S) /\ Len(f) = Len(s) - 1 /\ \A i \in 1 .. Len(s) - 1 : f[i] = s[i]
  <2> DEFINE m == Len(s) - 1
  <2>1. f = SubSeq(s, 1, m) /\ m \in Nat /\ \A i \in 1 .. m : i \in 1 .. Len(s)
    BY <1>1 DEF Front
  <2>2. f = [i \in 1 .. m |-> s[i]]
    BY <2>1
  <2> HIDE DEF f, m
  <2>3. f \in Seq(S) /\ Len(f) = m
    BY <1>1, <2>1, <2>2
  <2> QED BY <2>2, <2>3 DEF m
<1> HIDE DEF f, x
<1>4. /\ Append(f, e) \in Seq(S) /\ Len(Append(f, e)) = Len(s) /\ Append(f, e)[Len(s)] = e
      /\ \A i \in 1 .. Len(s) - 1 : Append(f, e)[i] = s[i]
  BY <1>1, <1>3, AppendIs
<1>5. /\ r \in Seq(S) /\ Len(r) = Len(s) /\ r[Len(s)] = x
      /\ \A i \in 1 .. Len(s) - 1 : r[i] = s[i]
  BY <1>1, <1>2, <1>3, AppendIs
<1> HIDE DEF r
<1>6. \A i \in 1 .. Len(s) : i = Len(s) \/ i \in 1 .. Len(s) - 1
  BY <1>1
<1>7. r = s
  BY <1>2, <1>5, <1>6, SeqEqual
<1>8. Append(f, e) # <<>>
  BY <1>1, <1>4, EmptyIs
<1> QED BY <1>1, <1>2, <1>3, <1>4, <1>7, <1>8 DEF f, x, r

LEMMA FrontAppend ==
  ASSUME NEW S, NEW s \in Seq(S), NEW e \in S
  PROVE  Front(Append(s, e)) = s /\ Last(Append(s, e)) = e /\ Append(s, e) # <<>>
  BY DEF Front, Last

\* The bytes of some chunks.
LEMMA TotalIs ==
  ASSUME NEW data \in Seq(Chunk), NEW c \in Chunk
  PROVE  Total(data) \in Nat /\ Total(<<>>) = 0 /\ Total(Append(data, c)) = Total(data) + c.len
<1> DEFINE lens == [i \in 1 .. Len(data) |-> data[i].len]
           more == Append(data, c)
<1>1. /\ Len(data) \in Nat /\ c.len \in Nat /\ \A i \in 1 .. Len(data) : data[i].len \in Nat
      /\ Len(more) = Len(data) + 1 /\ more[Len(data) + 1] = c
      /\ \A i \in 1 .. Len(data) : more[i] = data[i]
  <2>1. \A x \in Chunk : x.len \in Nat
    BY DEF Chunk
  <2>2. Len(data) \in Nat /\ \A i \in 1 .. Len(data) : data[i] \in Chunk
    BY SeqIs
  <2> QED BY <2>1, <2>2, AppendIs
<1> HIDE DEF more
<1>2. lens \in Seq(Nat) /\ Len(lens) = Len(data) /\ \A i \in 1 .. Len(data) : lens[i] = data[i].len
  BY <1>1
<1> HIDE DEF lens
<1>3. Total(data) = SumSeq(lens)
  BY DEF Total, lens
<1>4. Total(<<>>) = SumSeq(<<>>)
  <2>1. [i \in 1 .. Len(<<>>) |-> <<>>[i].len] = <<>>
    OBVIOUS
  <2> QED BY <2>1 DEF Total
<1>5. Total(more) = SumSeq(Append(lens, c.len))
  <2> DEFINE a == [i \in 1 .. Len(more) |-> more[i].len]
             b == Append(lens, c.len)
  <2>1. a \in Seq(Nat) /\ Len(a) = Len(data) + 1 /\ \A i \in 1 .. Len(data) + 1 : a[i] = more[i].len
    <3>1. ASSUME NEW i \in 1 .. Len(data) + 1 PROVE more[i].len \in Nat
      <4>1. i = Len(data) + 1 \/ i \in 1 .. Len(data)
        BY <1>1
      <4> QED BY <1>1, <4>1
    <3> QED BY <1>1, <3>1
  <2>2. b \in Seq(Nat) /\ Len(b) = Len(data) + 1 /\ b[Len(data) + 1] = c.len /\ \A i \in 1 .. Len(data) : b[i] = lens[i]
    BY <1>1, <1>2, AppendIs
  <2> HIDE DEF a, b
  <2>3. \A i \in 1 .. Len(data) + 1 : a[i] = b[i]
    <3> SUFFICES ASSUME NEW i \in 1 .. Len(data) + 1 PROVE a[i] = b[i]
      OBVIOUS
    <3>1. i = Len(data) + 1 \/ i \in 1 .. Len(data)
      BY <1>1
    <3> QED BY <1>1, <1>2, <2>1, <2>2, <3>1
  <2>4. a = b
    BY <2>1, <2>2, <2>3, SeqEqual
  <2> QED BY <2>4 DEF Total, a, b
<1> QED BY <1>1, <1>2, <1>3, <1>4, <1>5, SumAppend DEF more

-----------------------------------------------------------------------------
(* AudioArchive: type correctness.                                         *)

LEMMA ArchiveConstants ==
  /\ WavHeader \in Nat /\ MaxSize \in Nat /\ TotalCap \in Nat /\ MaxRuns \in Nat
  /\ Len(Lengths) \in Nat /\ \A i \in 1 .. Len(Lengths) : Lengths[i] \in Nat
  /\ Runs \subseteq Nat
  BY AudioArchiveAssumption DEF AudioArchiveAssumption, Runs

LEMMA RunsFrom0 == Runs \subseteq 0 .. MaxRuns
  BY DEF Runs

\* Files and what is changed in them.
LEMMA FileIs ==
  /\ NewFile \in WavFile /\ ~NewFile.header /\ ~NewFile.torn
  /\ NewFile.riff = 0 /\ NewFile.size = 0 /\ NewFile.data = <<>>
  /\ \A f \in WavFile : /\ f.header \in BOOLEAN /\ f.torn \in BOOLEAN
                        /\ f.riff \in Nat /\ f.size \in Nat /\ f.data \in Seq(Chunk)
<1>1. <<>> \in Seq(Chunk)
  BY EmptyIs
<1> QED BY <1>1 DEF NewFile, WavFile

LEMMA HeaderSet ==
  ASSUME NEW f \in WavFile
  PROVE  LET g == [f EXCEPT !.header = TRUE]
         IN  g \in WavFile /\ g.header /\ g.torn = f.torn /\ g.riff = f.riff /\ g.size = f.size /\ g.data = f.data
<1>1. [f EXCEPT !.header = TRUE] \in WavFile
  BY DEF WavFile
<1> QED BY <1>1 DEF WavFile

LEMMA TornSet ==
  ASSUME NEW f \in WavFile
  PROVE  LET g == [f EXCEPT !.torn = TRUE]
         IN  g \in WavFile /\ g.riff = f.riff /\ g.size = f.size /\ g.data = f.data
<1>1. [f EXCEPT !.torn = TRUE] \in WavFile
  BY DEF WavFile
<1> QED BY <1>1 DEF WavFile

LEMMA RiffSet ==
  ASSUME NEW f \in WavFile, NEW n \in Nat
  PROVE  LET g == [f EXCEPT !.riff = n]
         IN  g \in WavFile /\ g.header = f.header /\ g.torn = f.torn /\ g.riff = n /\ g.size = f.size /\ g.data = f.data
<1>1. [f EXCEPT !.riff = n] \in WavFile
  BY DEF WavFile
<1> QED BY <1>1 DEF WavFile

LEMMA SizeSet ==
  ASSUME NEW f \in WavFile, NEW n \in Nat
  PROVE  LET g == [f EXCEPT !.size = n]
         IN  g \in WavFile /\ g.header = f.header /\ g.torn = f.torn /\ g.riff = f.riff /\ g.size = n /\ g.data = f.data
<1>1. [f EXCEPT !.size = n] \in WavFile
  BY DEF WavFile
<1> QED BY <1>1 DEF WavFile

LEMMA DataSet ==
  ASSUME NEW f \in WavFile, NEW d \in Seq(Chunk)
  PROVE  LET g == [f EXCEPT !.data = d]
         IN  g \in WavFile /\ g.header = f.header /\ g.torn = f.torn /\ g.riff = f.riff /\ g.size = f.size /\ g.data = d
<1>1. [f EXCEPT !.data = d] \in WavFile
  BY DEF WavFile
<1> QED BY <1>1 DEF WavFile

\* A sequence without one of its places, and with one more.
LEMMA DropIs ==
  ASSUME NEW S, NEW list \in Seq(S), NEW i \in 1 .. Len(list)
  PROVE  LET drop == RemoveAt(list, i)
         IN  /\ drop \in Seq(S) /\ Len(drop) = Len(list) - 1
             /\ \A j \in 1 .. Len(drop) : drop[j] = IF j < i THEN list[j] ELSE list[j + 1]
             /\ SubSeq(list, 1, i - 1) \in Seq(S) /\ SubSeq(list, i + 1, Len(list)) \in Seq(S)
<1> DEFINE n == Len(list)
           a == SubSeq(list, 1, i - 1)
           b == SubSeq(list, i + 1, n)
<1>1. n \in Nat /\ i \in 1 .. n /\ \A j \in 1 .. n : list[j] \in S
  BY SeqIs
<1>2. a \in Seq(S) /\ Len(a) = i - 1 /\ \A j \in 1 .. i - 1 : a[j] = list[j]
  <2>1. a = [j \in 1 .. i - 1 |-> list[j]]
    BY <1>1
  <2>2. i - 1 \in Nat /\ \A j \in 1 .. i - 1 : j \in 1 .. n
    BY <1>1
  <2> HIDE DEF a, n
  <2> QED BY <1>1, <2>1, <2>2
<1>3. b \in Seq(S) /\ Len(b) = n - i /\ \A j \in 1 .. n - i : b[j] = list[j + i]
  <2>1. b = [j \in 1 .. n - i |-> list[j + i]]
    BY <1>1
  <2>2. n - i \in Nat /\ \A j \in 1 .. n - i : j + i \in 1 .. n
    BY <1>1
  <2> HIDE DEF b, n
  <2> QED BY <1>1, <2>1, <2>2
<1>4. RemoveAt(list, i) = a \o b
  BY DEF RemoveAt
<1> HIDE DEF a, b, n
<1> DEFINE c == a \o b
<1>5. /\ c \in Seq(S) /\ Len(c) = n - 1
      /\ \A j \in 1 .. Len(a) : c[j] = a[j]
      /\ \A k \in 1 .. Len(b) : c[Len(a) + k] = b[k]
  <2>1. a \in Seq(S) /\ b \in Seq(S)
    BY <1>2, <1>3
  <2>2. /\ c \in Seq(S) /\ Len(c) = Len(a) + Len(b)
        /\ \A j \in 1 .. Len(a) : c[j] = a[j]
        /\ \A k \in 1 .. Len(b) : c[Len(a) + k] = b[k]
    BY <2>1
  <2>3. Len(a) + Len(b) = n - 1
    BY <1>1, <1>2, <1>3
  <2> QED BY <2>2, <2>3
<1> HIDE DEF c
<1>6. ASSUME NEW j \in 1 .. n - 1 PROVE c[j] = IF j < i THEN list[j] ELSE list[j + 1]
  <2>1. CASE j < i
    <3>1. j \in 1 .. Len(a) /\ j \in 1 .. i - 1
      BY <1>1, <1>2, <2>1
    <3> QED BY <1>2, <1>5, <2>1, <3>1
  <2>2. CASE ~(j < i)
    <3> DEFINE k == j - (i - 1)
    <3>1. k \in 1 .. Len(b) /\ j = Len(a) + k /\ k + i = j + 1
      BY <1>1, <1>2, <1>3, <2>2
    <3> HIDE DEF k
    <3>2. c[j] = b[k]
      BY <1>5, <3>1
    <3>3. b[k] = list[k + i]
      BY <1>3, <3>1
    <3> QED BY <2>2, <3>1, <3>2, <3>3
  <2> QED BY <2>1, <2>2
<1> QED BY <1>2, <1>3, <1>4, <1>5, <1>6 DEF a, b, c, n

LEMMA InsertIs ==
  ASSUME NEW S, NEW list \in Seq(S), NEW e \in S, NEW place \in 1 .. Len(list) + 1
  PROVE  LET more == InsertAt(list, place, e)
         IN  /\ more \in Seq(S) /\ Len(more) = Len(list) + 1
             /\ \A j \in 1 .. Len(more) : more[j] = IF j < place THEN list[j]
                                                    ELSE IF j = place THEN e ELSE list[j - 1]
<1> DEFINE n == Len(list)
           a == SubSeq(list, 1, place - 1)
           b == SubSeq(list, place, n)
           c == (a \o <<e>>) \o b
<1>1. n \in Nat /\ place \in 1 .. n + 1 /\ \A j \in 1 .. n : list[j] \in S
  BY SeqIs
<1>2. a \in Seq(S) /\ Len(a) = place - 1 /\ \A j \in 1 .. place - 1 : a[j] = list[j]
  <2>1. a = [j \in 1 .. place - 1 |-> list[j]]
    BY <1>1
  <2>2. place - 1 \in Nat /\ \A j \in 1 .. place - 1 : j \in 1 .. n
    BY <1>1
  <2> HIDE DEF a, n
  <2> QED BY <1>1, <2>1, <2>2
<1>3. b \in Seq(S) /\ Len(b) = n - place + 1 /\ \A j \in 1 .. n - place + 1 : b[j] = list[j + place - 1]
  <2>1. b = [j \in 1 .. n - place + 1 |-> list[j + place - 1]]
    BY <1>1
  <2>2. n - place + 1 \in Nat /\ \A j \in 1 .. n - place + 1 : j + place - 1 \in 1 .. n
    BY <1>1
  <2> HIDE DEF b, n
  <2> QED BY <1>1, <2>1, <2>2
<1>4. InsertAt(list, place, e) = c
  BY DEF InsertAt
<1> HIDE DEF a, b, n
<1> DEFINE d == a \o <<e>>
<1>5. /\ d \in Seq(S) /\ Len(d) = place /\ d[place] = e
      /\ \A j \in 1 .. place - 1 : d[j] = a[j]
  BY <1>1, <1>2
<1> HIDE DEF d
<1>6. /\ c \in Seq(S) /\ Len(c) = n + 1
      /\ \A j \in 1 .. Len(d) : c[j] = d[j]
      /\ \A k \in 1 .. Len(b) : c[Len(d) + k] = b[k]
  <2>1. c = d \o b /\ d \in Seq(S) /\ b \in Seq(S)
    BY <1>3, <1>5 DEF d
  <2> HIDE DEF c
  <2>2. /\ c \in Seq(S) /\ Len(c) = Len(d) + Len(b)
        /\ \A j \in 1 .. Len(d) : c[j] = d[j]
        /\ \A k \in 1 .. Len(b) : c[Len(d) + k] = b[k]
    BY <2>1
  <2>3. Len(d) + Len(b) = n + 1
    BY <1>1, <1>3, <1>5
  <2> QED BY <2>2, <2>3
<1> HIDE DEF c
<1>7. ASSUME NEW j \in 1 .. n + 1
      PROVE  c[j] = IF j < place THEN list[j] ELSE IF j = place THEN e ELSE list[j - 1]
  <2>1. CASE j < place
    <3>1. j \in 1 .. place - 1 /\ j \in 1 .. Len(d)
      BY <1>1, <1>5, <2>1
    <3>2. c[j] = d[j]
      BY <1>6, <3>1
    <3> QED BY <1>2, <1>5, <2>1, <3>1, <3>2
  <2>2. CASE j = place
    <3>1. j \in 1 .. Len(d)
      BY <1>1, <1>5, <2>2
    <3>2. c[j] = d[j]
      BY <1>6, <3>1
    <3>3. d[j] = e /\ ~(j < place)
      BY <1>1, <1>5, <2>2
    <3> QED BY <2>2, <3>2, <3>3
  <2>3. CASE ~(j < place) /\ j # place
    <3> DEFINE k == j - place
    <3>1. k \in 1 .. Len(b) /\ k \in 1 .. n - place + 1 /\ j = Len(d) + k /\ k + place - 1 = j - 1
      BY <1>1, <1>3, <1>5, <2>3
    <3> HIDE DEF k
    <3>2. c[j] = b[k]
      BY <1>6, <3>1
    <3>3. b[k] = list[k + place - 1]
      BY <1>3, <3>1
    <3> QED BY <2>3, <3>1, <3>2, <3>3
  <2> QED BY <2>1, <2>2, <2>3
<1> QED BY <1>4, <1>6, <1>7 DEF n

\* A change of the open file of session s.
LEMMA ChangeIs ==
  ASSUME ArchiveTypeOK, NEW s \in Runs, NEW file \in WavFile, Change(s, file)
  PROVE  /\ there' = there /\ named' = named /\ cut' = cut
         /\ files' \in [Runs -> Seq(WavFile)] /\ recent' \in Seq(Runs)
         /\ \A t \in Runs \ {s} : files'[t] = files[t]
         /\ ~named[s] => files' = files
         /\ named[s] /\ files[s] # <<>> =>
              /\ Len(files'[s]) = Len(files[s]) /\ files'[s] # <<>>
              /\ \A i \in 1 .. Len(files[s]) - 1 : files'[s][i] = files[s][i]
              /\ files'[s][Len(files[s])] = file
<1>1. /\ files \in [Runs -> Seq(WavFile)] /\ recent \in Seq(Runs)
      /\ there' = there /\ named' = named /\ cut' = cut
  BY DEF ArchiveTypeOK, Change
<1> DEFINE new == Append(Front(files[s]), file)
<1>2. new \in Seq(WavFile)
  <2>1. CASE files[s] # <<>>
    BY <1>1, <2>1, FrontIs
  <2>2. CASE files[s] = <<>>
    <3>1. Front(<<>>) = <<>>
      BY DEF Front
    <3>2. <<>> \in Seq(WavFile)
      BY EmptyIs
    <3> QED BY <2>2, <3>1, <3>2, AppendIs
  <2> QED BY <2>1, <2>2
<1>3. CASE named[s]
  <2>1. files' = [files EXCEPT ![s] = new] /\ recent' = Append(Without(recent, {s}), s)
    BY <1>3 DEF Change
  <2>2. Without(recent, {s}) \in Seq(Runs)
    BY <1>1, WithoutIs
  <2>3. recent' \in Seq(Runs)
    BY <2>1, <2>2, AppendIs
  <2>4. files'[s] = new /\ \A t \in Runs \ {s} : files'[t] = files[t]
    BY <1>1, <2>1
  <2>5. files' \in [Runs -> Seq(WavFile)]
    BY <1>1, <1>2, <2>1
  <2>6. files[s] # <<>> => /\ Len(new) = Len(files[s]) /\ new # <<>>
                           /\ \A i \in 1 .. Len(files[s]) - 1 : new[i] = files[s][i]
                           /\ new[Len(files[s])] = file
    <3> SUFFICES ASSUME files[s] # <<>>
                 PROVE  /\ Len(new) = Len(files[s]) /\ new # <<>>
                        /\ \A i \in 1 .. Len(files[s]) - 1 : new[i] = files[s][i]
                        /\ new[Len(files[s])] = file
      OBVIOUS
    <3>1. files[s] \in Seq(WavFile)
      BY <1>1
    <3> QED BY <3>1, FrontIs
  <2> QED BY <1>1, <1>3, <2>3, <2>4, <2>5, <2>6
<1>4. CASE ~named[s]
  BY <1>1, <1>4 DEF Change
<1> QED BY <1>3, <1>4

LEMMA CurrentIs ==
  ASSUME ArchiveTypeOK, NEW s \in Runs
  PROVE  /\ Current(s) \in WavFile
         /\ files[s] # <<>> => Current(s) = files[s][Len(files[s])] /\ Len(files[s]) \in 1 .. Len(files[s])
<1>1. files[s] \in Seq(WavFile)
  BY DEF ArchiveTypeOK
<1>2. CASE files[s] = <<>>
  BY <1>2, FileIs DEF Current
<1>3. CASE files[s] # <<>>
  <2>1. Last(files[s]) = files[s][Len(files[s])] /\ Last(files[s]) \in WavFile /\ Len(files[s]) \in 1 .. Len(files[s])
    BY <1>1, <1>3, FileIs, FrontIs
  <2> QED BY <1>3, <2>1 DEF Current
<1> QED BY <1>2, <1>3

\* A directory, or one of its files, is removed.
LEMMA RemoveDirIs ==
  ASSUME ArchiveTypeOK, NEW t \in Runs, RemoveDir(t)
  PROVE  /\ t \in there /\ files[t] = <<>> /\ there' = there \ {t} /\ recent' \in Seq(Runs)
         /\ recent' = Without(recent, {t}) /\ files' = files /\ named' = named /\ cut' = cut
  BY WithoutIs DEF ArchiveTypeOK, RemoveDir

LEMMA RemoveFileIs ==
  ASSUME ArchiveTypeOK, NEW t \in Runs, NEW i \in 1 .. Len(files[t]), RemoveFile(t, i)
  PROVE  /\ there' = there /\ cut' = cut \union {t}
         /\ files' \in [Runs -> Seq(WavFile)] /\ named' \in [Runs -> BOOLEAN] /\ recent' \in Seq(Runs)
         /\ files'[t] = RemoveAt(files[t], i) /\ named'[t] = (named[t] /\ i # Len(files[t]))
         /\ \A r \in Runs \ {t} : files'[r] = files[r] /\ named'[r] = named[r]
         /\ \/ recent' = recent
            \/ \E place \in 1 .. Len(Without(recent, {t})) + 1 :
                 recent' = InsertAt(Without(recent, {t}), place, t)
<1>1. /\ files \in [Runs -> Seq(WavFile)] /\ named \in [Runs -> BOOLEAN] /\ recent \in Seq(Runs)
      /\ files[t] \in Seq(WavFile) /\ named[t] \in BOOLEAN
  BY DEF ArchiveTypeOK
<1>2. /\ files' = [files EXCEPT ![t] = RemoveAt(files[t], i)]
      /\ named' = [named EXCEPT ![t] = named[t] /\ ~(i = Len(files[t]))]
      /\ there' = there /\ cut' = cut \union {t}
      /\ \/ recent' = recent
         \/ \E place \in 1 .. Len(Without(recent, {t})) + 1 :
              recent' = InsertAt(Without(recent, {t}), place, t)
  BY DEF RemoveFile
<1>3. RemoveAt(files[t], i) \in Seq(WavFile)
  BY <1>1, DropIs
<1>4. recent' \in Seq(Runs)
  <2>1. Without(recent, {t}) \in Seq(Runs)
    BY <1>1, WithoutIs
  <2> DEFINE l == Without(recent, {t})
  <2> HIDE DEF l
  <2>2. \A place \in 1 .. Len(l) + 1 : InsertAt(l, place, t) \in Seq(Runs)
    BY <2>1, InsertIs DEF l
  <2> QED BY <1>1, <1>2, <2>2 DEF l
<1>5. /\ files' \in [Runs -> Seq(WavFile)] /\ files'[t] = RemoveAt(files[t], i)
      /\ \A r \in Runs \ {t} : files'[r] = files[r]
  BY <1>1, <1>2, <1>3
<1>6. /\ named' \in [Runs -> BOOLEAN] /\ named'[t] = (named[t] /\ i # Len(files[t]))
      /\ \A r \in Runs \ {t} : named'[r] = named[r]
  BY <1>1, <1>2
<1> QED BY <1>2, <1>4, <1>5, <1>6

\* The work of a session.
LEMMA WorkIs ==
  ASSUME ArchiveTypeOK, NEW s \in Runs
  PROVE  /\ work[s] \in Eviction /\ work[s].list \in Seq([id : Runs, size : Nat])
         /\ Len(work[s].list) \in Nat
         /\ \A i \in 1 .. Len(work[s].list) : work[s].list[i].id \in Runs /\ work[s].list[i].size \in Nat
         /\ work[s].at \in Nat /\ work[s].at > 0 /\ work[s].remaining \in Int
         /\ work[s].failed \in SUBSET Runs /\ work[s].evicted \in SUBSET Runs
         /\ work[s].old \in SUBSET Runs /\ work[s].target \in 0 .. MaxRuns
         /\ ~Relieved(s) => work[s].at \in 1 .. Len(work[s].list) /\ work[s].remaining > TotalCap
<1>1. work[s] \in Eviction
  BY DEF ArchiveTypeOK
<1>2. /\ work[s].list \in Seq([id : Runs, size : Nat]) /\ work[s].at \in Nat /\ work[s].at > 0
      /\ work[s].remaining \in Int /\ work[s].failed \in SUBSET Runs /\ work[s].evicted \in SUBSET Runs
      /\ work[s].old \in SUBSET Runs /\ work[s].target \in 0 .. MaxRuns
  BY <1>1 DEF Eviction
<1>3. Len(work[s].list) \in Nat /\ \A i \in 1 .. Len(work[s].list) : work[s].list[i] \in [id : Runs, size : Nat]
  BY <1>2, SeqIs
<1>4. \A e \in [id : Runs, size : Nat] : e.id \in Runs /\ e.size \in Nat
  OBVIOUS
<1>5. ~Relieved(s) => work[s].at \in 1 .. Len(work[s].list) /\ work[s].remaining > TotalCap
  <2> DEFINE at == work[s].at
             n == Len(work[s].list)
             rem == work[s].remaining
  <2>1. at \in Nat /\ at > 0 /\ n \in Nat /\ rem \in Int /\ TotalCap \in Nat
    BY <1>2, <1>3, ArchiveConstants
  <2>2. ~Relieved(s) => ~(at > n) /\ ~(rem <= TotalCap)
    BY DEF Relieved
  <2> HIDE DEF at, n, rem
  <2>3. ~(at > n) /\ ~(rem <= TotalCap) => at \in 1 .. n /\ rem > TotalCap
    BY <2>1
  <2> QED BY <2>2, <2>3 DEF at, n, rem
<1> QED BY <1>1, <1>2, <1>3, <1>4, <1>5

\* The steps of the eviction: past an entry, past one that stays, past one that is
\* removed, and its beginning.
Passed(w, at) == [w EXCEPT !.at = at]
Stuck(w, at, gone) == [w EXCEPT !.at = at, !.failed = gone]
Took(w, at, gone, left) == [w EXCEPT !.at = at, !.evicted = gone, !.remaining = left]
Begun(w, list, left) == [w EXCEPT !.list = list, !.remaining = left]

LEMMA PassedIs ==
  ASSUME NEW w \in Eviction, NEW at \in Nat \ {0}
  PROVE  /\ Passed(w, at) \in Eviction /\ Passed(w, at).list = w.list /\ Passed(w, at).at = at
         /\ Passed(w, at).remaining = w.remaining
         /\ Passed(w, at).failed = w.failed /\ Passed(w, at).evicted = w.evicted
         /\ Passed(w, at).old = w.old /\ Passed(w, at).target = w.target
<1> DEFINE L == Seq([id : Runs, size : Nat])
           P == SUBSET Runs
           A == Nat \ {0}
           T == 0 .. MaxRuns
           E == [list : L, at : A, remaining : Int, failed : P, evicted : P, old : P, target : T]
<1>1. Eviction = E
  BY DEF Eviction
<1>2. w \in E /\ at \in A
  BY <1>1
<1> HIDE DEF L, P, A, T
<1>3. [w EXCEPT !.at = at] \in E
  BY <1>2
<1> QED BY <1>1, <1>2, <1>3 DEF Passed

LEMMA StuckFields ==
  ASSUME NEW w \in Eviction, NEW at \in Nat \ {0}, NEW gone \in SUBSET Runs
  PROVE  /\ Stuck(w, at, gone) \in Eviction
         /\ Stuck(w, at, gone).list = w.list /\ Stuck(w, at, gone).at = at
         /\ Stuck(w, at, gone).remaining = w.remaining
         /\ Stuck(w, at, gone).failed = gone /\ Stuck(w, at, gone).evicted = w.evicted
         /\ Stuck(w, at, gone).old = w.old /\ Stuck(w, at, gone).target = w.target
<1> DEFINE L == Seq([id : Runs, size : Nat])
           P == SUBSET Runs
           A == Nat \ {0}
           T == 0 .. MaxRuns
           E == [list : L, at : A, remaining : Int, failed : P, evicted : P, old : P, target : T]
<1>1. Eviction = E
  BY DEF Eviction
<1>2. w \in E /\ at \in A /\ gone \in P
  BY <1>1
<1> HIDE DEF L, P, A, T
<1>3. [w EXCEPT !.at = at, !.failed = gone] \in E
  BY <1>2
<1> QED BY <1>1, <1>2, <1>3 DEF Stuck

LEMMA TookIs ==
  ASSUME NEW w \in Eviction, NEW at \in Nat \ {0}, NEW gone \in SUBSET Runs, NEW left \in Int
  PROVE  /\ Took(w, at, gone, left) \in Eviction
         /\ Took(w, at, gone, left).list = w.list /\ Took(w, at, gone, left).at = at
         /\ Took(w, at, gone, left).remaining = left
         /\ Took(w, at, gone, left).failed = w.failed /\ Took(w, at, gone, left).evicted = gone
         /\ Took(w, at, gone, left).old = w.old /\ Took(w, at, gone, left).target = w.target
<1> DEFINE L == Seq([id : Runs, size : Nat])
           P == SUBSET Runs
           A == Nat \ {0}
           T == 0 .. MaxRuns
           E == [list : L, at : A, remaining : Int, failed : P, evicted : P, old : P, target : T]
<1>1. Eviction = E
  BY DEF Eviction
<1>2. w \in E /\ at \in A /\ gone \in P
  BY <1>1
<1> HIDE DEF L, P, A, T
<1>3. [w EXCEPT !.at = at, !.evicted = gone, !.remaining = left] \in E
  BY <1>2
<1> QED BY <1>1, <1>2, <1>3 DEF Took

LEMMA BegunIs ==
  ASSUME NEW w \in Eviction, NEW left \in Int, NEW list \in Seq([id : Runs, size : Nat])
  PROVE  /\ Begun(w, list, left) \in Eviction
         /\ Begun(w, list, left).list = list /\ Begun(w, list, left).at = w.at
         /\ Begun(w, list, left).remaining = left
         /\ Begun(w, list, left).failed = w.failed /\ Begun(w, list, left).evicted = w.evicted
         /\ Begun(w, list, left).old = w.old /\ Begun(w, list, left).target = w.target
<1> DEFINE L == Seq([id : Runs, size : Nat])
           P == SUBSET Runs
           A == Nat \ {0}
           T == 0 .. MaxRuns
           E == [list : L, at : A, remaining : Int, failed : P, evicted : P, old : P, target : T]
<1>1. Eviction = E
  BY DEF Eviction
<1>2. w \in E /\ list \in L
  BY <1>1
<1> HIDE DEF L, P, A, T
<1>3. [w EXCEPT !.list = list, !.remaining = left] \in E
  BY <1>2
<1> QED BY <1>1, <1>2, <1>3 DEF Begun

\* The steps of the expiry: its list, the next directory, and the end of that one.
Aged(w, old) == [w EXCEPT !.old = old]
Aimed(w, old, target) == [w EXCEPT !.old = old, !.target = target]
Freed(w) == [w EXCEPT !.target = 0]

LEMMA PurgeFields ==
  ASSUME NEW w \in Eviction, NEW old \in SUBSET Runs, NEW target \in 0 .. MaxRuns
  PROVE  /\ Aged(w, old) \in Eviction /\ Aimed(w, old, target) \in Eviction /\ Freed(w) \in Eviction
         /\ Aged(w, old).list = w.list /\ Aged(w, old).evicted = w.evicted
         /\ Aged(w, old).old = old /\ Aged(w, old).target = w.target
         /\ Aimed(w, old, target).list = w.list /\ Aimed(w, old, target).evicted = w.evicted
         /\ Aimed(w, old, target).old = old /\ Aimed(w, old, target).target = target
         /\ Freed(w).list = w.list /\ Freed(w).evicted = w.evicted
         /\ Freed(w).old = w.old /\ Freed(w).target = 0
<1> DEFINE L == Seq([id : Runs, size : Nat])
           P == SUBSET Runs
           A == Nat \ {0}
           T == 0 .. MaxRuns
           E == [list : L, at : A, remaining : Int, failed : P, evicted : P, old : P, target : T]
<1>1. Eviction = E
  BY DEF Eviction
<1>2. w \in E /\ old \in P /\ target \in T /\ 0 \in T
  BY <1>1, ArchiveConstants
<1> HIDE DEF L, P, A, T
<1>3. [w EXCEPT !.old = old] \in E
  BY <1>2
<1>4. [w EXCEPT !.old = old, !.target = target] \in E
  BY <1>2
<1>5. [w EXCEPT !.target = 0] \in E
  BY <1>2
<1>6. Aged(w, old) \in Eviction /\ Aimed(w, old, target) \in Eviction /\ Freed(w) \in Eviction
  BY <1>1, <1>3, <1>4, <1>5 DEF Aged, Aimed, Freed
<1>7. /\ Aged(w, old).list = w.list /\ Aged(w, old).evicted = w.evicted
      /\ Aged(w, old).old = old /\ Aged(w, old).target = w.target
  BY <1>2 DEF Aged
<1>8. /\ Aimed(w, old, target).list = w.list /\ Aimed(w, old, target).evicted = w.evicted
      /\ Aimed(w, old, target).old = old /\ Aimed(w, old, target).target = target
  BY <1>2 DEF Aimed
<1>9. /\ Freed(w).list = w.list /\ Freed(w).evicted = w.evicted
      /\ Freed(w).old = w.old /\ Freed(w).target = 0
  BY <1>2 DEF Freed
<1> QED BY <1>6, <1>7, <1>8, <1>9

LEMMA NoWorkIs ==
  /\ NoWork \in Eviction /\ NoWork.list = <<>> /\ NoWork.at = 1 /\ NoWork.remaining = 0
  /\ NoWork.failed = {} /\ NoWork.evicted = {} /\ NoWork.old = {} /\ NoWork.target = 0
<1>1. <<>> \in Seq([id : Runs, size : Nat]) /\ 0 \in 0 .. MaxRuns
  BY EmptyIs, ArchiveConstants
<1>2. /\ NoWork.list = <<>> /\ NoWork.at = 1 /\ NoWork.remaining = 0
      /\ NoWork.failed = {} /\ NoWork.evicted = {} /\ NoWork.old = {} /\ NoWork.target = 0
  BY DEF NoWork
<1>3. NoWork \in Eviction
  BY <1>1 DEF NoWork, Eviction
<1> QED BY <1>2, <1>3

Stages == {"off", "create", "header", "list", "evict", "expire", "purge", "remove", "idle",
           "samples", "riff", "size", "done"}

LEMMA GoesIs ==
  ASSUME ArchiveTypeOK, NEW s \in Runs, NEW to \in Stages, Goes(s, to)
  PROVE  /\ stage' \in [Runs -> Stages] /\ stage'[s] = to
         /\ \A t \in Runs \ {s} : stage'[t] = stage[t]
  BY DEF ArchiveTypeOK, Goes, Stages

\* The writer of s is no more.
LEMMA GoneIs ==
  ASSUME ArchiveTypeOK, NEW s \in Runs, Gone(s)
  PROVE  /\ stage' \in [Runs -> Stages] /\ stage'[s] = "done"
         /\ data_bytes' \in [Runs -> Nat] /\ segment' \in [Runs -> Nat]
         /\ hand' \in [Runs -> Chunk] /\ count' \in [Runs -> Nat] /\ work' \in [Runs -> Eviction]
         /\ work'[s] = NoWork
         /\ \A t \in Runs \ {s} : /\ stage'[t] = stage[t] /\ data_bytes'[t] = data_bytes[t]
                                  /\ segment'[t] = segment[t] /\ hand'[t] = hand[t]
                                  /\ count'[t] = count[t] /\ work'[t] = work[t]
<1>1. Goes(s, "done") /\ "done" \in Stages
  BY DEF Gone, Stages
<1>2. NoChunk \in Chunk /\ 0 \in Nat
  BY DEF NoChunk, Chunk
<1>3. work' \in [Runs -> Eviction] /\ work'[s] = NoWork /\ \A t \in Runs \ {s} : work'[t] = work[t]
  BY NoWorkIs DEF Gone, ArchiveTypeOK
<1>4. /\ data_bytes' \in [Runs -> Nat] /\ segment' \in [Runs -> Nat]
      /\ hand' \in [Runs -> Chunk] /\ count' \in [Runs -> Nat]
      /\ \A t \in Runs \ {s} : /\ data_bytes'[t] = data_bytes[t] /\ segment'[t] = segment[t]
                               /\ hand'[t] = hand[t] /\ count'[t] = count[t]
  BY <1>2 DEF Gone, ArchiveTypeOK
<1> QED BY <1>1, <1>3, <1>4, GoesIs

\* What the listing puts into the work.
Listed == [i \in 1 .. Len(recent) |-> [id |-> recent[i], size |-> DirSize(recent[i])]]

LEMMA SizesAre ==
  ASSUME ArchiveTypeOK
  PROVE  /\ \A s \in Runs : DirSize(s) \in Nat
         /\ Listed \in Seq([id : Runs, size : Nat]) /\ Len(Listed) = Len(recent)
         /\ \A i \in 1 .. Len(recent) : Listed[i].id = recent[i] /\ recent[i] \in Runs
<1>1. ASSUME NEW f \in WavFile PROVE FileSize(f) \in Nat
  <2>1. f.data \in Seq(Chunk)
    BY FileIs
  <2>2. NoChunk \in Chunk
    BY DEF NoChunk, Chunk
  <2>3. Total(f.data) \in Nat
    BY <2>1, <2>2, TotalIs
  <2> QED BY <2>3, ArchiveConstants DEF FileSize
<1>2. ASSUME NEW s \in Runs PROVE DirSize(s) \in Nat
  <2> DEFINE sizes == [i \in 1 .. Len(files[s]) |-> FileSize(files[s][i])]
  <2>1. files[s] \in Seq(WavFile)
    BY DEF ArchiveTypeOK
  <2>2. \A i \in 1 .. Len(files[s]) : files[s][i] \in WavFile
    BY <2>1, SeqIs
  <2>3. Len(files[s]) \in Nat /\ \A i \in 1 .. Len(files[s]) : FileSize(files[s][i]) \in Nat
    BY <1>1, <2>1, <2>2
  <2>4. sizes \in Seq(Nat)
    BY <2>3
  <2> QED BY <2>4, SumBy, SumIs DEF DirSize
<1>3. recent \in Seq(Runs) /\ Len(recent) \in Nat /\ \A i \in 1 .. Len(recent) : recent[i] \in Runs
  BY DEF ArchiveTypeOK
<1>4. \A i \in 1 .. Len(recent) : [id |-> recent[i], size |-> DirSize(recent[i])] \in [id : Runs, size : Nat]
  BY <1>2, <1>3
<1>5. Listed \in Seq([id : Runs, size : Nat]) /\ Len(Listed) = Len(recent)
  BY <1>3, <1>4 DEF Listed
<1> QED BY <1>2, <1>3, <1>5 DEF Listed

LEMMA SumOfIs ==
  ASSUME NEW list \in Seq([id : Runs, size : Nat])
  PROVE  SumOf(list) \in Nat
<1> DEFINE sizes == [i \in 1 .. Len(list) |-> list[i].size]
<1>1. Len(list) \in Nat /\ \A i \in 1 .. Len(list) : list[i] \in [id : Runs, size : Nat]
  BY SeqIs
<1>2. \A i \in 1 .. Len(list) : list[i].size \in Nat
  BY <1>1
<1>3. sizes \in Seq(Nat)
  BY <1>1, <1>2
<1> QED BY <1>3, SumBy, SumIs DEF SumOf

LEMMA ArchiveTypeInit == ArchiveInit => ArchiveTypeOK
<1> SUFFICES ASSUME ArchiveInit PROVE ArchiveTypeOK
  OBVIOUS
<1>1. <<>> \in Seq(WavFile) /\ <<>> \in Seq(Runs) /\ NoChunk \in Chunk
  BY EmptyIs DEF NoChunk, Chunk
<1> QED BY <1>1, NoWorkIs DEF ArchiveInit, ArchiveTypeOK

LEMMA ArchiveTypeStep == ArchiveTypeOK /\ [ArchiveNext]_archiveVars => ArchiveTypeOK'
<1> SUFFICES ASSUME ArchiveTypeOK, [ArchiveNext]_archiveVars PROVE ArchiveTypeOK'
  OBVIOUS
<1> USE DEF archiveVars, diskVars, runVars
<1>1. CASE UNCHANGED archiveVars
  BY <1>1 DEF ArchiveTypeOK
<1>2. ASSUME NEW s \in Runs, Steps(s) PROVE ArchiveTypeOK'
  <2> DEFINE Typed == /\ there' \subseteq Runs /\ files' \in [Runs -> Seq(WavFile)] /\ recent' \in Seq(Runs)
                      /\ named' \in [Runs -> BOOLEAN] /\ cut' \subseteq Runs
             Ran == /\ data_bytes' \in [Runs -> Nat] /\ segment' \in [Runs -> Nat]
                    /\ hand' \in [Runs -> Chunk] /\ count' \in [Runs -> Nat]
  <2>1. /\ there \subseteq Runs /\ files \in [Runs -> Seq(WavFile)] /\ recent \in Seq(Runs)
        /\ named \in [Runs -> BOOLEAN] /\ cut \subseteq Runs
        /\ stage \in [Runs -> Stages] /\ data_bytes \in [Runs -> Nat] /\ segment \in [Runs -> Nat]
        /\ hand \in [Runs -> Chunk] /\ count \in [Runs -> Nat] /\ work \in [Runs -> Eviction]
        /\ files[s] \in Seq(WavFile)
    BY DEF ArchiveTypeOK, Stages
  <2>2. SUFFICES Typed /\ stage' \in [Runs -> Stages] /\ Ran /\ work' \in [Runs -> Eviction]
    BY DEF ArchiveTypeOK, Stages
  <2>3. \A to \in Stages : Goes(s, to) => stage' \in [Runs -> Stages]
    BY GoesIs
  <2>4. "create" \in Stages /\ "header" \in Stages /\ "list" \in Stages /\ "samples" \in Stages
        /\ "riff" \in Stages /\ "size" \in Stages /\ "idle" \in Stages /\ "evict" \in Stages /\ "expire" \in Stages
        /\ "purge" \in Stages /\ "remove" \in Stages
    BY DEF Stages
  <2>5. Current(s) \in WavFile /\ hand[s] \in Chunk /\ data_bytes[s] \in Nat
    BY <2>1, CurrentIs
  <2>6. \A file \in WavFile : Change(s, file) => Typed
    BY <2>1, ChangeIs
  <2>7. \A t \in Runs : RemoveDir(t) => Typed
    BY <2>1, RemoveDirIs
  <2>8. Current(s).data \in Seq(Chunk) /\ Append(Current(s).data, hand[s]) \in Seq(Chunk)
    BY <2>5, FileIs, AppendIs
  <2> HIDE DEF Typed
  <2>9. CASE Start(s)
    <3>1. there' \subseteq Runs /\ recent' \in Seq(Runs) /\ files' = files
      BY <2>1, <2>9, AppendIs DEF Start
    <3> QED BY <2>1, <2>3, <2>4, <2>9, <3>1 DEF Start, Typed
  <2>10. CASE Create(s)
    <3>1. Append(files[s], NewFile) \in Seq(WavFile)
      BY <2>1, FileIs, AppendIs
    <3>2. files' \in [Runs -> Seq(WavFile)] /\ named' \in [Runs -> BOOLEAN]
      BY <2>1, <2>10, <3>1 DEF Create
    <3>3. Without(recent, {s}) \in Seq(Runs)
      BY <2>1, WithoutIs
    <3>4. recent' \in Seq(Runs)
      BY <2>10, <3>3, AppendIs DEF Create
    <3> QED BY <2>1, <2>3, <2>4, <2>10, <3>2, <3>4 DEF Create, Typed
  <2>11. CASE WriteHeader(s)
    <3>1. Typed
      BY <2>5, <2>6, <2>11, HeaderSet, FileIs DEF WriteHeader
    <3>2. Ran
      BY <2>1, <2>11 DEF WriteHeader
    <3> QED BY <2>1, <2>3, <2>4, <2>11, <3>1, <3>2 DEF WriteHeader
  <2>12. CASE Take(s)
    <3>1. count[s] \in Nat /\ count' = [count EXCEPT ![s] = @ + 1]
      BY <2>1, <2>12 DEF Take
    <3>2. count'[s] = count[s] + 1 /\ count' \in [Runs -> Nat] /\ count[s] < Len(Lengths)
      BY <2>1, <2>12, <3>1 DEF Take
    <3>3. count'[s] \in 1 .. Len(Lengths)
      BY <3>1, <3>2, ArchiveConstants
    <3>4. [n |-> count'[s], len |-> Lengths[count'[s]]] \in Chunk
      BY <3>1, <3>2, <3>3, ArchiveConstants DEF Chunk
    <3>5. hand' \in [Runs -> Chunk]
      BY <2>1, <2>12, <3>4 DEF Take
    <3> QED BY <2>1, <2>3, <2>4, <2>12, <3>2, <3>5 DEF Take, Typed
  <2>13. CASE Samples(s)
    <3>1. Typed
      BY <2>5, <2>6, <2>8, <2>13, DataSet DEF Samples
    <3>2. hand[s].len \in Nat
      BY <2>5 DEF Chunk
    <3>3. Ran
      BY <2>1, <2>13, <3>2 DEF Samples
    <3> QED BY <2>1, <2>3, <2>4, <2>13, <3>1, <3>3 DEF Samples
  <2>14. CASE PatchRiff(s)
    <3>1. Typed
      BY <2>5, <2>6, <2>8, <2>14, RiffSet DEF PatchRiff
    <3> QED BY <2>1, <2>3, <2>4, <2>14, <3>1 DEF PatchRiff
  <2>15. CASE PatchSize(s)
    <3>1. Typed
      BY <2>5, <2>6, <2>8, <2>15, SizeSet DEF PatchSize
    <3> QED BY <2>1, <2>3, <2>4, <2>15, <3>1 DEF PatchSize
  <2>16. CASE Fail(s)
    <3>1. Typed
      <4>1. CASE Change(s, [Current(s) EXCEPT !.torn = TRUE])
        BY <2>5, <2>6, <2>8, <4>1, TornSet
      <4>2. CASE UNCHANGED diskVars
        BY <2>1, <4>2 DEF Typed
      <4> QED BY <2>16, <4>1, <4>2 DEF Fail
    <3>2. Gone(s)
      BY <2>16 DEF Fail
    <3> QED BY <3>1, <3>2, GoneIs
  <2>17. CASE Exit(s)
    <3>1. Typed /\ Gone(s)
      BY <2>1, <2>17 DEF Exit, Typed
    <3> QED BY <3>1, GoneIs
  <2>18. CASE List(s)
    <3>1. Typed /\ Ran
      BY <2>1, <2>18 DEF List, Typed
    <3>2. stage' \in [Runs -> Stages]
      BY <2>3, <2>4, <2>18 DEF List
    <3>3. Listed \in Seq([id : Runs, size : Nat])
      BY SizesAre
    <3>4. SumOf(Listed) \in Nat
      BY <3>3, SumOfIs
    <3> DEFINE w == Begun(NoWork, Listed, SumOf(Listed))
    <3>5. w \in Eviction
      <4>1. NoWork \in Eviction /\ SumOf(Listed) \in Int
        BY <3>4, NoWorkIs
      <4> QED BY <3>3, <4>1, BegunIs
    <3>6. work' = [work EXCEPT ![s] = w] \/ work' = work
      BY <2>18 DEF List, Listed, Begun
    <3> HIDE DEF w
    <3>7. work' \in [Runs -> Eviction]
      BY <2>1, <3>5, <3>6
    <3> QED BY <3>1, <3>2, <3>7
  <2>19. CASE EvictOk(s)
    <3>1. Entry(s).id \in Runs /\ Entry(s).size \in Nat
      BY <2>19, WorkIs DEF EvictOk, Entry
    <3>2. Typed
      BY <2>7, <2>19, <3>1 DEF EvictOk
    <3>3. work[s].at + 1 \in Nat \ {0} /\ work[s].evicted \cup {Entry(s).id} \in SUBSET Runs
          /\ work[s].remaining - Entry(s).size \in Int
      BY <3>1, WorkIs
    <3> DEFINE w == Took(work[s], work[s].at + 1, work[s].evicted \union {Entry(s).id}, work[s].remaining - Entry(s).size)
    <3>4. w \in Eviction
      BY <2>1, <3>3, TookIs
    <3>5. work' = [work EXCEPT ![s] = w]
      BY <2>19 DEF EvictOk, Took
    <3> HIDE DEF w
    <3>6. work' \in [Runs -> Eviction]
      BY <2>1, <3>4, <3>5
    <3> QED BY <2>1, <2>19, <3>2, <3>6 DEF EvictOk
  <2>20. CASE EvictFails(s)
    <3>1. Entry(s).id \in Runs
      BY <2>20, WorkIs DEF EvictFails, Entry
    <3>2. Typed
      BY <2>1, <2>20 DEF EvictFails, Typed
    <3>3. work[s].at + 1 \in Nat \ {0} /\ work[s].failed \cup {Entry(s).id} \in SUBSET Runs
      BY <3>1, WorkIs
    <3> DEFINE w == Stuck(work[s], work[s].at + 1, work[s].failed \union {Entry(s).id})
    <3>4. w \in Eviction
      BY <2>1, <3>3, StuckFields
    <3>5. work' = [work EXCEPT ![s] = w]
      BY <2>20 DEF EvictFails, Stuck
    <3> HIDE DEF w
    <3>6. work' \in [Runs -> Eviction]
      BY <2>1, <3>4, <3>5
    <3> QED BY <2>1, <2>20, <3>2, <3>6 DEF EvictFails
  <2>21. CASE SkipOwn(s)
    <3>1. work[s].at + 1 \in Nat \ {0}
      BY WorkIs
    <3> DEFINE w == Passed(work[s], work[s].at + 1)
    <3>2. w \in Eviction
      BY <2>1, <3>1, PassedIs
    <3>3. work' = [work EXCEPT ![s] = w]
      BY <2>21 DEF SkipOwn, Passed
    <3> HIDE DEF w
    <3>4. work' \in [Runs -> Eviction]
      BY <2>1, <3>2, <3>3
    <3> QED BY <2>1, <2>21, <3>4 DEF SkipOwn, Typed
  <2>22. CASE EvictEnds(s)
    BY <2>1, <2>3, <2>4, <2>22 DEF EvictEnds, Typed
  <2>23. CASE Expire(s)
    <3>1. PICK newest \in 0 .. Len(recent) :
             work' = [work EXCEPT ![s] = Aged(NoWork, {recent[i] : i \in 1 .. newest} \ {s})]
      BY <2>23 DEF Expire, Aged
    <3> DEFINE w == Aged(NoWork, {recent[i] : i \in 1 .. newest} \ {s})
    <3>2. {recent[i] : i \in 1 .. newest} \ {s} \in SUBSET Runs
      BY <2>1
    <3>3. w \in Eviction
      <4> DEFINE old == {recent[i] : i \in 1 .. newest} \ {s}
      <4>1. old \in SUBSET Runs /\ NoWork \in Eviction /\ 0 \in 0 .. MaxRuns
        BY <3>2, NoWorkIs, ArchiveConstants
      <4> HIDE DEF old
      <4>2. Aged(NoWork, old) \in Eviction
        BY <4>1, PurgeFields
      <4> QED BY <4>2 DEF old
    <3>4. work' = [work EXCEPT ![s] = w]
      BY <3>1
    <3> HIDE DEF w
    <3>5. work' \in [Runs -> Eviction]
      BY <2>1, <3>3, <3>4
    <3> QED BY <2>1, <2>3, <2>4, <2>23, <3>5 DEF Expire, Typed
  <2>24. CASE PurgeNext(s)
    <3>1. PICK t \in work[s].old : work' = [work EXCEPT ![s] = Aimed(work[s], work[s].old \ {t}, t)]
      BY <2>24 DEF PurgeNext, Aimed
    <3> DEFINE w == Aimed(work[s], work[s].old \ {t}, t)
    <3>2. work[s] \in Eviction /\ work[s].old \ {t} \in SUBSET Runs /\ t \in 0 .. MaxRuns
      BY <2>1, <3>1, WorkIs, RunsFrom0
    <3>3. w \in Eviction
      BY <3>2, PurgeFields
    <3>4. work' = [work EXCEPT ![s] = w]
      BY <3>1
    <3> HIDE DEF w
    <3>5. work' \in [Runs -> Eviction]
      BY <2>1, <3>3, <3>4
    <3> QED BY <2>1, <2>3, <2>4, <2>24, <3>5 DEF PurgeNext, Typed
  <2>25. Freed(work[s]) \in Eviction
    BY <2>1, WorkIs, PurgeFields
  <2>26. CASE PurgeOk(s)
    <3>1. Typed
      <4>1. work[s].target \in Runs
        BY <2>1, <2>26 DEF PurgeOk, RemoveDir
      <4> QED BY <2>7, <2>26, <4>1 DEF PurgeOk
    <3>2. work' = [work EXCEPT ![s] = Freed(work[s])]
      BY <2>26 DEF PurgeOk, Freed
    <3>3. work' \in [Runs -> Eviction]
      BY <2>1, <2>25, <3>2
    <3> QED BY <2>1, <2>3, <2>4, <2>26, <3>1, <3>3 DEF PurgeOk
  <2>27. CASE PurgeFails(s)
    <3>1. work' = [work EXCEPT ![s] = Freed(work[s])]
      BY <2>27 DEF PurgeFails, Freed
    <3>2. work' \in [Runs -> Eviction]
      BY <2>1, <2>25, <3>1
    <3> QED BY <2>1, <2>3, <2>4, <2>27, <3>2 DEF PurgeFails, Typed
  <2>28. CASE PurgeEnds(s) \/ ListFails(s)
    <3>1. work' = [work EXCEPT ![s] = NoWork] /\ UNCHANGED <<diskVars, runVars>>
      BY <2>28 DEF PurgeEnds, ListFails
    <3>2. work' \in [Runs -> Eviction]
      BY <2>1, <3>1, NoWorkIs
    <3>3. stage' \in [Runs -> Stages]
      BY <2>3, <2>4, <2>28 DEF PurgeEnds, ListFails
    <3> QED BY <2>1, <3>1, <3>2, <3>3 DEF Typed
  <2>29. CASE RemoveOne(s)
    <3>1. PICK t \in there : \E i \in 1 .. Len(files[t]) : RemoveFile(t, i)
      BY <2>29 DEF RemoveOne
    <3>2. PICK i \in 1 .. Len(files[t]) : RemoveFile(t, i)
      BY <3>1
    <3>3. t \in Runs
      BY <2>1
    <3>4. Typed
      BY <2>1, <3>2, <3>3, RemoveFileIs, ZenonT(60) DEF Typed
    <3> QED BY <2>1, <2>29, <3>4 DEF RemoveOne
  <2> QED BY <1>2, <2>9, <2>10, <2>11, <2>12, <2>13, <2>14, <2>15, <2>16, <2>17, <2>18, <2>19,
             <2>20, <2>21, <2>22, <2>23, <2>24, <2>26, <2>27, <2>28, <2>29 DEF Steps
<1> QED BY <1>1, <1>2 DEF ArchiveNext

\* Everything the archive keeps has its type, for any sizes, caps and numbers of runs.
THEOREM ArchiveTypes == ArchiveSpec => []ArchiveTypeOK
  BY ArchiveTypeInit, ArchiveTypeStep, PTL DEF ArchiveSpec

-----------------------------------------------------------------------------
(* AudioArchive: the files while their writer works.                       *)

\* A file that is complete, with both sizes in its header.
Finished(f) == f.header /\ ~f.torn /\ f.size = Total(f.data) /\ f.riff = f.size
\* A file with samples that its header does not know of yet.
Owes(f) == f.header /\ ~f.torn /\ f.data # <<>> /\ f.size = Total(Front(f.data))
Readable(f) ==
  /\ f.size <= f.riff /\ f.riff <= Total(f.data)
  /\ f.data # <<>> => f.size >= Total(Front(f.data))

\* The last file of a session, by the place of its writer.
LastFileIs(f, place, written) ==
  CASE place = "header" -> f = NewFile
    [] place = "create" -> Finished(f)
    [] place = "riff"   -> Owes(f) /\ f.riff = f.size /\ written = Total(f.data)
    [] place = "size"   -> Owes(f) /\ f.riff = Total(f.data) /\ written = Total(f.data)
    [] place = "done"   -> Readable(f)
    [] OTHER            -> Finished(f) /\ written = Total(f.data)

FilesAre(present, list, open, place, written) ==
  /\ place = "off" => ~present
  /\ ~present => list = <<>>
  /\ open => list # <<>>
  /\ \A i \in 1 .. Len(list) - 1 : Finished(list[i])
  /\ list # <<>> => IF open THEN LastFileIs(list[Len(list)], place, written)
                            ELSE Finished(list[Len(list)])
FilesOf(s) == FilesAre(s \in there, files[s], named[s], stage[s], data_bytes[s])

\* A run counts its files, has evicted nothing before it comes to that, and does not purge
\* its own session.
Fresh(s) ==
  /\ stage[s] = "off" => segment[s] = 0
  /\ stage[s] \in {"list", "evict", "expire", "purge", "remove", "idle", "samples", "riff", "size"}
       => segment[s] # 0
  /\ stage[s] \in {"off", "create", "header"} /\ segment[s] = 0 => work[s] = NoWork
  /\ stage[s] = "list" => work[s] = NoWork
  /\ s \notin work[s].old /\ work[s].target # s

AInv == ArchiveTypeOK /\ \A s \in Runs : FilesOf(s) /\ Fresh(s)

\* What a step of another run can do to session t: remove one of its files, or its directory
\* when no file is left.
Thinned(t) ==
  /\ t \in cut' /\ t \in there
  /\ \E i \in 1 .. Len(files[t]) :
       files'[t] = RemoveAt(files[t], i) /\ named'[t] = (named[t] /\ i # Len(files[t]))
Untouched(t) ==
  /\ stage'[t] = stage[t] /\ data_bytes'[t] = data_bytes[t] /\ segment'[t] = segment[t]
  /\ hand'[t] = hand[t] /\ count'[t] = count[t] /\ work'[t] = work[t]
  /\ t \in there' => t \in there
  /\ t \notin there' => files'[t] = <<>>
  /\ t \in cut => t \in cut'
  /\ (files'[t] = files[t] /\ named'[t] = named[t]) \/ Thinned(t)

Retention(s) ==
  \/ List(s) \/ ListFails(s) \/ EvictOk(s) \/ EvictFails(s) \/ SkipOwn(s) \/ EvictEnds(s)
  \/ Expire(s) \/ PurgeNext(s) \/ PurgeOk(s) \/ PurgeFails(s) \/ PurgeEnds(s) \/ RemoveOne(s)

\* What retention removes, if anything.
Clears(t) == t \in there /\ (RemoveDir(t) \/ \E i \in 1 .. Len(files[t]) : RemoveFile(t, i))

LEMMA RetentionIs ==
  ASSUME AInv, NEW s \in Runs, Retention(s)
  PROVE  /\ UNCHANGED runVars
         /\ stage[s] \in {"list", "evict", "expire", "purge", "remove"}
         /\ stage'[s] \in {"evict", "expire", "purge", "remove", "idle"}
         /\ \A t \in Runs \ {s} : stage'[t] = stage[t] /\ work'[t] = work[t]
         /\ UNCHANGED diskVars \/ \E t \in Runs \ {s} : Clears(t)
<1> USE DEF runVars
<1>1. /\ ArchiveTypeOK /\ Fresh(s) /\ stage \in [Runs -> Stages] /\ work \in [Runs -> Eviction]
      /\ there \subseteq Runs
  BY DEF AInv, ArchiveTypeOK, Stages
<1>2. \A to : Goes(s, to) => stage'[s] = to /\ \A t \in Runs \ {s} : stage'[t] = stage[t]
  BY <1>1 DEF Goes
<1>3. CASE List(s)
  BY <1>1, <1>2, <1>3 DEF List
<1>4. CASE ListFails(s)
  BY <1>1, <1>2, <1>4 DEF ListFails
<1>5. CASE EvictOk(s)
  <2>1. Entry(s).id \in Runs \ {s}
    BY <1>1, <1>5, WorkIs DEF EvictOk, Entry
  <2>2. Clears(Entry(s).id)
    BY <1>5 DEF EvictOk, RemoveDir, Clears
  <2> QED BY <1>1, <1>5, <2>1, <2>2 DEF EvictOk
<1>6. CASE EvictFails(s)
  BY <1>1, <1>6 DEF EvictFails
<1>7. CASE SkipOwn(s)
  BY <1>1, <1>7 DEF SkipOwn
<1>8. CASE EvictEnds(s)
  BY <1>1, <1>2, <1>8 DEF EvictEnds
<1>9. CASE Expire(s)
  <2>1. \A t \in Runs \ {s} : work'[t] = work[t]
    BY <1>1, <1>9 DEF Expire
  <2> QED BY <1>1, <1>2, <1>9, <2>1 DEF Expire
<1>10. CASE PurgeNext(s)
  <2>1. \A t \in Runs \ {s} : work'[t] = work[t]
    BY <1>1, <1>10 DEF PurgeNext
  <2> QED BY <1>1, <1>2, <1>10, <2>1 DEF PurgeNext
<1>11. CASE PurgeOk(s)
  <2>1. work[s].target \in Runs \ {s} /\ Clears(work[s].target)
    BY <1>1, <1>11 DEF PurgeOk, RemoveDir, Clears, Fresh
  <2> QED BY <1>1, <1>2, <1>11, <2>1 DEF PurgeOk
<1>12. CASE PurgeFails(s)
  BY <1>1, <1>2, <1>12 DEF PurgeFails
<1>13. CASE PurgeEnds(s)
  BY <1>1, <1>2, <1>13 DEF PurgeEnds
<1>14. CASE RemoveOne(s)
  <2>1. PICK t \in there : Removing(s, t) /\ \E i \in 1 .. Len(files[t]) : RemoveFile(t, i)
    BY <1>14 DEF RemoveOne
  <2>2. t \in Runs \ {s} /\ stage[s] \in {"evict", "remove"}
    BY <1>1, <2>1 DEF Removing, Fresh
  <2>3. Clears(t)
    BY <2>1 DEF Clears
  <2>4. stage' = stage /\ work' = work /\ UNCHANGED runVars
    BY <1>14 DEF RemoveOne
  <2> QED BY <1>1, <2>2, <2>3, <2>4
<1> QED BY <1>3, <1>4, <1>5, <1>6, <1>7, <1>8, <1>9, <1>10, <1>11, <1>12, <1>13, <1>14 DEF Retention

LEMMA ClearsIs ==
  ASSUME ArchiveTypeOK, NEW r \in Runs, Clears(r)
  PROVE  /\ \A t \in Runs \ {r} : /\ (t \in there' <=> t \in there) /\ (t \in cut' <=> t \in cut)
                                  /\ files'[t] = files[t] /\ named'[t] = named[t]
         /\ (r \in there' => r \in there) /\ (r \in cut => r \in cut')
         /\ \/ r \notin there' /\ files'[r] = <<>> /\ files'[r] = files[r] /\ named'[r] = named[r]
            \/ r \in there' /\ Thinned(r)
<1>1. CASE RemoveDir(r)
  BY <1>1, RemoveDirIs
<1>2. ASSUME NEW i \in 1 .. Len(files[r]), r \in there, RemoveFile(r, i)
      PROVE  /\ \A t \in Runs \ {r} : /\ (t \in there' <=> t \in there) /\ (t \in cut' <=> t \in cut)
                                      /\ files'[t] = files[t] /\ named'[t] = named[t]
             /\ r \in there' /\ (r \in cut => r \in cut') /\ Thinned(r)
  <2>1. /\ there' = there /\ cut' = cut \union {r}
        /\ files'[r] = RemoveAt(files[r], i) /\ named'[r] = (named[r] /\ i # Len(files[r]))
        /\ \A t \in Runs \ {r} : files'[t] = files[t] /\ named'[t] = named[t]
    BY <1>2, RemoveFileIs
  <2>2. Thinned(r)
    BY <1>2, <2>1 DEF Thinned
  <2> QED BY <1>2, <2>1, <2>2
<1> QED BY <1>1, <1>2 DEF Clears

LEMMA Elsewhere ==
  ASSUME AInv, NEW s \in Runs, Steps(s), NEW t \in Runs \ {s}
  PROVE  Untouched(t)
<1> USE DEF diskVars, runVars
<1>1. ArchiveTypeOK /\ (t \notin there => files[t] = <<>>)
  BY DEF AInv, FilesAre, FilesOf
<1>2. /\ there \subseteq Runs /\ files \in [Runs -> Seq(WavFile)] /\ stage \in [Runs -> Stages]
      /\ data_bytes \in [Runs -> Nat] /\ segment \in [Runs -> Nat] /\ hand \in [Runs -> Chunk]
      /\ count \in [Runs -> Nat] /\ work \in [Runs -> Eviction]
  BY <1>1 DEF ArchiveTypeOK, Stages
<1>3. \A to : Goes(s, to) => stage'[t] = stage[t]
  BY <1>2 DEF Goes
<1>4. Current(s) \in WavFile /\ hand[s] \in Chunk /\ data_bytes[s] \in Nat
  BY <1>1, <1>2, CurrentIs
<1>5. Current(s).data \in Seq(Chunk) /\ Append(Current(s).data, hand[s]) \in Seq(Chunk)
  BY <1>4, FileIs, AppendIs
<1>6. \A file \in WavFile : Change(s, file) => /\ there' = there /\ files'[t] = files[t]
                                               /\ named' = named /\ cut' = cut
  BY <1>1, ChangeIs
<1>7. CASE Start(s)
  BY <1>1, <1>2, <1>3, <1>7 DEF Start, Untouched
<1>8. CASE Create(s)
  BY <1>1, <1>2, <1>3, <1>8 DEF Create, Untouched
<1>9. CASE WriteHeader(s)
  <2>1. there' = there /\ files'[t] = files[t] /\ named' = named /\ cut' = cut
    BY <1>4, <1>5, <1>6, <1>9, HeaderSet DEF WriteHeader
  <2> QED BY <1>1, <1>2, <1>3, <1>9, <2>1 DEF WriteHeader, Untouched
<1>10. CASE Take(s)
  BY <1>1, <1>2, <1>3, <1>10 DEF Take, Untouched
<1>11. CASE Samples(s)
  <2>1. there' = there /\ files'[t] = files[t] /\ named' = named /\ cut' = cut
    BY <1>4, <1>5, <1>6, <1>11, DataSet DEF Samples
  <2> QED BY <1>1, <1>2, <1>3, <1>11, <2>1 DEF Samples, Untouched
<1>12. CASE PatchRiff(s)
  <2>1. there' = there /\ files'[t] = files[t] /\ named' = named /\ cut' = cut
    BY <1>4, <1>5, <1>6, <1>12, RiffSet DEF PatchRiff
  <2> QED BY <1>1, <1>2, <1>3, <1>12, <2>1 DEF PatchRiff, Untouched
<1>13. CASE PatchSize(s)
  <2>1. there' = there /\ files'[t] = files[t] /\ named' = named /\ cut' = cut
    BY <1>4, <1>5, <1>6, <1>13, SizeSet DEF PatchSize
  <2> QED BY <1>1, <1>2, <1>3, <1>13, <2>1 DEF PatchSize, Untouched
<1>14. CASE Fail(s) \/ Exit(s)
  <2>1. Gone(s)
    BY <1>14 DEF Fail, Exit
  <2>2. there' = there /\ files'[t] = files[t] /\ named' = named /\ cut' = cut
    <3>1. CASE Change(s, [Current(s) EXCEPT !.torn = TRUE])
      BY <1>4, <1>5, <1>6, <3>1, TornSet
    <3>2. CASE UNCHANGED diskVars
      BY <3>2
    <3> QED BY <1>14, <3>1, <3>2 DEF Fail, Exit
  <2> QED BY <1>1, <2>1, <2>2, GoneIs DEF Untouched
<1>15. CASE Retention(s)
  <2>1. UNCHANGED runVars /\ stage'[t] = stage[t] /\ work'[t] = work[t]
    BY <1>15, RetentionIs
  <2>2. CASE UNCHANGED diskVars
    BY <1>1, <2>1, <2>2 DEF Untouched
  <2>3. ASSUME NEW r \in Runs \ {s}, Clears(r) PROVE Untouched(t)
    <3>1. CASE t = r
      BY <1>1, <2>1, <2>3, <3>1, ClearsIs DEF Untouched
    <3>2. CASE t # r
      BY <1>1, <2>1, <2>3, <3>2, ClearsIs DEF Untouched
    <3> QED BY <3>1, <3>2
  <2> QED BY <1>15, <2>2, <2>3, RetentionIs
<1> QED BY <1>7, <1>8, <1>9, <1>10, <1>11, <1>12, <1>13, <1>14, <1>15 DEF Steps, Retention

\* Retention leaves the own session alone.
LEMMA OwnSession ==
  ASSUME AInv, NEW s \in Runs, Retention(s)
  PROVE  /\ (s \in there' <=> s \in there) /\ files'[s] = files[s] /\ UNCHANGED runVars
         /\ named'[s] = named[s] /\ (s \in cut' <=> s \in cut)
         /\ stage[s] \in {"list", "evict", "expire", "purge", "remove"}
         /\ stage'[s] \in {"evict", "expire", "purge", "remove", "idle"}
<1>1. ArchiveTypeOK
  BY DEF AInv
<1>2. CASE UNCHANGED diskVars
  BY <1>2, RetentionIs DEF diskVars
<1>3. ASSUME NEW r \in Runs \ {s}, Clears(r)
      PROVE  /\ (s \in there' <=> s \in there) /\ (s \in cut' <=> s \in cut)
             /\ files'[s] = files[s] /\ named'[s] = named[s]
  BY <1>1, <1>3, ClearsIs
<1> QED BY <1>2, <1>3, RetentionIs

\* A file less, and the others are as they were.
LEMMA ThinnedFiles ==
  ASSUME NEW list \in Seq(WavFile), NEW i \in 1 .. Len(list), NEW open, NEW place, NEW written,
         FilesAre(TRUE, list, open, place, written)
  PROVE  FilesAre(TRUE, RemoveAt(list, i), open /\ i # Len(list), place, written)
<1> DEFINE n == Len(list)
           fewer == RemoveAt(list, i)
           m == Len(fewer)
<1>1. /\ n \in Nat /\ i \in 1 .. n /\ m = n - 1
      /\ \A j \in 1 .. m : fewer[j] = IF j < i THEN list[j] ELSE list[j + 1]
  BY DropIs, SeqIs
<1>2. \A j \in 1 .. n - 1 : Finished(list[j])
  BY DEF FilesAre
<1>3. list # <<>>
  BY <1>1, EmptyIs
<1>4. IF open THEN LastFileIs(list[n], place, written) ELSE Finished(list[n])
  BY <1>3 DEF FilesAre
<1>5. place # "off"
  BY DEF FilesAre
<1> HIDE DEF n, fewer
<1>6. \A j \in 1 .. m - 1 : Finished(fewer[j])
  <2> SUFFICES ASSUME NEW j \in 1 .. m - 1 PROVE Finished(fewer[j])
    OBVIOUS
  <2>1. j \in 1 .. m /\ j \in 1 .. n - 1 /\ j + 1 \in 1 .. n - 1
    BY <1>1
  <2>2. fewer[j] = list[j] \/ fewer[j] = list[j + 1]
    BY <1>1, <2>1
  <2> QED BY <1>2, <2>1, <2>2
<1>7. fewer # <<>> => m \in 1 .. m
  BY <1>1, EmptyIs DEF fewer
<1>8. CASE i = n
  <2>1. ASSUME fewer # <<>> PROVE Finished(fewer[m])
    <3>1. m \in 1 .. m /\ m < i /\ m \in 1 .. n - 1
      BY <1>1, <1>7, <1>8, <2>1
    <3> QED BY <1>1, <1>2, <3>1
  <2> QED BY <1>5, <1>6, <1>8, <2>1 DEF FilesAre, n, fewer
<1>9. CASE i # n
  <2>1. m \in 1 .. m /\ ~(m < i) /\ m + 1 = n
    BY <1>1, <1>9
  <2>2. fewer[m] = list[n]
    BY <1>1, <2>1
  <2>3. fewer # <<>>
    BY <1>1, <2>1, EmptyIs
  <2>4. IF open THEN LastFileIs(fewer[m], place, written) ELSE Finished(fewer[m])
    BY <1>4, <2>2
  <2> QED BY <1>5, <1>6, <1>9, <2>3, <2>4 DEF FilesAre, n, fewer
<1> QED BY <1>8, <1>9

\* What others do to a session keeps its files in order.
LEMMA UntouchedFiles ==
  ASSUME AInv, NEW t \in Runs, Untouched(t)
  PROVE  FilesOf(t)' /\ Fresh(t)'
<1>1. Fresh(t)'
  BY DEF AInv, Fresh, Untouched
<1> SUFFICES FilesAre(t \in there', files'[t], named'[t], stage'[t], data_bytes'[t])
  BY <1>1 DEF FilesOf
<1>2. FilesOf(t) /\ files[t] \in Seq(WavFile)
  BY DEF AInv, ArchiveTypeOK
<1>3. stage'[t] = stage[t] /\ data_bytes'[t] = data_bytes[t] /\ (t \in there' => t \in there)
      /\ (t \notin there' => files'[t] = <<>>)
  BY DEF Untouched
<1>4. CASE t \notin there'
  <2>1. files'[t] = <<>> /\ ~named'[t] /\ \A i \in 1 .. Len(<<>>) - 1 : FALSE
    <3>1. files'[t] = <<>>
      BY <1>3, <1>4
    <3>2. CASE files'[t] = files[t] /\ named'[t] = named[t]
      BY <1>2, <3>1, <3>2 DEF FilesAre, FilesOf
    <3>3. CASE Thinned(t)
      <4>1. PICK i \in 1 .. Len(files[t]) :
              files'[t] = RemoveAt(files[t], i) /\ named'[t] = (named[t] /\ i # Len(files[t]))
        BY <3>3 DEF Thinned
      <4>2. Len(files'[t]) = Len(files[t]) - 1 /\ Len(files[t]) \in Nat
        BY <1>2, <4>1, DropIs, SeqIs
      <4>3. Len(files'[t]) = 0
        BY <3>1, EmptyIs
      <4>4. i = Len(files[t])
        BY <4>2, <4>3
      <4>5. ~named'[t]
        BY <4>1, <4>4, Zenon
      <4> QED BY <3>1, <4>5
    <3> QED BY <3>1, <3>2, <3>3 DEF Untouched
  <2> QED BY <1>4, <2>1 DEF FilesAre
<1>5. CASE t \in there' /\ files'[t] = files[t] /\ named'[t] = named[t]
  BY <1>2, <1>3, <1>5 DEF FilesAre, FilesOf
<1>6. CASE t \in there' /\ Thinned(t)
  <2>1. PICK i \in 1 .. Len(files[t]) :
          files'[t] = RemoveAt(files[t], i) /\ named'[t] = (named[t] /\ i # Len(files[t]))
    BY <1>6 DEF Thinned
  <2>2. FilesAre(TRUE, files[t], named[t], stage[t], data_bytes[t])
    BY <1>2, <1>3, <1>6 DEF FilesAre, FilesOf
  <2> DEFINE list == files[t]
             open == named[t]
  <2>3. list \in Seq(WavFile) /\ i \in 1 .. Len(list)
    BY <1>2
  <2>4. FilesAre(TRUE, RemoveAt(list, i), open /\ i # Len(list), stage[t], data_bytes[t])
    <3>1. FilesAre(TRUE, list, open, stage[t], data_bytes[t])
      BY <2>2
    <3> HIDE DEF list, open
    <3> QED BY <2>3, <3>1, ThinnedFiles
  <2>5. FilesAre(TRUE, files'[t], named'[t], stage'[t], data_bytes'[t])
    BY <1>3, <2>1, <2>4
  <2> QED BY <1>6, <2>5 DEF FilesAre
<1> QED BY <1>4, <1>5, <1>6 DEF Untouched

\* A step of the writer changes its last file and its place.
LEMMA ChangedFiles ==
  ASSUME AInv, NEW s \in Runs, NEW file \in WavFile, Change(s, file),
         stage[s] # "off", stage'[s] # "off",
         named[s] => LastFileIs(file, stage'[s], data_bytes'[s])
  PROVE  FilesOf(s)'
<1>1. ArchiveTypeOK /\ FilesOf(s)
  BY DEF AInv
<1>2. there' = there /\ named' = named
  BY <1>1, ChangeIs
<1>3. CASE named[s]
  <2>1. /\ files[s] # <<>> /\ s \in there
        /\ \A i \in 1 .. Len(files[s]) - 1 : Finished(files[s][i])
    BY <1>1, <1>3 DEF FilesAre, FilesOf
  <2>2. /\ Len(files'[s]) = Len(files[s]) /\ files'[s] # <<>>
        /\ \A i \in 1 .. Len(files[s]) - 1 : files'[s][i] = files[s][i]
        /\ files'[s][Len(files[s])] = file
    BY <1>1, <1>3, <2>1, ChangeIs
  <2>3. \A i \in 1 .. Len(files'[s]) - 1 : Finished(files'[s][i])
    BY <2>1, <2>2
  <2>4. LastFileIs(files'[s][Len(files'[s])], stage'[s], data_bytes'[s])
    BY <1>3, <2>2
  <2> QED BY <1>2, <1>3, <2>1, <2>2, <2>3, <2>4 DEF FilesAre, FilesOf
<1>4. CASE ~named[s]
  <2>1. files' = files
    BY <1>1, <1>4, ChangeIs
  <2> QED BY <1>1, <1>2, <1>4, <2>1 DEF FilesAre, FilesOf
<1> QED BY <1>3, <1>4

\* The file that a run has open, when it was not removed.
LEMMA TipIs ==
  ASSUME AInv, NEW s \in Runs, named[s]
  PROVE  /\ files[s] # <<>> /\ Current(s) = files[s][Len(files[s])] /\ Current(s) \in WavFile
         /\ Current(s).data \in Seq(Chunk) /\ LastFileIs(Current(s), stage[s], data_bytes[s])
         /\ s \in there
<1>1. ArchiveTypeOK /\ FilesOf(s)
  BY DEF AInv
<1>2. files[s] # <<>> /\ LastFileIs(files[s][Len(files[s])], stage[s], data_bytes[s]) /\ s \in there
  BY <1>1 DEF FilesAre, FilesOf
<1>3. Current(s) = files[s][Len(files[s])] /\ Current(s) \in WavFile
  BY <1>1, <1>2, CurrentIs
<1> QED BY <1>2, <1>3, FileIs

\* Whatever its writer was about to do, a file can be read.
LEMMA AlwaysReadable ==
  ASSUME NEW f \in WavFile, NEW place, NEW written, LastFileIs(f, place, written)
  PROVE  Readable(f)
<1>1. f.data \in Seq(Chunk) /\ f.riff \in Nat /\ f.size \in Nat /\ NoChunk \in Chunk
  BY FileIs DEF NoChunk, Chunk
<1>2. Total(f.data) \in Nat /\ Total(<<>>) = 0
  BY <1>1, TotalIs
<1>3. f.data # <<>> => Total(Front(f.data)) \in Nat /\ Total(Front(f.data)) <= Total(f.data)
  <2> SUFFICES ASSUME f.data # <<>>
               PROVE  Total(Front(f.data)) \in Nat /\ Total(Front(f.data)) <= Total(f.data)
    OBVIOUS
  <2>1. /\ Front(f.data) \in Seq(Chunk) /\ Last(f.data) \in Chunk
        /\ f.data = Append(Front(f.data), Last(f.data))
    BY <1>1, FrontIs
  <2>2. Last(f.data).len \in Nat
    BY <2>1 DEF Chunk
  <2>3. Total(Front(f.data)) \in Nat /\ Total(f.data) = Total(Front(f.data)) + Last(f.data).len
    BY <2>1, TotalIs
  <2> QED BY <2>2, <2>3
<1>4. Finished(f) => Readable(f)
  BY <1>1, <1>2, <1>3 DEF Finished, Readable
<1>5. Owes(f) /\ (f.riff = f.size \/ f.riff = Total(f.data)) => Readable(f)
  BY <1>1, <1>2, <1>3 DEF Owes, Readable
<1>6. f = NewFile => Readable(f)
  <2>1. NewFile.riff = 0 /\ NewFile.size = 0 /\ NewFile.data = <<>>
    BY FileIs
  <2> QED BY <1>2, <2>1 DEF Readable
<1> QED BY <1>4, <1>5, <1>6 DEF LastFileIs

LEMMA OwnFiles ==
  ASSUME AInv, NEW s \in Runs, Steps(s)
  PROVE  FilesOf(s)'
<1> USE DEF diskVars, runVars
<1>1. /\ ArchiveTypeOK /\ FilesOf(s) /\ there \subseteq Runs /\ files \in [Runs -> Seq(WavFile)]
      /\ stage \in [Runs -> Stages] /\ data_bytes \in [Runs -> Nat] /\ hand \in [Runs -> Chunk]
      /\ files[s] \in Seq(WavFile) /\ hand[s] \in Chunk /\ data_bytes[s] \in Nat
  BY DEF AInv, ArchiveTypeOK, Stages
<1>2. \A to : Goes(s, to) => stage'[s] = to
  BY <1>1 DEF Goes
<1>3. CASE Start(s)
  <2>1. files'[s] = <<>> /\ s \in there' /\ stage'[s] = "create" /\ ~named'[s]
    BY <1>1, <1>2, <1>3 DEF Start, FilesAre, FilesOf
  <2>2. \A i \in 1 .. Len(<<>>) - 1 : FALSE
    OBVIOUS
  <2> QED BY <2>1, <2>2 DEF FilesAre, FilesOf
<1>4. CASE Create(s)
  <2> DEFINE n == Len(files[s])
  <2>1. s \in there /\ there' = there /\ stage[s] = "create" /\ stage'[s] = "header" /\ files'[s] = Append(files[s], NewFile)
        /\ named'[s]
    BY <1>1, <1>2, <1>4 DEF Create, ArchiveTypeOK
  <2>2. /\ n \in Nat /\ Len(files'[s]) = n + 1 /\ files'[s][n + 1] = NewFile /\ files'[s] # <<>>
        /\ \A i \in 1 .. n : files'[s][i] = files[s][i]
    <3>1. n \in Nat
      BY <1>1, SeqIs
    <3>2. /\ Len(files'[s]) = n + 1 /\ files'[s][n + 1] = NewFile
          /\ \A i \in 1 .. n : files'[s][i] = files[s][i]
      BY <1>1, <2>1, FileIs, AppendIs
    <3> QED BY <3>1, <3>2, EmptyIs
  <2>3. \A i \in 1 .. n : Finished(files[s][i])
    <3>1. \A i \in 1 .. n - 1 : Finished(files[s][i])
      BY <1>1, <2>1 DEF FilesAre, FilesOf
    <3>2. n # 0 => Finished(files[s][n])
      <4>1. files[s] # <<>> => IF named[s] THEN LastFileIs(files[s][n], "create", data_bytes[s])
                                           ELSE Finished(files[s][n])
        BY <1>1, <2>1 DEF FilesAre, FilesOf
      <4>2. n # 0 => files[s] # <<>>
        BY EmptyIs
      <4> QED BY <4>1, <4>2 DEF LastFileIs
    <3>3. \A i \in 1 .. n : i \in 1 .. n - 1 \/ (i = n /\ n # 0)
      BY <2>2
    <3> QED BY <3>1, <3>2, <3>3
  <2>4. \A i \in 1 .. Len(files'[s]) - 1 : Finished(files'[s][i])
    BY <2>2, <2>3
  <2>5. LastFileIs(files'[s][Len(files'[s])], stage'[s], data_bytes'[s])
    BY <2>1, <2>2 DEF LastFileIs
  <2> QED BY <2>1, <2>2, <2>4, <2>5 DEF FilesAre, FilesOf
<1>5. CASE WriteHeader(s)
  <2> DEFINE file == [Current(s) EXCEPT !.header = TRUE]
  <2>1. Current(s) \in WavFile /\ file \in WavFile
    BY <1>1, CurrentIs, HeaderSet, FileIs
  <2>2. Change(s, file) /\ stage[s] = "header" /\ stage'[s] \in {"list", "samples"} /\ data_bytes'[s] = 0
    BY <1>1, <1>2, <1>5 DEF WriteHeader
  <2>3. ASSUME named[s] PROVE LastFileIs(file, stage'[s], data_bytes'[s])
    <3>1. Current(s) = NewFile
      BY <2>2, <2>3, TipIs DEF LastFileIs
    <3>2. file.header /\ ~file.torn /\ file.riff = 0 /\ file.size = 0 /\ file.data = <<>>
      BY <2>1, <3>1, FileIs, HeaderSet
    <3>3. Total(<<>>) = 0
      BY <1>1, TotalIs, EmptyIs
    <3> QED BY <2>2, <3>2, <3>3 DEF LastFileIs, Finished
  <2> HIDE DEF file
  <2> QED BY <2>1, <2>2, <2>3, ChangedFiles
<1>6. CASE Take(s)
  <2>1. /\ there' = there /\ files' = files /\ data_bytes' = data_bytes /\ named' = named
        /\ stage[s] = "idle" /\ stage'[s] \in {"samples", "create"}
    BY <1>1, <1>2, <1>6 DEF Take
  <2>2. named[s] => LastFileIs(files'[s][Len(files'[s])], stage'[s], data_bytes'[s])
    BY <1>1, <2>1 DEF FilesAre, FilesOf, LastFileIs
  <2> QED BY <1>1, <2>1, <2>2 DEF FilesAre, FilesOf
<1>7. CASE Samples(s)
  <2> DEFINE data == Append(Current(s).data, hand[s])
             file == [Current(s) EXCEPT !.data = data]
  <2>1. Current(s) \in WavFile /\ Current(s).data \in Seq(Chunk) /\ data \in Seq(Chunk)
    BY <1>1, CurrentIs, FileIs, AppendIs
  <2>2. Change(s, file) /\ stage[s] = "samples" /\ stage'[s] = "riff" /\ data_bytes'[s] = data_bytes[s] + hand[s].len
    BY <1>1, <1>2, <1>7 DEF Samples
  <2>3. /\ file \in WavFile /\ file.header = Current(s).header /\ file.torn = Current(s).torn
        /\ file.riff = Current(s).riff /\ file.size = Current(s).size /\ file.data = data
    <3>1. 0 \in Nat
      OBVIOUS
    <3> HIDE DEF data
    <3> QED BY <2>1, <3>1, DataSet
  <2>4. ASSUME named[s] PROVE LastFileIs(file, stage'[s], data_bytes'[s])
    <3>1. Finished(Current(s)) /\ data_bytes[s] = Total(Current(s).data)
      BY <2>2, <2>4, TipIs DEF LastFileIs
    <3>2. Total(data) = Total(Current(s).data) + hand[s].len
      BY <1>1, <2>1, TotalIs
    <3>3. Front(data) = Current(s).data /\ data # <<>>
      BY <1>1, <2>1, FrontAppend, ZenonT(60)
    <3> HIDE DEF file, data
    <3> QED BY <2>2, <2>3, <3>1, <3>2, <3>3 DEF LastFileIs, Finished, Owes
  <2> HIDE DEF file
  <2> QED BY <2>2, <2>3, <2>4, ChangedFiles
<1>8. CASE PatchRiff(s)
  <2> DEFINE file == [Current(s) EXCEPT !.riff = data_bytes[s]]
  <2>1. Current(s) \in WavFile /\ Current(s).data \in Seq(Chunk)
    BY <1>1, CurrentIs, FileIs
  <2>2. Change(s, file) /\ stage[s] = "riff" /\ stage'[s] = "size" /\ data_bytes' = data_bytes
    BY <1>1, <1>2, <1>8 DEF PatchRiff
  <2>3. /\ file \in WavFile /\ file.header = Current(s).header /\ file.torn = Current(s).torn
        /\ file.riff = data_bytes[s] /\ file.size = Current(s).size /\ file.data = Current(s).data
    BY <1>1, <2>1, RiffSet
  <2> HIDE DEF file
  <2>4. ASSUME named[s] PROVE LastFileIs(file, stage'[s], data_bytes'[s])
    <3>1. Owes(Current(s)) /\ data_bytes[s] = Total(Current(s).data)
      BY <2>2, <2>4, TipIs DEF LastFileIs
    <3> QED BY <2>2, <2>3, <3>1 DEF LastFileIs, Owes
  <2> QED BY <2>2, <2>3, <2>4, ChangedFiles
<1>9. CASE PatchSize(s)
  <2> DEFINE file == [Current(s) EXCEPT !.size = data_bytes[s]]
  <2>1. Current(s) \in WavFile /\ Current(s).data \in Seq(Chunk)
    BY <1>1, CurrentIs, FileIs
  <2>2. Change(s, file) /\ stage[s] = "size" /\ stage'[s] = "idle" /\ data_bytes' = data_bytes
    BY <1>1, <1>2, <1>9 DEF PatchSize
  <2>3. /\ file \in WavFile /\ file.header = Current(s).header /\ file.torn = Current(s).torn
        /\ file.riff = Current(s).riff /\ file.size = data_bytes[s] /\ file.data = Current(s).data
    BY <1>1, <2>1, SizeSet
  <2> HIDE DEF file
  <2>4. ASSUME named[s] PROVE LastFileIs(file, stage'[s], data_bytes'[s])
    <3>1. Owes(Current(s)) /\ Current(s).riff = Total(Current(s).data) /\ data_bytes[s] = Total(Current(s).data)
      BY <2>2, <2>4, TipIs DEF LastFileIs
    <3> QED BY <2>2, <2>3, <3>1 DEF LastFileIs, Owes, Finished
  <2> QED BY <2>2, <2>3, <2>4, ChangedFiles
<1>10. CASE Fail(s) \/ Exit(s)
  <2>1. Gone(s) /\ stage[s] # "off" /\ stage[s] # "done"
    BY <1>10 DEF Fail, Exit
  <2>2. stage'[s] = "done"
    BY <1>1, <2>1, GoneIs
  <2> DEFINE file == [Current(s) EXCEPT !.torn = TRUE]
  <2>3. CASE stage[s] = "samples" /\ Change(s, file)
    <3>1. Current(s) \in WavFile
      BY <1>1, CurrentIs
    <3>2. Current(s).data \in Seq(Chunk)
      BY <3>1, FileIs
    <3>3. /\ file \in WavFile /\ file.riff = Current(s).riff /\ file.size = Current(s).size
          /\ file.data = Current(s).data
      BY <1>1, <3>1, <3>2, TornSet
    <3> HIDE DEF file
    <3>4. ASSUME named[s] PROVE LastFileIs(file, stage'[s], data_bytes'[s])
      <4>1. Readable(Current(s))
        BY <2>3, <3>4, TipIs, AlwaysReadable
      <4> QED BY <2>2, <3>3, <4>1 DEF LastFileIs, Readable
    <3> QED BY <2>2, <2>3, <3>3, <3>4, ChangedFiles
  <2>4. CASE UNCHANGED diskVars
    <3>1. named'[s] => LastFileIs(files'[s][Len(files'[s])], stage'[s], data_bytes'[s])
      <4> SUFFICES ASSUME named[s] PROVE LastFileIs(files[s][Len(files[s])], "done", data_bytes'[s])
        BY <2>2, <2>4
      <4>1. files[s][Len(files[s])] \in WavFile /\ LastFileIs(files[s][Len(files[s])], stage[s], data_bytes[s])
        BY TipIs
      <4> QED BY <4>1, AlwaysReadable DEF LastFileIs
    <3> QED BY <1>1, <2>2, <2>4, <3>1 DEF FilesAre, FilesOf
  <2> QED BY <1>10, <2>3, <2>4 DEF Fail, Exit
<1>11. CASE Retention(s)
  <2>1. /\ (s \in there' <=> s \in there) /\ files'[s] = files[s] /\ data_bytes' = data_bytes
        /\ named'[s] = named[s] /\ stage[s] \in {"list", "evict", "expire", "purge", "remove"}
        /\ stage'[s] \in {"evict", "expire", "purge", "remove", "idle"}
    BY <1>11, OwnSession
  <2>2. named[s] => LastFileIs(files'[s][Len(files'[s])], stage'[s], data_bytes'[s])
    BY <1>1, <2>1 DEF FilesAre, FilesOf, LastFileIs
  <2> QED BY <1>1, <2>1, <2>2 DEF FilesAre, FilesOf
<1> QED BY <1>3, <1>4, <1>5, <1>6, <1>7, <1>8, <1>9, <1>10, <1>11 DEF Steps, Retention

LEMMA NoWorkHere ==
  ASSUME NEW s \in Runs
  PROVE  s \notin NoWork.old /\ NoWork.target # s
  BY NoWorkIs DEF Runs

LEMMA OwnFresh ==
  ASSUME AInv, NEW s \in Runs, Steps(s)
  PROVE  Fresh(s)'
<1> USE DEF diskVars, runVars
<1>1. /\ ArchiveTypeOK /\ Fresh(s) /\ stage \in [Runs -> Stages] /\ segment \in [Runs -> Nat]
      /\ segment[s] \in Nat /\ work \in [Runs -> Eviction] /\ work[s] \in Eviction
  BY DEF AInv, ArchiveTypeOK, Stages
<1>2. \A to : Goes(s, to) => stage'[s] = to
  BY <1>1 DEF Goes
<1>3. CASE Start(s)
  BY <1>1, <1>2, <1>3 DEF Start, Fresh
<1>4. CASE Create(s)
  BY <1>1, <1>2, <1>4 DEF Create, Fresh
<1>5. CASE WriteHeader(s)
  <2>1. /\ stage[s] = "header" /\ segment'[s] = segment[s] + 1 /\ work' = work
        /\ stage'[s] = IF segment[s] = 0 THEN "list" ELSE "samples"
    BY <1>1, <1>2, <1>5 DEF WriteHeader
  <2>2. segment'[s] # 0
    BY <1>1, <2>1
  <2> QED BY <1>1, <2>1, <2>2 DEF Fresh
<1>6. CASE Take(s)
  BY <1>1, <1>2, <1>6 DEF Take, Fresh
<1>7. CASE Samples(s)
  BY <1>1, <1>2, <1>7 DEF Samples, Fresh
<1>8. CASE PatchRiff(s)
  BY <1>1, <1>2, <1>8 DEF PatchRiff, Fresh
<1>9. CASE PatchSize(s)
  BY <1>1, <1>2, <1>9 DEF PatchSize, Fresh
<1>10. CASE Fail(s) \/ Exit(s)
  <2>1. stage'[s] = "done" /\ work'[s] = NoWork
    BY <1>1, <1>10, GoneIs DEF Fail, Exit
  <2> QED BY <2>1, NoWorkHere DEF Fresh
<1>11. CASE Retention(s)
  <2>1. /\ segment' = segment /\ stage[s] \in {"list", "evict", "expire", "purge", "remove"}
        /\ stage'[s] \in {"evict", "expire", "purge", "remove", "idle"}
    BY <1>11, OwnSession
  <2>2. work'[s] = work[s] \/ work'[s] = NoWork => s \notin work'[s].old /\ work'[s].target # s
    BY <1>1, NoWorkHere DEF Fresh
  <2>3. s \notin work'[s].old /\ work'[s].target # s
    <3>1. CASE List(s)
      <4>1. \/ work' = work
            \/ work' = [work EXCEPT ![s] = Begun(NoWork, Listed, SumOf(Listed))]
        BY <3>1 DEF List, Listed, Begun
      <4>2. Begun(NoWork, Listed, SumOf(Listed)).old = {} /\ Begun(NoWork, Listed, SumOf(Listed)).target = 0
        <5>1. Listed \in Seq([id : Runs, size : Nat]) /\ NoWork \in Eviction
          BY <1>1, SizesAre, NoWorkIs
        <5>2. SumOf(Listed) \in Int
          <6>1. SumOf(Listed) \in Nat
            BY <5>1, SumOfIs
          <6> QED BY <6>1
        <5> DEFINE list == Listed
                   left == SumOf(Listed)
        <5>3. list \in Seq([id : Runs, size : Nat]) /\ NoWork \in Eviction /\ left \in Int
          BY <5>1, <5>2
        <5> HIDE DEF list, left
        <5>4. /\ Begun(NoWork, list, left).old = NoWork.old
              /\ Begun(NoWork, list, left).target = NoWork.target
          BY <5>3, BegunIs
        <5> QED BY <5>4, NoWorkIs DEF list, left
      <4> DEFINE w == Begun(NoWork, Listed, SumOf(Listed))
      <4> HIDE DEF w
      <4>3. work'[s] = work[s] \/ work'[s] = w
        BY <1>1, <4>1 DEF w
      <4>4. 0 # s
        BY DEF Runs
      <4> QED BY <2>2, <4>2, <4>3, <4>4 DEF w
    <3>2. CASE ListFails(s) \/ PurgeEnds(s)
      <4>1. work'[s] = NoWork
        BY <1>1, <3>2 DEF ListFails, PurgeEnds
      <4> QED BY <2>2, <4>1
    <3>3. CASE EvictOk(s)
      <4> DEFINE at == work[s].at + 1
                 gone == work[s].evicted \union {Entry(s).id}
                 left == work[s].remaining - Entry(s).size
      <4>1. at \in Nat \ {0} /\ gone \in SUBSET Runs /\ left \in Int
        <5>1. /\ Entry(s).id \in Runs /\ Entry(s).size \in Nat /\ work[s].at \in Nat
              /\ work[s].remaining \in Int /\ work[s].evicted \in SUBSET Runs
          BY <1>1, <3>3, WorkIs DEF EvictOk, Entry
        <5>2. at \in Nat \ {0}
          BY <5>1
        <5>3. gone \in SUBSET Runs
          BY <5>1
        <5>4. left \in Int
          BY <5>1
        <5> QED BY <5>2, <5>3, <5>4
      <4>2. work' = [work EXCEPT ![s] = Took(work[s], at, gone, left)]
        BY <3>3 DEF EvictOk, Took
      <4> HIDE DEF at, gone, left
      <4>3. work'[s] = Took(work[s], at, gone, left)
        BY <1>1, <4>2
      <4>4. work'[s].old = work[s].old /\ work'[s].target = work[s].target
        BY <1>1, <4>1, <4>3, TookIs
      <4> QED BY <1>1, <4>4 DEF Fresh
    <3>4. CASE EvictFails(s)
      <4> DEFINE at == work[s].at + 1
                 gone == work[s].failed \union {Entry(s).id}
      <4>1. at \in Nat \ {0} /\ gone \in SUBSET Runs
        <5>1. Entry(s).id \in Runs /\ work[s].at \in Nat /\ work[s].failed \in SUBSET Runs
          BY <1>1, <3>4, WorkIs DEF EvictFails, Entry
        <5>2. at \in Nat \ {0}
          BY <5>1
        <5> QED BY <5>1, <5>2
      <4>2. work' = [work EXCEPT ![s] = Stuck(work[s], at, gone)]
        BY <3>4 DEF EvictFails, Stuck
      <4> HIDE DEF at, gone
      <4>3. work'[s] = Stuck(work[s], at, gone)
        BY <1>1, <4>2
      <4>4. work'[s].old = work[s].old /\ work'[s].target = work[s].target
        BY <1>1, <4>1, <4>3, StuckFields
      <4> QED BY <1>1, <4>4 DEF Fresh
    <3>5. CASE SkipOwn(s)
      <4> DEFINE at == work[s].at + 1
      <4>1. at \in Nat \ {0}
        BY <1>1, WorkIs
      <4>2. work' = [work EXCEPT ![s] = Passed(work[s], at)]
        BY <3>5 DEF SkipOwn, Passed
      <4> HIDE DEF at
      <4>3. work'[s] = Passed(work[s], at)
        BY <1>1, <4>2
      <4>4. work'[s].old = work[s].old /\ work'[s].target = work[s].target
        BY <1>1, <4>1, <4>3, PassedIs
      <4> QED BY <1>1, <4>4 DEF Fresh
    <3>6. CASE EvictEnds(s) \/ RemoveOne(s)
      <4>1. work' = work
        BY <3>6 DEF EvictEnds, RemoveOne
      <4> QED BY <2>2, <4>1
    <3>7. CASE Expire(s)
      <4>1. PICK newest \in 0 .. Len(recent) :
              work' = [work EXCEPT ![s] = Aged(NoWork, {recent[i] : i \in 1 .. newest} \ {s})]
        BY <3>7 DEF Expire, Aged
      <4> DEFINE old == {recent[i] : i \in 1 .. newest} \ {s}
      <4>2. old \in SUBSET Runs /\ s \notin old
        <5>1. recent \in Seq(Runs) /\ Len(recent) \in Nat
          BY <1>1 DEF ArchiveTypeOK
        <5> QED BY <5>1
      <4>3. work' = [work EXCEPT ![s] = Aged(NoWork, old)]
        BY <4>1
      <4> HIDE DEF old
      <4>4. work'[s] = Aged(NoWork, old)
        BY <1>1, <4>3
      <4>5. 0 \in 0 .. MaxRuns /\ 0 # s
        BY ArchiveConstants DEF Runs
      <4>6. work'[s].old = old /\ work'[s].target = 0
        <5>1. NoWork \in Eviction /\ NoWork.target = 0
          BY NoWorkIs
        <5>2. Aged(NoWork, old).old = old /\ Aged(NoWork, old).target = NoWork.target
          BY <4>2, <4>5, <5>1, PurgeFields
        <5> QED BY <4>4, <5>1, <5>2
      <4> QED BY <4>2, <4>5, <4>6
    <3>8. CASE PurgeNext(s)
      <4>1. PICK t \in work[s].old : work' = [work EXCEPT ![s] = Aimed(work[s], work[s].old \ {t}, t)]
        BY <3>8 DEF PurgeNext, Aimed
      <4> DEFINE old == work[s].old \ {t}
      <4>2. old \in SUBSET Runs /\ s \notin old /\ t \in 0 .. MaxRuns /\ t # s
        BY <1>1, <4>1, WorkIs, RunsFrom0 DEF Fresh
      <4>3. work' = [work EXCEPT ![s] = Aimed(work[s], old, t)]
        BY <4>1
      <4> HIDE DEF old
      <4>4. work'[s] = Aimed(work[s], old, t)
        BY <1>1, <4>3
      <4>5. work'[s].old = old /\ work'[s].target = t
        <5> DEFINE w == work[s]
        <5>1. w \in Eviction /\ old \in SUBSET Runs /\ t \in 0 .. MaxRuns
          BY <1>1, <4>2
        <5> HIDE DEF w
        <5>2. Aimed(w, old, t).old = old /\ Aimed(w, old, t).target = t
          BY <5>1, PurgeFields
        <5> QED BY <4>4, <5>2 DEF w
      <4> QED BY <4>2, <4>5
    <3>9. CASE PurgeOk(s) \/ PurgeFails(s)
      <4>1. work' = [work EXCEPT ![s] = Freed(work[s])]
        BY <3>9 DEF PurgeOk, PurgeFails, Freed
      <4>2. work'[s] = Freed(work[s])
        BY <1>1, <4>1
      <4>3. {} \in SUBSET Runs /\ 0 \in 0 .. MaxRuns /\ 0 # s
        BY ArchiveConstants DEF Runs
      <4>4. work'[s].old = work[s].old /\ work'[s].target = 0
        BY <1>1, <4>2, <4>3, PurgeFields
      <4> QED BY <1>1, <4>3, <4>4 DEF Fresh
    <3> QED BY <1>11, <3>1, <3>2, <3>3, <3>4, <3>5, <3>6, <3>7, <3>8, <3>9 DEF Retention
  <2> QED BY <1>1, <2>1, <2>3 DEF Fresh
<1> QED BY <1>3, <1>4, <1>5, <1>6, <1>7, <1>8, <1>9, <1>10, <1>11 DEF Steps, Retention

LEMMA AInvInit == ArchiveInit => AInv
<1> SUFFICES ASSUME ArchiveInit PROVE AInv
  OBVIOUS
<1>1. ASSUME NEW s \in Runs PROVE FilesOf(s) /\ Fresh(s)
  <2>1. \A i \in 1 .. Len(<<>>) - 1 : FALSE
    OBVIOUS
  <2> QED BY <2>1, NoWorkHere DEF ArchiveInit, FilesAre, FilesOf, Fresh
<1> QED BY <1>1, ArchiveTypeInit DEF AInv

LEMMA AInvStep == AInv /\ [ArchiveNext]_archiveVars => AInv'
<1> SUFFICES ASSUME AInv, [ArchiveNext]_archiveVars PROVE AInv'
  OBVIOUS
<1>1. ArchiveTypeOK'
  BY ArchiveTypeStep DEF AInv
<1>2. CASE UNCHANGED archiveVars
  <2>1. ASSUME NEW s \in Runs PROVE FilesOf(s)' /\ Fresh(s)'
    BY <1>2 DEF AInv, archiveVars, diskVars, runVars, FilesOf, Fresh
  <2> QED BY <1>1, <2>1 DEF AInv
<1>3. ASSUME NEW s \in Runs, Steps(s) PROVE AInv'
  <2>1. ASSUME NEW t \in Runs PROVE FilesOf(t)' /\ Fresh(t)'
    <3>1. CASE t = s
      BY <1>3, <3>1, OwnFiles, OwnFresh
    <3>2. CASE t # s
      <4>1. Untouched(t)
        BY <1>3, <3>2, Elsewhere
      <4> QED BY <4>1, UntouchedFiles
    <3> QED BY <3>1, <3>2
  <2> QED BY <1>1, <2>1 DEF AInv
<1> QED BY <1>2, <1>3 DEF ArchiveNext

LEMMA Archives == ArchiveSpec => []AInv
  BY AInvInit, AInvStep, PTL DEF ArchiveSpec

LEMMA WavReads == AInv => WavIsReadable
<1> SUFFICES ASSUME AInv, NEW s \in there, NEW i \in 1 .. Len(files[s])
             PROVE  /\ Readable(files[s][i])
                    /\ i < Len(files[s]) => Finished(files[s][i])
  BY DEF WavIsReadable, Readable, Finished
<1> DEFINE n == Len(files[s])
<1>1. /\ s \in Runs /\ ArchiveTypeOK /\ FilesOf(s) /\ files[s] \in Seq(WavFile)
  BY DEF AInv, ArchiveTypeOK
<1>2. n \in Nat /\ \A j \in 1 .. n : files[s][j] \in WavFile
  BY <1>1, SeqIs
<1>3. files[s][i] \in WavFile
  BY <1>2
<1>4. CASE i < n
  <2>1. Finished(files[s][i])
    BY <1>1, <1>2, <1>4 DEF FilesAre, FilesOf
  <2>2. LastFileIs(files[s][i], "create", 0)
    BY <2>1 DEF LastFileIs
  <2>3. Readable(files[s][i])
    BY <1>3, <2>2, AlwaysReadable
  <2> QED BY <2>1, <2>3
<1>5. CASE i = n
  <2>1. files[s] # <<>>
    BY <1>2, <1>5, EmptyIs
  <2>2. LastFileIs(files[s][i], stage[s], data_bytes[s]) \/ Finished(files[s][i])
    BY <1>1, <1>5, <2>1 DEF FilesAre, FilesOf
  <2>3. Finished(files[s][i]) => LastFileIs(files[s][i], "create", 0)
    BY DEF LastFileIs
  <2>4. Readable(files[s][i])
    BY <1>3, <2>2, <2>3, AlwaysReadable
  <2> QED BY <1>2, <1>5, <2>4
<1> QED BY <1>2, <1>4, <1>5

\* Whenever the program is killed, and however many runs overlap, each file of each session
\* can be read up to its last chunk, for any quota, cap and list of chunks.
THEOREM WavReadable == ArchiveSpec => []WavIsReadable
  BY Archives, WavReads, PTL

-----------------------------------------------------------------------------
(* AudioArchive: the chunks of a session, in their order.                  *)

Datas(list) == [i \in 1 .. Len(list) |-> list[i].data]
Every(list) == FlattenSeq(Datas(list))

LEMMA EveryIs ==
  ASSUME NEW list \in Seq(WavFile)
  PROVE  /\ Datas(list) \in Seq(Seq(Chunk)) /\ Len(Datas(list)) = Len(list)
         /\ \A i \in 1 .. Len(list) : Datas(list)[i] = list[i].data /\ list[i].data \in Seq(Chunk)
         /\ Every(list) \in Seq(Chunk) /\ Every(<<>>) = <<>>
<1>1. Len(list) \in Nat /\ \A i \in 1 .. Len(list) : list[i].data \in Seq(Chunk)
  BY SeqIs, FileIs
<1>2. Datas(list) \in Seq(Seq(Chunk)) /\ Len(Datas(list)) = Len(list)
  BY <1>1 DEF Datas
<1>3. Every(list) \in Seq(Chunk)
  BY <1>2, FlatType DEF Every
<1>4. Every(<<>>) = <<>>
  <2>1. Datas(<<>>) = <<>>
    BY DEF Datas
  <2>2. <<>> \in Seq(Chunk)
    OBVIOUS
  <2> QED BY <2>1, <2>2, FlatOne DEF Every
<1> QED BY <1>1, <1>2, <1>3, <1>4 DEF Datas

\* Two sequences of texts are one when they have the same places.
LEMMA SameTexts ==
  ASSUME NEW V, NEW a \in Seq(V), NEW b \in Seq(V), Len(a) = Len(b),
         \A i \in 1 .. Len(a) : a[i] = b[i]
  PROVE  a = b
  OBVIOUS

LEMMA EveryAppend ==
  ASSUME NEW list \in Seq(WavFile), NEW f \in WavFile
  PROVE  Every(Append(list, f)) = Every(list) \o f.data
<1> DEFINE V == Seq(Chunk)
           a == Datas(list)
           b == Datas(Append(list, f))
           n == Len(list)
           c == a \o <<f.data>>
<1>1. /\ Append(list, f) \in Seq(WavFile) /\ Len(Append(list, f)) = n + 1 /\ n \in Nat
      /\ \A i \in 1 .. n : Append(list, f)[i] = list[i]
      /\ Append(list, f)[n + 1] = f
  BY AppendIs, SeqIs
<1>2. a \in Seq(V) /\ Len(a) = n /\ \A i \in 1 .. n : a[i] = list[i].data
  BY EveryIs
<1>3. b \in Seq(V) /\ Len(b) = n + 1 /\ \A i \in 1 .. n + 1 : b[i] = Append(list, f)[i].data
  BY <1>1, EveryIs
<1>4. f.data \in V /\ <<f.data>> \in Seq(V)
  BY FileIs, OneIs
<1> HIDE DEF V, a, b
<1>5. c \in Seq(V) /\ Len(c) = n + 1 /\ c[n + 1] = f.data /\ \A i \in 1 .. n : c[i] = a[i]
  BY <1>1, <1>2, <1>4
<1> HIDE DEF c
<1>6. \A i \in 1 .. n + 1 : b[i] = c[i]
  <2> SUFFICES ASSUME NEW i \in 1 .. n + 1 PROVE b[i] = c[i]
    OBVIOUS
  <2>1. CASE i \in 1 .. n
    BY <1>1, <1>2, <1>3, <1>5, <2>1
  <2>2. CASE i = n + 1
    BY <1>1, <1>3, <1>5, <2>2
  <2> QED BY <1>1, <2>1, <2>2
<1>7. b = c
  BY <1>3, <1>5, <1>6, SameTexts
<1>8. FlattenSeq(c) = FlattenSeq(a) \o FlattenSeq(<<f.data>>)
  BY <1>2, <1>4, FlatConcat DEF c, V
<1>9. FlattenSeq(<<f.data>>) = f.data
  BY <1>4, FlatOne DEF V
<1> QED BY <1>7, <1>8, <1>9 DEF Every, a, b

\* The chunks of some files are those of the files with the same data.
LEMMA EverySame ==
  ASSUME NEW list \in Seq(WavFile), NEW new \in Seq(WavFile), Len(new) = Len(list),
         \A i \in 1 .. Len(list) : new[i].data = list[i].data
  PROVE  Every(new) = Every(list)
<1> DEFINE V == Seq(Chunk)
           a == Datas(new)
           b == Datas(list)
<1>1. a \in Seq(V) /\ b \in Seq(V) /\ Len(a) = Len(b) /\ \A i \in 1 .. Len(a) : a[i] = b[i]
  BY EveryIs
<1> HIDE DEF V, a, b
<1>2. a = b
  BY <1>1, SameTexts
<1> QED BY <1>2 DEF Every, a, b

LEMMA EveryConcat ==
  ASSUME NEW x \in Seq(WavFile), NEW y \in Seq(WavFile)
  PROVE  Every(x \o y) = Every(x) \o Every(y)
<1> DEFINE V == Seq(Chunk)
           a == Datas(x)
           b == Datas(y)
           z == x \o y
           c == Datas(z)
           d == a \o b
<1>1. /\ z \in Seq(WavFile) /\ Len(z) = Len(x) + Len(y) /\ Len(x) \in Nat /\ Len(y) \in Nat
      /\ \A i \in 1 .. Len(x) : z[i] = x[i]
      /\ \A i \in 1 .. Len(y) : z[Len(x) + i] = y[i]
  BY SeqIs
<1> HIDE DEF z
<1>2. a \in Seq(V) /\ Len(a) = Len(x) /\ \A i \in 1 .. Len(x) : a[i] = x[i].data
  BY EveryIs
<1>3. b \in Seq(V) /\ Len(b) = Len(y) /\ \A i \in 1 .. Len(y) : b[i] = y[i].data
  BY EveryIs
<1>4. c \in Seq(V) /\ Len(c) = Len(z) /\ \A i \in 1 .. Len(z) : c[i] = z[i].data
  BY <1>1, EveryIs
<1> HIDE DEF V, a, b, c
<1>5. /\ d \in Seq(V) /\ Len(d) = Len(a) + Len(b)
      /\ \A i \in 1 .. Len(a) : d[i] = a[i]
      /\ \A i \in 1 .. Len(b) : d[Len(a) + i] = b[i]
  <2>1. a \in Seq(V) /\ b \in Seq(V)
    BY <1>2, <1>3
  <2> QED BY <2>1
<1> HIDE DEF d
<1>6. Len(c) = Len(d) /\ \A i \in 1 .. Len(c) : c[i] = d[i]
  <2>1. Len(c) = Len(d)
    BY <1>1, <1>2, <1>3, <1>4, <1>5
  <2>2. ASSUME NEW i \in 1 .. Len(c) PROVE c[i] = d[i]
    <3>1. CASE i \in 1 .. Len(x)
      <4>1. i \in 1 .. Len(z) /\ i \in 1 .. Len(a)
        BY <1>1, <1>2, <1>4, <3>1
      <4> QED BY <1>1, <1>2, <1>4, <1>5, <3>1, <4>1, ZenonT(60)
    <3>2. CASE i \notin 1 .. Len(x)
      <4> DEFINE k == i - Len(x)
      <4>1. k \in 1 .. Len(y) /\ i = Len(x) + k
        BY <1>1, <1>4, <3>2
      <4> HIDE DEF k
      <4>2. c[i] = z[i].data /\ z[i] = y[k]
        BY <1>1, <1>4, <4>1
      <4>3. d[i] = b[k] /\ b[k] = y[k].data
        BY <1>2, <1>3, <1>5, <4>1
      <4> QED BY <4>2, <4>3
    <3> QED BY <3>1, <3>2
  <2> QED BY <2>1, <2>2
<1>7. c = d
  BY <1>4, <1>5, <1>6, SameTexts
<1>8. FlattenSeq(d) = FlattenSeq(a) \o FlattenSeq(b)
  BY <1>2, <1>3, FlatConcat DEF d, V
<1> QED BY <1>7, <1>8 DEF Every, a, b, c, z

\* Without one of the files, its chunks are missing.
LEMMA EveryDrop ==
  ASSUME NEW list \in Seq(WavFile), NEW i \in 1 .. Len(list)
  PROVE  \E a, d, b \in Seq(Chunk) : /\ Every(list) = a \o (d \o b)
                                    /\ Every(RemoveAt(list, i)) = a \o b
<1> DEFINE n == Len(list)
           x == SubSeq(list, 1, i - 1)
           one == SubSeq(list, i, i)
           y == SubSeq(list, i + 1, n)
           rest == one \o y
           all == x \o rest
<1>1. n \in Nat /\ i \in 1 .. n /\ \A j \in 1 .. n : list[j] \in WavFile
  BY SeqIs
<1>2. x \in Seq(WavFile) /\ y \in Seq(WavFile) /\ RemoveAt(list, i) = x \o y
  BY DropIs DEF RemoveAt
<1>3. Len(x) = i - 1 /\ \A j \in 1 .. i - 1 : x[j] = list[j]
  <2>1. x = [j \in 1 .. i - 1 |-> list[j]] /\ i - 1 \in Nat
    BY <1>1
  <2> HIDE DEF x, n
  <2> QED BY <2>1
<1>4. Len(y) = n - i /\ \A j \in 1 .. n - i : y[j] = list[j + i]
  <2>1. y = [j \in 1 .. n - i |-> list[j + i]] /\ n - i \in Nat
    BY <1>1
  <2> HIDE DEF y, n
  <2> QED BY <2>1
<1>5. one \in Seq(WavFile) /\ Len(one) = 1 /\ one[1] = list[i]
  <2>1. one = [j \in 1 .. 1 |-> list[i]] /\ list[i] \in WavFile
    BY <1>1
  <2> HIDE DEF one
  <2> QED BY <2>1
<1> HIDE DEF x, y, one, n
<1>6. rest \in Seq(WavFile) /\ Len(rest) = 1 + Len(y) /\ rest[1] = list[i]
      /\ \A k \in 1 .. Len(y) : rest[1 + k] = y[k]
  <2>1. /\ rest \in Seq(WavFile) /\ Len(rest) = Len(one) + Len(y)
        /\ \A k \in 1 .. Len(one) : rest[k] = one[k]
        /\ \A k \in 1 .. Len(y) : rest[Len(one) + k] = y[k]
    <3>1. one \in Seq(WavFile) /\ y \in Seq(WavFile)
      BY <1>2, <1>5
    <3> QED BY <3>1
  <2> QED BY <1>5, <2>1
<1> HIDE DEF rest
<1>7. /\ all \in Seq(WavFile) /\ Len(all) = Len(x) + Len(rest)
      /\ \A k \in 1 .. Len(x) : all[k] = x[k]
      /\ \A k \in 1 .. Len(rest) : all[Len(x) + k] = rest[k]
  BY <1>2, <1>6
<1> HIDE DEF all
<1>8. all = list
  <2>1. Len(all) = n
    BY <1>1, <1>3, <1>4, <1>6, <1>7
  <2>2. ASSUME NEW j \in 1 .. n PROVE all[j] = list[j]
    <3>1. CASE j < i
      <4>1. j \in 1 .. i - 1 /\ j \in 1 .. Len(x)
        BY <1>1, <1>3, <3>1
      <4> QED BY <1>3, <1>7, <4>1
    <3>2. CASE j = i
      <4>1. 1 \in 1 .. Len(rest) /\ j = Len(x) + 1
        BY <1>1, <1>3, <1>4, <1>6, <3>2
      <4> QED BY <1>6, <1>7, <3>2, <4>1
    <3>3. CASE j > i
      <4> DEFINE k == j - i
      <4>1. k \in 1 .. n - i /\ k \in 1 .. Len(y) /\ 1 + k \in 1 .. Len(rest) /\ j = Len(x) + (1 + k) /\ j = k + i
        BY <1>1, <1>3, <1>4, <1>6, <3>3
      <4> HIDE DEF k
      <4>2. all[j] = rest[1 + k]
        BY <1>7, <4>1
      <4>3. rest[1 + k] = y[k] /\ y[k] = list[k + i]
        BY <1>4, <1>6, <4>1
      <4> QED BY <4>1, <4>2, <4>3
    <3> QED BY <1>1, <3>1, <3>2, <3>3
  <2> QED BY <1>7, <2>1, <2>2, SeqEqual DEF n
<1>9. /\ Every(x) \in Seq(Chunk) /\ Every(one) \in Seq(Chunk) /\ Every(y) \in Seq(Chunk)
  BY <1>2, <1>5, EveryIs
<1>10. Every(list) = Every(x) \o (Every(one) \o Every(y))
  <2>1. Every(rest) = Every(one) \o Every(y)
    BY <1>2, <1>5, EveryConcat DEF rest
  <2>2. Every(all) = Every(x) \o Every(rest)
    BY <1>2, <1>6, EveryConcat DEF all
  <2> QED BY <1>8, <2>1, <2>2
<1>11. Every(RemoveAt(list, i)) = Every(x) \o Every(y)
  BY <1>2, EveryConcat
<1> QED BY <1>9, <1>10, <1>11

\* One chunk more in the last file.
LEMMA EveryMore ==
  ASSUME NEW list \in Seq(WavFile), list # <<>>, NEW file \in WavFile, NEW c \in Chunk,
         file.data = Append(Last(list).data, c)
  PROVE  Every(Append(Front(list), file)) = Append(Every(list), c)
<1> DEFINE f == Front(list)
           l == Last(list)
<1>1. f \in Seq(WavFile) /\ l \in WavFile /\ list = Append(f, l)
  BY FrontIs
<1>2. l.data \in Seq(Chunk) /\ Every(f) \in Seq(Chunk)
  BY <1>1, EveryIs, FileIs
<1> HIDE DEF f, l
<1>3. Every(Append(f, file)) = Every(f) \o file.data /\ Every(list) = Every(f) \o l.data
  BY <1>1, EveryAppend
<1>4. Every(f) \o Append(l.data, c) = Append(Every(f) \o l.data, c)
  BY <1>2, SMTT(60)
<1> QED BY <1>3, <1>4 DEF f, l

\* The run has a chunk in its hand that is not in a file yet.
HoldsAt(place, number) == place = "samples" \/ (place \in {"create", "header"} /\ number # 0)
GivenAt(place, number, taken) == IF HoldsAt(place, number) THEN taken - 1 ELSE taken
Holds(s) == HoldsAt(stage[s], segment[s])
Given(s) == GivenAt(stage[s], segment[s], count[s])

\* The chunks of some files are in their order, those of each file without a hole, and the
\* last one of the file that is open is the last one the run was given.  They are complete
\* while no removal has taken a file.
Ascending(chunks) == \A i, j \in 1 .. Len(chunks) : i < j => chunks[i].n < chunks[j].n
UpTo(chunks, given) == \A i \in 1 .. Len(chunks) : chunks[i].n <= given
Unbroken(data) == \A j \in 1 .. Len(data) - 1 : data[j + 1].n = data[j].n + 1
EndsAt(data, given) == Len(data) # 0 => data[Len(data)].n = given
Complete(chunks, place, given) ==
  (\A i \in 1 .. Len(chunks) : chunks[i].n = i) /\ (place # "done" => Len(chunks) = given)
OrderHolds(list, place, given, open, whole) ==
  /\ Ascending(Every(list)) /\ (place # "done" => UpTo(Every(list), given))
  /\ \A i \in 1 .. Len(list) : Unbroken(list[i].data)
  /\ open /\ place # "done" => EndsAt(list[Len(list)].data, given)
  /\ whole => Complete(Every(list), place, given)

Uncut(s) == s \in there /\ s \notin cut
HoleOf(s) ==
  /\ Holds(s) => count[s] # 0 /\ hand[s].n = count[s]
  /\ stage[s] = "off" => count[s] = 0
  /\ OrderHolds(files[s], stage[s], Given(s), named[s], Uncut(s))
  /\ Uncut(s) /\ stage[s] \notin {"off", "done"} /\ ~(stage[s] = "create" /\ segment[s] = 0) => named[s]

HoleInv == AInv /\ \A s \in Runs : HoleOf(s)

LEMMA OrderOfNone ==
  ASSUME NEW place, NEW open, ~open, NEW whole
  PROVE  OrderHolds(<<>>, place, 0, open, whole)
<1>1. Every(<<>>) = <<>>
  <2>1. <<>> \in Seq(WavFile)
    BY EmptyIs
  <2> QED BY <2>1, EveryIs
<1>2. Len(<<>>) = 0 /\ \A i \in 1 .. Len(<<>>) : FALSE
  OBVIOUS
<1> QED BY <1>1, <1>2 DEF OrderHolds, Ascending, UpTo, Complete

\* Files with the same data.
LEMMA OrderKept ==
  ASSUME NEW list \in Seq(WavFile), NEW new \in Seq(WavFile), Len(new) = Len(list),
         \A i \in 1 .. Len(list) : new[i].data = list[i].data,
         NEW place, NEW to, to = "done" \/ place # "done", NEW given, NEW open, NEW whole,
         open => list # <<>>, OrderHolds(list, place, given, open, whole)
  PROVE  \A after : to = "done" \/ after = given => OrderHolds(new, to, after, open, whole)
<1>1. Every(new) = Every(list)
  BY EverySame
<1>2. \A i \in 1 .. Len(new) : Unbroken(new[i].data)
  BY DEF OrderHolds
<1>3. open /\ place # "done" => EndsAt(new[Len(new)].data, given)
  <2>1. open => Len(list) \in 1 .. Len(list)
    <3>1. Len(list) \in Nat /\ (list # <<>> => Len(list) # 0)
      BY SeqIs, EmptyIs
    <3> QED BY <3>1
  <2> QED BY <2>1 DEF OrderHolds
<1> QED BY <1>1, <1>2, <1>3 DEF OrderHolds, Complete

\* One chunk more.
LEMMA OrderGrows ==
  ASSUME NEW list \in Seq(WavFile), list # <<>>, NEW file \in WavFile, NEW c \in Chunk,
         file.data = Append(Last(list).data, c), NEW place, place # "done", NEW to,
         NEW given \in Int, c.n = given + 1, NEW whole, OrderHolds(list, place, given, TRUE, whole)
  PROVE  OrderHolds(Append(Front(list), file), to, given + 1, TRUE, whole)
<1> DEFINE new == Append(Front(list), file)
           n == Len(list)
           a == Every(list)
           b == Every(new)
           d == Last(list).data
           e == file.data
<1>1. /\ n \in 1 .. n /\ n \in Nat /\ new \in Seq(WavFile) /\ Len(new) = n /\ new[n] = file
      /\ Last(list) = list[n] /\ Last(list) \in WavFile
      /\ \A i \in 1 .. n - 1 : new[i] = list[i]
  BY FrontIs, SeqIs
<1>2. a \in Seq(Chunk) /\ d \in Seq(Chunk)
  BY <1>1, EveryIs, FileIs
<1>3. b = Append(a, c)
  BY EveryMore
<1>4. /\ Ascending(a) /\ UpTo(a, given) /\ (\A i \in 1 .. n : Unbroken(list[i].data))
      /\ EndsAt(d, given) /\ (whole => Complete(a, place, given))
  BY <1>1 DEF OrderHolds
<1>5. e = Append(d, c)
  OBVIOUS
<1> HIDE DEF new, n, a, b, d, e
<1>6. /\ Len(a) \in Nat /\ Len(b) = Len(a) + 1 /\ b[Len(a) + 1] = c
      /\ \A i \in 1 .. Len(a) : b[i] = a[i] /\ a[i] \in Chunk
  BY <1>2, <1>3, AppendIs, SeqIs
<1>7. /\ Len(d) \in Nat /\ Len(e) = Len(d) + 1 /\ e[Len(d) + 1] = c
      /\ \A i \in 1 .. Len(d) : e[i] = d[i] /\ d[i] \in Chunk
  BY <1>2, <1>5, AppendIs, SeqIs
<1>8. \A x \in Chunk : x.n \in Nat
  BY DEF Chunk
<1>9. \A i \in 1 .. Len(b) : i = Len(a) + 1 \/ i \in 1 .. Len(a)
  BY <1>6
<1>10. \A i \in 1 .. Len(a) : a[i].n \in Nat /\ a[i].n <= given /\ a[i].n < given + 1 /\ b[i].n = a[i].n
  BY <1>4, <1>6, <1>8 DEF UpTo
<1>11. b[Len(a) + 1].n = given + 1
  BY <1>6
<1>12. UpTo(b, given + 1)
  BY <1>9, <1>10, <1>11 DEF UpTo
<1>13. Ascending(b)
  <2> SUFFICES ASSUME NEW i \in 1 .. Len(b), NEW j \in 1 .. Len(b), i < j PROVE b[i].n < b[j].n
    BY DEF Ascending
  <2>1. i \in 1 .. Len(a)
    BY <1>6
  <2>2. CASE j \in 1 .. Len(a)
    BY <1>4, <1>10, <2>1, <2>2 DEF Ascending
  <2>3. CASE j = Len(a) + 1
    BY <1>10, <1>11, <2>1, <2>3
  <2> QED BY <1>9, <2>2, <2>3
<1>14. Unbroken(e)
  <2> SUFFICES ASSUME NEW j \in 1 .. Len(e) - 1 PROVE e[j + 1].n = e[j].n + 1
    BY DEF Unbroken
  <2>1. j \in 1 .. Len(d) /\ (j = Len(d) \/ (j \in 1 .. Len(d) - 1 /\ j + 1 \in 1 .. Len(d)))
    BY <1>7
  <2>2. CASE j = Len(d)
    <3>1. d[j].n = given
      BY <1>4, <2>1, <2>2 DEF EndsAt
    <3> QED BY <1>7, <2>1, <2>2, <3>1
  <2>3. CASE j \in 1 .. Len(d) - 1 /\ j + 1 \in 1 .. Len(d)
    <3>1. Unbroken(d)
      BY <1>1, <1>4 DEF d
    <3>2. d[j + 1].n = d[j].n + 1
      BY <2>3, <3>1 DEF Unbroken
    <3> QED BY <1>7, <2>1, <2>3, <3>2
  <2> QED BY <2>1, <2>2, <2>3
<1>15. EndsAt(e, given + 1)
  BY <1>7 DEF EndsAt
<1>16. \A i \in 1 .. n : Unbroken(new[i].data)
  <2> SUFFICES ASSUME NEW i \in 1 .. n PROVE Unbroken(new[i].data)
    OBVIOUS
  <2>1. i = n \/ i \in 1 .. n - 1
    BY <1>1
  <2> QED BY <1>1, <1>4, <1>14, <2>1 DEF e
<1>17. ASSUME whole PROVE Complete(b, to, given + 1)
  <2>1. Len(a) = given /\ \A i \in 1 .. Len(a) : a[i].n = i
    BY <1>4, <1>17 DEF Complete
  <2>2. \A i \in 1 .. Len(b) : b[i].n = i
    BY <1>9, <1>10, <1>11, <2>1
  <2> QED BY <1>6, <2>1, <2>2 DEF Complete
<1>18. EndsAt(new[Len(new)].data, given + 1)
  BY <1>1, <1>15 DEF e
<1> QED BY <1>1, <1>12, <1>13, <1>16, <1>17, <1>18 DEF OrderHolds, new, b

\* Some chunks less are in their order still.
LEMMA RisingDrop ==
  ASSUME NEW a \in Seq(Chunk), NEW d \in Seq(Chunk), NEW b \in Seq(Chunk), Ascending(a \o (d \o b))
  PROVE  /\ Ascending(a \o b)
         /\ \A given \in Int : UpTo(a \o (d \o b), given) => UpTo(a \o b, given)
<1> DEFINE x == d \o b
           c == a \o x
           e == a \o b
           Source(i) == IF i <= Len(a) THEN i ELSE i + Len(d)
<1>1. /\ x \in Seq(Chunk) /\ Len(x) = Len(d) + Len(b)
      /\ \A k \in 1 .. Len(b) : x[Len(d) + k] = b[k]
      /\ Len(a) \in Nat /\ Len(b) \in Nat /\ Len(d) \in Nat
  BY SeqIs
<1> HIDE DEF x
<1>2. /\ Len(c) = Len(a) + Len(x)
      /\ \A k \in 1 .. Len(a) : c[k] = a[k]
      /\ \A k \in 1 .. Len(x) : c[Len(a) + k] = x[k]
  <2>1. a \in Seq(Chunk) /\ x \in Seq(Chunk)
    BY <1>1
  <2> QED BY <2>1
<1>3. /\ Len(e) = Len(a) + Len(b)
      /\ \A k \in 1 .. Len(a) : e[k] = a[k]
      /\ \A k \in 1 .. Len(b) : e[Len(a) + k] = b[k]
  BY <1>1
<1>4. Ascending(c)
  BY DEF x
<1> HIDE DEF c, e
<1>5. ASSUME NEW i \in 1 .. Len(e) PROVE Source(i) \in 1 .. Len(c) /\ e[i] = c[Source(i)]
  <2>1. CASE i <= Len(a)
    <3>1. i \in 1 .. Len(a) /\ Source(i) = i /\ i \in 1 .. Len(c)
      BY <1>1, <1>2, <1>3, <2>1
    <3> QED BY <1>2, <1>3, <3>1
  <2>2. CASE ~(i <= Len(a))
    <3> DEFINE k == i - Len(a)
               m == Len(d) + k
    <3>1. /\ k \in 1 .. Len(b) /\ i = Len(a) + k /\ m \in 1 .. Len(x) /\ Source(i) = Len(a) + m
          /\ Len(a) + m \in 1 .. Len(c) /\ m = Len(d) + k
      BY <1>1, <1>2, <1>3, <2>2
    <3> HIDE DEF k, m, Source
    <3>2. e[i] = b[k]
      BY <1>3, <3>1
    <3>3. c[Source(i)] = x[m]
      BY <1>2, <3>1
    <3>4. x[m] = b[k]
      BY <1>1, <3>1
    <3> QED BY <3>1, <3>2, <3>3, <3>4
  <2> QED BY <2>1, <2>2
<1>6. \A i, j \in 1 .. Len(e) : i < j => Source(i) < Source(j)
  BY <1>1, <1>3
<1> HIDE DEF Source
<1>7. Ascending(e)
  BY <1>4, <1>5, <1>6 DEF Ascending
<1>8. \A given \in Int : UpTo(c, given) => UpTo(e, given)
  BY <1>5 DEF UpTo
<1> QED BY <1>7, <1>8 DEF c, e, x

\* A file less.
LEMMA OrderThinned ==
  ASSUME NEW list \in Seq(WavFile), NEW i \in 1 .. Len(list), NEW place, NEW given \in Int,
         NEW open, NEW whole, OrderHolds(list, place, given, open, whole)
  PROVE  OrderHolds(RemoveAt(list, i), place, given, open /\ i # Len(list), FALSE)
<1> DEFINE n == Len(list)
           fewer == RemoveAt(list, i)
           m == Len(fewer)
<1>1. /\ n \in Nat /\ i \in 1 .. n /\ m = n - 1
      /\ \A j \in 1 .. m : fewer[j] = IF j < i THEN list[j] ELSE list[j + 1]
  BY DropIs, SeqIs
<1>2. Ascending(Every(fewer)) /\ (place # "done" => UpTo(Every(fewer), given))
  <2>1. PICK a, d, b \in Seq(Chunk) : Every(list) = a \o (d \o b) /\ Every(fewer) = a \o b
    BY EveryDrop
  <2>2. Ascending(a \o (d \o b)) /\ (place # "done" => UpTo(a \o (d \o b), given))
    BY <2>1 DEF OrderHolds
  <2>3. Ascending(a \o b) /\ (UpTo(a \o (d \o b), given) => UpTo(a \o b, given))
    BY <2>2, RisingDrop
  <2> QED BY <2>1, <2>2, <2>3
<1>3. \A j \in 1 .. n : Unbroken(list[j].data)
  BY DEF OrderHolds
<1>4. open /\ place # "done" => EndsAt(list[n].data, given)
  BY DEF OrderHolds
<1> HIDE DEF n, fewer
<1>5. \A j \in 1 .. m : Unbroken(fewer[j].data)
  <2> SUFFICES ASSUME NEW j \in 1 .. m PROVE Unbroken(fewer[j].data)
    OBVIOUS
  <2>1. j \in 1 .. n /\ j + 1 \in 1 .. n
    BY <1>1
  <2>2. fewer[j] = list[j] \/ fewer[j] = list[j + 1]
    BY <1>1
  <2> QED BY <1>3, <2>1, <2>2
<1>6. i # n => fewer[m] = list[n]
  <2> SUFFICES ASSUME i # n PROVE fewer[m] = list[n]
    OBVIOUS
  <2>1. m \in 1 .. m /\ ~(m < i) /\ m + 1 = n
    BY <1>1
  <2> QED BY <1>1, <2>1
<1> QED BY <1>2, <1>4, <1>5, <1>6 DEF OrderHolds, n, fewer

\* What others do to a session leaves its chunks in their order.
LEMMA UntouchedHoles ==
  ASSUME HoleInv, NEW s \in Runs, Steps(s), NEW t \in Runs \ {s}
  PROVE  HoleOf(t)'
<1>1. Untouched(t) /\ HoleOf(t) /\ AInv /\ files[t] \in Seq(WavFile)
  BY Elsewhere DEF HoleInv, AInv, ArchiveTypeOK
<1>2. /\ stage'[t] = stage[t] /\ segment'[t] = segment[t] /\ hand'[t] = hand[t] /\ count'[t] = count[t]
      /\ Holds(t)' = Holds(t) /\ Given(t)' = Given(t) /\ (Uncut(t)' => Uncut(t))
  BY <1>1 DEF Untouched, Holds, Given, Uncut
<1>3. Given(t) \in Int
  <2>1. count[t] \in Nat
    BY <1>1 DEF AInv, ArchiveTypeOK
  <2> QED BY <2>1 DEF Given, GivenAt
<1>4. CASE files'[t] = files[t] /\ named'[t] = named[t]
  BY <1>1, <1>2, <1>4 DEF HoleOf, OrderHolds
<1>5. CASE Thinned(t)
  <2>1. PICK i \in 1 .. Len(files[t]) :
          files'[t] = RemoveAt(files[t], i) /\ named'[t] = (named[t] /\ i # Len(files[t]))
    BY <1>5 DEF Thinned
  <2>2. ~Uncut(t)'
    BY <1>5 DEF Thinned, Uncut
  <2>3. OrderHolds(RemoveAt(files[t], i), stage[t], Given(t), named[t] /\ i # Len(files[t]), FALSE)
    <3> DEFINE list == files[t]
               open == named[t]
               given == Given(t)
               whole == Uncut(t)
    <3>1. OrderHolds(list, stage[t], given, open, whole) /\ list \in Seq(WavFile) /\ given \in Int
          /\ i \in 1 .. Len(list)
      BY <1>1, <1>3 DEF HoleOf
    <3>2. OrderHolds(RemoveAt(list, i), stage[t], given, open /\ i # Len(list), FALSE)
      <4> HIDE DEF list, open, given, whole
      <4> QED BY <3>1, OrderThinned
    <3> QED BY <3>2
  <2>4. OrderHolds(files'[t], stage'[t], Given(t)', named'[t], FALSE)
    BY <1>2, <2>1, <2>3
  <2>5. OrderHolds(files'[t], stage'[t], Given(t)', named'[t], Uncut(t)')
    BY <2>2, <2>4 DEF OrderHolds
  <2> QED BY <1>1, <1>2, <2>2, <2>5 DEF HoleOf
<1> QED BY <1>1, <1>4, <1>5 DEF Untouched

\* A change that leaves the chunks and what the run was given.
LEMMA KeptHoles ==
  ASSUME HoleInv, NEW s \in Runs, NEW file \in WavFile, file.data = Current(s).data,
         Change(s, file) \/ UNCHANGED <<there, files, named, cut>>,
         stage[s] # "done", NEW to, stage'[s] = to, to = "done" \/ Given(s)' = Given(s)
  PROVE  /\ Uncut(s)' = Uncut(s) /\ named'[s] = named[s]
         /\ OrderHolds(files'[s], stage'[s], Given(s)', named'[s], Uncut(s)')
<1>1. /\ AInv /\ ArchiveTypeOK /\ FilesOf(s) /\ HoleOf(s) /\ files[s] \in Seq(WavFile)
      /\ files \in [Runs -> Seq(WavFile)]
  BY DEF HoleInv, AInv, ArchiveTypeOK
<1>2. there' = there /\ cut' = cut /\ named' = named /\ files' \in [Runs -> Seq(WavFile)]
  BY <1>1, ChangeIs
<1>3. named[s] => files[s] # <<>>
  BY <1>1 DEF FilesAre, FilesOf
<1>4. /\ Len(files'[s]) = Len(files[s])
      /\ \A i \in 1 .. Len(files[s]) : files'[s][i].data = files[s][i].data
  <2>1. CASE named[s] /\ Change(s, file)
    <3>1. /\ Len(files'[s]) = Len(files[s]) /\ Len(files[s]) \in Nat
          /\ \A i \in 1 .. Len(files[s]) - 1 : files'[s][i] = files[s][i]
          /\ files'[s][Len(files[s])] = file /\ Current(s) = files[s][Len(files[s])]
      BY <1>1, <1>3, <2>1, ChangeIs, CurrentIs, SeqIs
    <3>2. \A i \in 1 .. Len(files[s]) : i = Len(files[s]) \/ i \in 1 .. Len(files[s]) - 1
      BY <3>1
    <3> QED BY <3>1, <3>2
  <2>2. CASE files' = files
    BY <2>2
  <2> QED BY <1>1, <2>1, <2>2, ChangeIs
<1>5. OrderHolds(files'[s], stage'[s], Given(s)', named[s], Uncut(s))
  <2> DEFINE list == files[s]
             new == files'[s]
             place == stage[s]
             given == Given(s)
             after == Given(s)'
             open == named[s]
             whole == Uncut(s)
  <2>1. /\ list \in Seq(WavFile) /\ new \in Seq(WavFile) /\ Len(new) = Len(list)
        /\ \A i \in 1 .. Len(list) : new[i].data = list[i].data
        /\ to = "done" \/ place # "done"
        /\ open => list # <<>>
        /\ OrderHolds(list, place, given, open, whole)
    BY <1>1, <1>2, <1>3, <1>4 DEF HoleOf
  <2>2. to = "done" \/ after = given
    OBVIOUS
  <2> HIDE DEF list, new, place, given, after, open, whole
  <2>3. OrderHolds(new, to, after, open, whole)
    BY <2>1, <2>2, OrderKept
  <2> QED BY <2>3 DEF new, after, open, whole
<1>6. Uncut(s)' = Uncut(s)
  BY <1>2 DEF Uncut
<1> QED BY <1>2, <1>5, <1>6

LEMMA OwnHoles ==
  ASSUME HoleInv, NEW s \in Runs, Steps(s)
  PROVE  HoleOf(s)'
<1> USE DEF diskVars, runVars
<1>1. /\ AInv /\ ArchiveTypeOK /\ HoleOf(s) /\ FilesOf(s) /\ Fresh(s) /\ files \in [Runs -> Seq(WavFile)]
      /\ stage \in [Runs -> Stages] /\ hand \in [Runs -> Chunk] /\ hand[s] \in Chunk
      /\ files[s] \in Seq(WavFile) /\ count \in [Runs -> Nat] /\ segment \in [Runs -> Nat]
      /\ count[s] \in Nat /\ segment[s] \in Nat /\ named \in [Runs -> BOOLEAN]
  BY DEF HoleInv, AInv, ArchiveTypeOK, Stages
<1>2. \A to : Goes(s, to) => stage'[s] = to
  BY <1>1 DEF Goes
<1>3. Current(s) \in WavFile /\ Current(s).data \in Seq(Chunk)
  BY <1>1, CurrentIs, FileIs
<1>4. CASE Start(s)
  <2>1. /\ files'[s] = <<>> /\ stage'[s] = "create" /\ segment'[s] = 0 /\ count'[s] = 0 /\ ~named'[s]
    BY <1>1, <1>2, <1>4 DEF Start, Fresh, HoleOf, FilesAre, FilesOf
  <2>2. ~Holds(s)' /\ Given(s)' = 0
    BY <2>1 DEF Holds, Given, HoldsAt, GivenAt
  <2> DEFINE place == stage'[s]
             open == named'[s]
             whole == Uncut(s)'
  <2>3. ~open
    BY <2>1
  <2> HIDE DEF place, open, whole
  <2>4. OrderHolds(<<>>, place, 0, open, whole)
    BY <2>3, OrderOfNone
  <2> QED BY <2>1, <2>2, <2>4 DEF HoleOf, place, open, whole
<1>5. CASE Create(s)
  <2>1. /\ stage[s] = "create" /\ stage'[s] = "header" /\ segment' = segment /\ count' = count
        /\ hand' = hand /\ s \in there /\ files'[s] = Append(files[s], NewFile) /\ named'[s]
        /\ there' = there /\ cut' = cut
    BY <1>1, <1>2, <1>5 DEF Create
  <2>2. Holds(s)' = Holds(s) /\ Given(s)' = Given(s) /\ Uncut(s)' = Uncut(s)
    BY <2>1 DEF Holds, Given, HoldsAt, GivenAt, Uncut
  <2>3. Every(files'[s]) = Every(files[s])
    <3>1. Every(files'[s]) = Every(files[s]) \o <<>>
      BY <1>1, <2>1, FileIs, EveryAppend
    <3>2. Every(files[s]) \in Seq(Chunk)
      BY <1>1, EveryIs
    <3> QED BY <3>1, <3>2
  <2> DEFINE n == Len(files[s])
  <2>4. /\ n \in Nat /\ Len(files'[s]) = n + 1 /\ files'[s][n + 1] = NewFile
        /\ \A i \in 1 .. n : files'[s][i] = files[s][i]
    <3>1. n \in Nat
      BY <1>1, SeqIs
    <3> QED BY <1>1, <2>1, <3>1, FileIs, AppendIs
  <2>5. NewFile.data = <<>> /\ Len(<<>>) = 0 /\ \A j \in 1 .. Len(<<>>) - 1 : FALSE
    BY FileIs
  <2>6. \A i \in 1 .. n + 1 : Unbroken(files'[s][i].data)
    <3> SUFFICES ASSUME NEW i \in 1 .. n + 1 PROVE Unbroken(files'[s][i].data)
      OBVIOUS
    <3>1. i = n + 1 \/ i \in 1 .. n
      BY <2>4
    <3>2. Unbroken(<<>>)
      BY <2>5 DEF Unbroken
    <3> QED BY <1>1, <2>4, <2>5, <3>1, <3>2 DEF HoleOf, OrderHolds
  <2>7. EndsAt(files'[s][Len(files'[s])].data, Given(s)')
    BY <2>4, <2>5 DEF EndsAt
  <2>8. OrderHolds(files'[s], stage'[s], Given(s)', named'[s], Uncut(s)')
    BY <1>1, <2>1, <2>2, <2>3, <2>4, <2>6, <2>7 DEF HoleOf, OrderHolds, Complete
  <2> QED BY <1>1, <2>1, <2>2, <2>8 DEF HoleOf
<1>6. CASE WriteHeader(s)
  <2> DEFINE file == [Current(s) EXCEPT !.header = TRUE]
  <2>1. file \in WavFile /\ file.data = Current(s).data
    BY <1>3, HeaderSet
  <2>2. /\ Change(s, file) /\ stage[s] = "header" /\ segment'[s] = segment[s] + 1
        /\ stage'[s] = IF segment[s] = 0 THEN "list" ELSE "samples"
        /\ hand' = hand /\ count' = count
    BY <1>1, <1>2, <1>6 DEF WriteHeader
  <2> HIDE DEF file
  <2>3. Holds(s)' = Holds(s) /\ Given(s)' = Given(s)
    BY <1>1, <2>2 DEF Holds, Given, HoldsAt, GivenAt
  <2>4. /\ Uncut(s)' = Uncut(s) /\ named'[s] = named[s]
        /\ OrderHolds(files'[s], stage'[s], Given(s)', named'[s], Uncut(s)')
    BY <2>1, <2>2, <2>3, KeptHoles
  <2> QED BY <1>1, <2>2, <2>3, <2>4 DEF HoleOf
<1>7. CASE Take(s)
  <2>1. /\ stage[s] = "idle" /\ stage'[s] \in {"samples", "create"} /\ segment' = segment
        /\ segment[s] # 0 /\ count'[s] = count[s] + 1 /\ UNCHANGED <<there, files, named, cut>>
    BY <1>1, <1>2, <1>7 DEF Take, Fresh
  <2>2. hand'[s].n = count'[s] /\ count'[s] # 0
    <3>1. hand'[s] = [n |-> count'[s], len |-> Lengths[count'[s]]]
      BY <1>1, <1>7 DEF Take
    <3> QED BY <1>1, <2>1, <3>1
  <2>3. Given(s)' = Given(s)
    <3>1. Given(s) = count[s]
      BY <2>1 DEF Given, HoldsAt, GivenAt
    <3>2. Given(s)' = count'[s] - 1
      BY <2>1 DEF Given, HoldsAt, GivenAt
    <3>3. count[s] \in Nat
      BY <1>1
    <3> QED BY <2>1, <3>1, <3>2, <3>3
  <2>4. /\ Uncut(s)' = Uncut(s) /\ named'[s] = named[s]
        /\ OrderHolds(files'[s], stage'[s], Given(s)', named'[s], Uncut(s)')
    BY <1>3, <2>1, <2>3, KeptHoles
  <2> QED BY <1>1, <2>1, <2>2, <2>4 DEF HoleOf
<1>8. CASE Samples(s)
  <2> DEFINE data == Append(Current(s).data, hand[s])
             file == [Current(s) EXCEPT !.data = data]
  <2>1. data \in Seq(Chunk)
    BY <1>1, <1>3, AppendIs
  <2>2. file \in WavFile /\ file.data = data
    <3> HIDE DEF data
    <3> QED BY <1>3, <2>1, DataSet
  <2>3. /\ Change(s, file) /\ stage[s] = "samples" /\ stage'[s] = "riff" /\ segment' = segment
        /\ count' = count /\ hand' = hand
    BY <1>1, <1>2, <1>8 DEF Samples
  <2> HIDE DEF file
  <2>4. there' = there /\ named' = named /\ cut' = cut
    BY <1>1, <2>2, <2>3, ChangeIs
  <2>5. /\ ~Holds(s)' /\ Given(s)' = count[s] /\ Given(s) = count[s] - 1
        /\ count[s] # 0 /\ hand[s].n = count[s]
    BY <1>1, <2>3 DEF Holds, Given, HoldsAt, GivenAt, HoleOf
  <2>6. Uncut(s)' = Uncut(s) /\ (Uncut(s) => named[s]) /\ OrderHolds(files[s], "samples", Given(s), named[s], Uncut(s))
    BY <1>1, <2>3, <2>4 DEF Uncut, HoleOf
  <2>7. CASE named[s]
    <3>1. files[s] # <<>> /\ files'[s] = Append(Front(files[s]), file) /\ Current(s) = Last(files[s])
      BY <1>1, <2>3, <2>7 DEF FilesAre, FilesOf, Change, Current
    <3> DEFINE list == files[s]
               given == Given(s)
               whole == Uncut(s)
               c == hand[s]
    <3>2. /\ list \in Seq(WavFile) /\ list # <<>> /\ file \in WavFile /\ c \in Chunk
          /\ file.data = Append(Last(list).data, c) /\ given \in Int /\ c.n = given + 1
          /\ given + 1 = count[s]
      <4>1. given = count[s] - 1 /\ c.n = count[s]
        BY <2>5
      <4>2. count[s] \in Nat
        BY <1>1
      <4> HIDE DEF given, c
      <4>3. given \in Int /\ c.n = given + 1 /\ given + 1 = count[s]
        BY <4>1, <4>2
      <4>4. list \in Seq(WavFile) /\ list # <<>> /\ c \in Chunk
        BY <1>1, <3>1 DEF c
      <4>5. file \in WavFile /\ file.data = Append(Last(list).data, c)
        BY <2>2, <3>1 DEF c
      <4> QED BY <4>3, <4>4, <4>5
    <3>3. OrderHolds(list, "samples", given, TRUE, whole)
      BY <2>6, <2>7 DEF OrderHolds
    <3> HIDE DEF list, given, whole, c
    <3>4. OrderHolds(Append(Front(list), file), "riff", given + 1, TRUE, whole)
      BY <3>2, <3>3, OrderGrows
    <3>5. OrderHolds(files'[s], "riff", count[s], TRUE, Uncut(s))
      BY <3>1, <3>2, <3>4 DEF list, whole
    <3> QED BY <2>3, <2>4, <2>5, <2>6, <2>7, <3>5 DEF HoleOf, OrderHolds
  <2>8. CASE ~named[s]
    <3>1. files' = files
      BY <1>1, <2>2, <2>3, <2>8, ChangeIs
    <3>2. UpTo(Every(files[s]), count[s])
      <4> DEFINE e == Every(files[s])
      <4>1. e \in Seq(Chunk) /\ UpTo(e, count[s] - 1)
        BY <1>1, <2>5, <2>6, EveryIs DEF OrderHolds
      <4> HIDE DEF e
      <4>2. ASSUME NEW i \in 1 .. Len(e) PROVE e[i].n <= count[s]
        <5>1. e[i] \in Chunk
          BY <4>1, SeqIs
        <5>2. e[i].n \in Nat
          BY <5>1 DEF Chunk
        <5>3. e[i].n <= count[s] - 1
          BY <4>1 DEF UpTo
        <5>4. count[s] \in Nat
          BY <1>1
        <5> QED BY <5>2, <5>3, <5>4
      <4>3. UpTo(e, count[s])
        BY <4>2 DEF UpTo
      <4> QED BY <4>3 DEF e
    <3>3. OrderHolds(files'[s], "riff", count[s], FALSE, FALSE)
      BY <2>6, <3>1, <3>2 DEF OrderHolds
    <3> QED BY <2>3, <2>4, <2>5, <2>6, <2>8, <3>3 DEF HoleOf, OrderHolds
  <2> QED BY <2>7, <2>8
<1>9. CASE PatchRiff(s) \/ PatchSize(s)
  <2>1. /\ stage[s] \in {"riff", "size"} /\ stage'[s] \in {"size", "idle"} /\ segment' = segment
        /\ count' = count /\ hand' = hand
    BY <1>1, <1>2, <1>9 DEF PatchRiff, PatchSize
  <2>2. ~Holds(s)' /\ Given(s)' = Given(s)
    BY <2>1 DEF Holds, Given, HoldsAt, GivenAt
  <2>3. PICK file \in WavFile : file.data = Current(s).data /\ Change(s, file)
    <3>1. data_bytes[s] \in Nat
      BY <1>1 DEF ArchiveTypeOK
    <3> DEFINE riff == [Current(s) EXCEPT !.riff = data_bytes[s]]
               size == [Current(s) EXCEPT !.size = data_bytes[s]]
    <3>2. riff \in WavFile /\ riff.data = Current(s).data
      BY <1>3, <3>1, RiffSet
    <3>3. size \in WavFile /\ size.data = Current(s).data
      BY <1>3, <3>1, SizeSet
    <3>4. Change(s, riff) \/ Change(s, size)
      BY <1>9 DEF PatchRiff, PatchSize
    <3> HIDE DEF riff, size
    <3> QED BY <3>2, <3>3, <3>4
  <2>4. /\ Uncut(s)' = Uncut(s) /\ named'[s] = named[s]
        /\ OrderHolds(files'[s], stage'[s], Given(s)', named'[s], Uncut(s)')
    BY <2>1, <2>2, <2>3, KeptHoles
  <2> QED BY <1>1, <2>1, <2>2, <2>4 DEF HoleOf
<1>10. CASE Fail(s) \/ Exit(s)
  <2>1. Gone(s) /\ stage[s] # "done"
    BY <1>10 DEF Fail, Exit
  <2>2. stage'[s] = "done"
    BY <1>1, <2>1, GoneIs
  <2> DEFINE file == [Current(s) EXCEPT !.torn = TRUE]
  <2>3. file \in WavFile /\ file.data = Current(s).data
    BY <1>3, TornSet
  <2>4. Change(s, file) \/ UNCHANGED <<there, files, named, cut>>
    BY <1>10 DEF Fail, Exit
  <2> HIDE DEF file
  <2>5. /\ Uncut(s)' = Uncut(s) /\ named'[s] = named[s]
        /\ OrderHolds(files'[s], stage'[s], Given(s)', named'[s], Uncut(s)')
    BY <2>1, <2>2, <2>3, <2>4, KeptHoles
  <2> QED BY <2>2, <2>5 DEF HoleOf, Holds, HoldsAt
<1>11. CASE Retention(s)
  <2>1. /\ (s \in there' <=> s \in there) /\ files'[s] = files[s] /\ UNCHANGED runVars
        /\ named'[s] = named[s] /\ (s \in cut' <=> s \in cut)
        /\ stage[s] \in {"list", "evict", "expire", "purge", "remove"}
        /\ stage'[s] \in {"evict", "expire", "purge", "remove", "idle"}
    BY <1>1, <1>11, OwnSession
  <2>2. ~Holds(s)' /\ Given(s)' = Given(s) /\ (Uncut(s)' <=> Uncut(s))
    BY <2>1 DEF Holds, Given, HoldsAt, GivenAt, Uncut
  <2>3. OrderHolds(files'[s], stage'[s], Given(s)', named'[s], Uncut(s)')
    BY <1>1, <2>1, <2>2 DEF HoleOf, OrderHolds, Complete
  <2> QED BY <1>1, <2>1, <2>2, <2>3 DEF HoleOf
<1> QED BY <1>4, <1>5, <1>6, <1>7, <1>8, <1>9, <1>10, <1>11 DEF Steps, Retention

LEMMA HoleInvInit == ArchiveInit => HoleInv
<1> SUFFICES ASSUME ArchiveInit PROVE HoleInv
  OBVIOUS
<1>1. ASSUME NEW s \in Runs PROVE HoleOf(s)
  <2>1. /\ files[s] = <<>> /\ ~named[s] /\ stage[s] = "off" /\ count[s] = 0 /\ segment[s] = 0
        /\ Given(s) = 0 /\ ~Holds(s)
    BY DEF ArchiveInit, Given, GivenAt, Holds, HoldsAt
  <2> DEFINE place == stage[s]
             open == named[s]
             whole == Uncut(s)
  <2>2. ~open
    BY <2>1
  <2> HIDE DEF place, open, whole
  <2>3. OrderHolds(<<>>, place, 0, open, whole)
    BY <2>2, OrderOfNone
  <2> QED BY <2>1, <2>3 DEF HoleOf, place, open, whole
<1> QED BY <1>1, AInvInit DEF HoleInv

LEMMA HoleInvStep == HoleInv /\ [ArchiveNext]_archiveVars => HoleInv'
<1> SUFFICES ASSUME HoleInv, [ArchiveNext]_archiveVars PROVE HoleInv'
  OBVIOUS
<1>1. AInv'
  BY AInvStep DEF HoleInv
<1>2. CASE UNCHANGED archiveVars
  <2>1. ASSUME NEW s \in Runs PROVE HoleOf(s)'
    BY <1>2 DEF HoleInv, archiveVars, diskVars, runVars, HoleOf, Uncut, Holds, Given
  <2> QED BY <1>1, <2>1 DEF HoleInv
<1>3. ASSUME NEW s \in Runs, Steps(s) PROVE HoleInv'
  <2>1. ASSUME NEW t \in Runs PROVE HoleOf(t)'
    <3>1. CASE t = s
      BY <1>3, <3>1, OwnHoles
    <3>2. CASE t # s
      BY <1>3, <3>2, UntouchedHoles
    <3> QED BY <3>1, <3>2
  <2> QED BY <1>1, <2>1 DEF HoleInv
<1> QED BY <1>2, <1>3 DEF ArchiveNext

LEMMA NoHoles == HoleInv => ArchiveHasNoHole
<1> SUFFICES ASSUME HoleInv, NEW s \in there
             PROVE  LET datas == Datas(files[s])
                        chunks == Every(files[s])
                    IN  /\ s \notin cut => /\ \A i \in 1 .. Len(chunks) : chunks[i].n = i
                                           /\ stage[s] = "idle" => Len(chunks) = count[s]
                        /\ \A i, j \in 1 .. Len(chunks) : i < j => chunks[i].n < chunks[j].n
                        /\ \A i \in 1 .. Len(datas) : \A j \in 1 .. Len(datas[i]) - 1 :
                             datas[i][j + 1].n = datas[i][j].n + 1
  BY DEF ArchiveHasNoHole, Every, Datas
<1>1. /\ s \in Runs /\ files[s] \in Seq(WavFile)
      /\ OrderHolds(files[s], stage[s], Given(s), named[s], Uncut(s))
  BY DEF HoleInv, AInv, ArchiveTypeOK, HoleOf
<1>2. s \notin cut => Complete(Every(files[s]), stage[s], Given(s))
  BY <1>1 DEF OrderHolds, Uncut
<1>3. stage[s] = "idle" => Given(s) = count[s]
  BY DEF Given, GivenAt, HoldsAt
<1>4. s \notin cut => /\ \A i \in 1 .. Len(Every(files[s])) : Every(files[s])[i].n = i
                      /\ stage[s] = "idle" => Len(Every(files[s])) = count[s]
  BY <1>2, <1>3 DEF Complete
<1>5. \A i, j \in 1 .. Len(Every(files[s])) : i < j => Every(files[s])[i].n < Every(files[s])[j].n
  BY <1>1 DEF OrderHolds, Ascending
<1>6. ASSUME NEW i \in 1 .. Len(Datas(files[s])), NEW j \in 1 .. Len(Datas(files[s])[i]) - 1
      PROVE  Datas(files[s])[i][j + 1].n = Datas(files[s])[i][j].n + 1
  <2>1. i \in 1 .. Len(files[s]) /\ Datas(files[s])[i] = files[s][i].data
    BY <1>1, EveryIs
  <2> DEFINE data == Datas(files[s])[i]
  <2>2. Unbroken(files[s][i].data)
    BY <1>1, <2>1 DEF OrderHolds
  <2>3. Unbroken(data) /\ j \in 1 .. Len(data) - 1
    BY <2>1, <2>2
  <2> HIDE DEF data
  <2>4. data[j + 1].n = data[j].n + 1
    BY <2>3 DEF Unbroken
  <2> QED BY <2>4 DEF data
<1> QED BY <1>4, <1>5, <1>6

LEMMA Holeless == ArchiveSpec => []HoleInv
  BY HoleInvInit, HoleInvStep, PTL DEF ArchiveSpec

\* A session from which no removal has taken a file holds, file after file, what its run was
\* given, complete; one that a removal has begun with holds it in its order, none twice and
\* each file complete, whatever fails or is killed meanwhile.
THEOREM NoHoleInArchive == ArchiveSpec => []ArchiveHasNoHole
  BY Holeless, NoHoles, PTL

-----------------------------------------------------------------------------
(* AudioArchive: the oldest sessions make room.                            *)

Once(list) == \A i, j \in 1 .. Len(list) : list[i] = list[j] => i = j

\* Each directory is listed once.
ListedOnce == recent \in Seq(there) /\ Once(recent)

LEMMA OnceMore ==
  ASSUME NEW S, NEW list \in Seq(S), Once(list), NEW e \in S, \A i \in 1 .. Len(list) : list[i] # e
  PROVE  Append(list, e) \in Seq(S) /\ Once(Append(list, e))
<1> DEFINE l == Append(list, e)
<1>1. /\ l \in Seq(S) /\ Len(l) = Len(list) + 1 /\ l[Len(list) + 1] = e /\ Len(list) \in Nat
      /\ \A i \in 1 .. Len(list) : l[i] = list[i]
  BY AppendIs, SeqIs
<1> HIDE DEF l
<1>2. ASSUME NEW i \in 1 .. Len(l), NEW j \in 1 .. Len(l), l[i] = l[j] PROVE i = j
  <2>1. /\ i \in 1 .. Len(list) \/ i = Len(list) + 1
        /\ j \in 1 .. Len(list) \/ j = Len(list) + 1
    BY <1>1
  <2>2. CASE i \in 1 .. Len(list) /\ j \in 1 .. Len(list)
    BY <1>1, <1>2, <2>2 DEF Once
  <2>3. CASE i \in 1 .. Len(list) /\ j = Len(list) + 1
    BY <1>1, <1>2, <2>3
  <2>4. CASE i = Len(list) + 1 /\ j \in 1 .. Len(list)
    BY <1>1, <1>2, <2>4
  <2> QED BY <2>1, <2>2, <2>3, <2>4
<1>3. Once(l)
  BY <1>2 DEF Once
<1> QED BY <1>1, <1>3 DEF l

\* A list without some sessions, with one of them at its end.
LEMMA MovedOnce ==
  ASSUME ListedOnce, NEW s \in there
  PROVE  Append(Without(recent, {s}), s) \in Seq(there) /\ Once(Append(Without(recent, {s}), s))
<1> DEFINE l == Without(recent, {s})
<1>1. l \in Seq(there) /\ Once(l) /\ \A i \in 1 .. Len(l) : l[i] # s
  BY WithoutIs DEF ListedOnce, Once
<1> HIDE DEF l
<1>2. Append(l, s) \in Seq(there) /\ Once(Append(l, s))
  BY <1>1, OnceMore
<1> QED BY <1>2 DEF l

LEMMA RemovedOnce ==
  ASSUME ListedOnce, NEW gone
  PROVE  Without(recent, gone) \in Seq(there \ gone) /\ Once(Without(recent, gone))
<1> DEFINE l == Without(recent, gone)
<1>1. l \in Seq(there) /\ Once(l) /\ \A i \in 1 .. Len(l) : l[i] \notin gone
  BY WithoutIs DEF ListedOnce, Once
<1> HIDE DEF l
<1>2. l \in Seq(there \ gone)
  <2>1. \A i \in 1 .. Len(l) : l[i] \in there \ gone
    BY <1>1, SeqIs
  <2>2. l = [i \in 1 .. Len(l) |-> l[i]] /\ Len(l) \in Nat
    BY <1>1
  <2> QED BY <2>1, <2>2
<1> QED BY <1>1, <1>2 DEF l

\* A list without a session, with it at another place.
LEMMA InsertedOnce ==
  ASSUME ListedOnce, NEW t \in there, NEW place \in 1 .. Len(Without(recent, {t})) + 1
  PROVE  /\ InsertAt(Without(recent, {t}), place, t) \in Seq(there)
         /\ Once(InsertAt(Without(recent, {t}), place, t))
<1> DEFINE l == Without(recent, {t})
           m == InsertAt(l, place, t)
<1>1. l \in Seq(there) /\ Once(l) /\ \A i \in 1 .. Len(l) : l[i] # t
  BY WithoutIs DEF ListedOnce, Once
<1>2. place \in 1 .. Len(l) + 1
  OBVIOUS
<1> HIDE DEF l
<1>3. /\ m \in Seq(there) /\ Len(m) = Len(l) + 1
      /\ \A j \in 1 .. Len(m) : m[j] = IF j < place THEN l[j] ELSE IF j = place THEN t ELSE l[j - 1]
  BY <1>1, <1>2, InsertIs
<1>4. Len(l) \in Nat
  BY <1>1, SeqIs
<1> HIDE DEF m
<1> DEFINE From(j) == IF j < place THEN j ELSE j - 1
<1>5. ASSUME NEW j \in 1 .. Len(m), j # place
      PROVE  From(j) \in 1 .. Len(l) /\ m[j] = l[From(j)]
  BY <1>2, <1>3, <1>4, <1>5
<1>6. m[place] = t
  BY <1>2, <1>3, <1>4
<1>7. ASSUME NEW i \in 1 .. Len(m), NEW j \in 1 .. Len(m), m[i] = m[j] PROVE i = j
  <2>1. CASE i # place /\ j # place
    <3>1. From(i) = From(j)
      BY <1>1, <1>5, <1>7, <2>1 DEF Once
    <3> QED BY <1>2, <1>4, <2>1, <3>1
  <2>2. CASE i = place /\ j # place
    <3>1. m[j] = l[From(j)] /\ From(j) \in 1 .. Len(l)
      BY <1>5, <2>2
    <3> HIDE DEF From
    <3> QED BY <1>1, <1>6, <1>7, <2>2, <3>1
  <2>3. CASE i # place /\ j = place
    <3>1. m[i] = l[From(i)] /\ From(i) \in 1 .. Len(l)
      BY <1>5, <2>3
    <3> HIDE DEF From
    <3> QED BY <1>1, <1>6, <1>7, <2>3, <3>1
  <2> QED BY <2>1, <2>2, <2>3
<1>8. m \in Seq(there) /\ Once(m)
  BY <1>3, <1>7 DEF Once
<1> QED BY <1>8 DEF l, m

LEMMA ListedOnceStep ==
  ASSUME AInv, ListedOnce, NEW s \in Runs, Steps(s)
  PROVE  ListedOnce'
<1> USE DEF diskVars, runVars
<1>1. ArchiveTypeOK /\ FilesOf(s)
  BY DEF AInv
<1>2. ASSUME NEW file, Change(s, file) PROVE ListedOnce'
  <2>1. CASE named[s]
    <3>1. s \in there
      BY <1>1, <2>1 DEF FilesAre, FilesOf
    <3>2. there' = there /\ recent' = Append(Without(recent, {s}), s)
      BY <1>2, <2>1 DEF Change
    <3> QED BY <3>1, <3>2, MovedOnce DEF ListedOnce
  <2>2. CASE ~named[s]
    BY <1>2, <2>2 DEF Change, ListedOnce
  <2> QED BY <2>1, <2>2
<1>3. ASSUME NEW r \in Runs, Clears(r) PROVE ListedOnce'
  <2>1. CASE RemoveDir(r)
    BY <2>1, RemovedOnce DEF RemoveDir, ListedOnce
  <2>2. ASSUME NEW i \in 1 .. Len(files[r]), r \in there, RemoveFile(r, i) PROVE ListedOnce'
    <3>1. there' = there
          /\ \/ recent' = recent
             \/ \E place \in 1 .. Len(Without(recent, {r})) + 1 :
                  recent' = InsertAt(Without(recent, {r}), place, r)
      BY <1>1, <2>2, RemoveFileIs
    <3>2. CASE recent' = recent
      BY <3>1, <3>2 DEF ListedOnce
    <3>3. ASSUME NEW place \in 1 .. Len(Without(recent, {r})) + 1,
                 recent' = InsertAt(Without(recent, {r}), place, r)
          PROVE  ListedOnce'
      BY <2>2, <3>1, <3>3, InsertedOnce DEF ListedOnce
    <3> QED BY <3>1, <3>2, <3>3
  <2> QED BY <1>3, <2>1, <2>2 DEF Clears
<1>4. CASE Start(s)
  <2>1. s \notin there /\ there' = there \union {s} /\ recent' = Append(recent, s)
    BY <1>1, <1>4 DEF Start, FilesAre, FilesOf
  <2>2. \A i \in 1 .. Len(recent) : recent[i] \in there
    BY SeqIs DEF ListedOnce
  <2>3. recent \in Seq(there')
    <3>1. there \subseteq there'
      BY <2>1
    <3>2. recent = [i \in 1 .. Len(recent) |-> recent[i]] /\ Len(recent) \in Nat
      BY DEF ListedOnce
    <3> QED BY <2>2, <3>1, <3>2
  <2>4. s \in there' /\ \A i \in 1 .. Len(recent) : recent[i] # s
    BY <2>1, <2>2
  <2>5. Append(recent, s) \in Seq(there') /\ Once(Append(recent, s))
    BY <2>3, <2>4, OnceMore DEF ListedOnce
  <2> QED BY <2>1, <2>5 DEF ListedOnce
<1>5. CASE Create(s)
  BY <1>5, MovedOnce DEF Create, ListedOnce
<1>6. CASE WriteHeader(s) \/ Samples(s) \/ PatchRiff(s) \/ PatchSize(s)
  BY <1>2, <1>6 DEF WriteHeader, Samples, PatchRiff, PatchSize
<1>7. CASE Fail(s) \/ Exit(s)
  <2>1. CASE UNCHANGED diskVars
    BY <2>1 DEF ListedOnce
  <2> QED BY <1>2, <1>7, <2>1 DEF Fail, Exit
<1>8. CASE Take(s)
  BY <1>8 DEF Take, ListedOnce
<1>9. CASE Retention(s)
  <2>1. CASE UNCHANGED diskVars
    BY <2>1 DEF ListedOnce
  <2> QED BY <1>3, <1>9, <2>1, RetentionIs
<1> QED BY <1>4, <1>5, <1>6, <1>7, <1>8, <1>9 DEF Steps, Retention

\* What a list comes to without some sessions.
Rest(list, gone) == SumSeq([i \in 1 .. Len(list) |-> IF list[i].id \in gone THEN 0 ELSE list[i].size])

LEMMA RestIs ==
  ASSUME NEW list \in Seq([id : Runs, size : Nat])
  PROVE  /\ Rest(list, {}) = SumOf(list)
         /\ \A gone : [i \in 1 .. Len(list) |-> IF list[i].id \in gone THEN 0 ELSE list[i].size] \in Seq(Nat)
<1>1. Len(list) \in Nat /\ \A i \in 1 .. Len(list) : list[i] \in [id : Runs, size : Nat]
  BY SeqIs
<1>2. \A i \in 1 .. Len(list) : list[i].size \in Nat
  BY <1>1
<1>3. [i \in 1 .. Len(list) |-> IF list[i].id \in {} THEN 0 ELSE list[i].size]
        = [i \in 1 .. Len(list) |-> list[i].size]
  OBVIOUS
<1>4. ASSUME NEW gone
      PROVE  [i \in 1 .. Len(list) |-> IF list[i].id \in gone THEN 0 ELSE list[i].size] \in Seq(Nat)
  BY <1>1, <1>2
<1> QED BY <1>3, <1>4 DEF Rest, SumOf

\* One session less.
LEMMA RestDrops ==
  ASSUME NEW list \in Seq([id : Runs, size : Nat]), NEW gone, NEW k \in 1 .. Len(list),
         list[k].id \notin gone, \A i \in 1 .. Len(list) : list[i].id = list[k].id => i = k
  PROVE  Rest(list, gone) = Rest(list, gone \union {list[k].id}) + list[k].size
<1> DEFINE more == gone \union {list[k].id}
           a == [i \in 1 .. Len(list) |-> IF list[i].id \in gone THEN 0 ELSE list[i].size]
           b == [i \in 1 .. Len(list) |-> IF list[i].id \in more THEN 0 ELSE list[i].size]
<1>1. a \in Seq(Nat) /\ b \in Seq(Nat)
  BY RestIs
<1>2. Len(a) = Len(list) /\ Len(b) = Len(list)
  BY SeqIs
<1>3. a[k] = list[k].size /\ b[k] = 0
  OBVIOUS
<1>4. \A i \in 1 .. Len(list) : i # k => b[i] = a[i]
  OBVIOUS
<1>5. Rest(list, gone) = SumSeq(a) /\ Rest(list, more) = SumSeq(b)
  BY DEF Rest
<1> HIDE DEF a, b, more
<1>6. SumSeq(a) = SumSeq(b) + a[k]
  BY <1>1, <1>2, <1>3, <1>4, SumDrop
<1> QED BY <1>3, <1>5, <1>6 DEF more

\* What the eviction has done so far.
WorkIn(list, at, remaining, failed, evicted, s) ==
  /\ \A i, j \in 1 .. Len(list) : list[i].id = list[j].id => i = j
  /\ \A x \in evicted : \E i \in 1 .. Len(list) : i < at /\ list[i].id = x
  /\ s \notin evicted
  /\ \A i \in 1 .. Len(list) : i < at => list[i].id \in evicted \union failed \union {s}
  /\ remaining = Rest(list, evicted)
  /\ \A i \in 1 .. Len(list) :
       list[i].id \in evicted /\ (\A j \in 1 .. Len(list) : list[j].id \in evicted => j <= i)
         => remaining + list[i].size > TotalCap
WorkOf(s) ==
  LET w == work[s]
  IN  /\ stage[s] \notin {"evict", "expire"} => w.list = <<>> /\ w.evicted = {}
      /\ stage[s] \in {"evict", "expire"} => WorkIn(w.list, w.at, w.remaining, w.failed, w.evicted, s)
      /\ stage[s] = "expire" => Relieved(s)
RoomInv == AInv /\ ListedOnce /\ \A s \in Runs : WorkOf(s)

\* The beginning of the eviction.
LEMMA WorkBegins ==
  ASSUME NEW list \in Seq([id : Runs, size : Nat]), NEW failed, NEW s,
         \A i, j \in 1 .. Len(list) : list[i].id = list[j].id => i = j
  PROVE  WorkIn(list, 1, SumOf(list), failed, {}, s)
<1>1. SumOf(list) = Rest(list, {})
  BY RestIs
<1>2. \A i \in 1 .. Len(list) : ~(i < 1)
  BY SeqIs
<1> QED BY <1>1, <1>2 DEF WorkIn

\* Past an entry that stays.
LEMMA WorkPasses ==
  ASSUME NEW list \in Seq([id : Runs, size : Nat]), NEW at \in 1 .. Len(list), NEW remaining,
         NEW failed, NEW more, NEW evicted, NEW s, WorkIn(list, at, remaining, failed, evicted, s),
         failed \subseteq more, list[at].id \in more \union {s}
  PROVE  WorkIn(list, at + 1, remaining, more, evicted, s)
<1>1. Len(list) \in Nat /\ at \in Nat /\ at + 1 \in Nat
  BY SeqIs
<1>2. \A i \in 1 .. Len(list) : (i < at => i < at + 1) /\ (i < at + 1 => i < at \/ i = at)
  BY <1>1
<1>3. \A x \in evicted : \E i \in 1 .. Len(list) : i < at + 1 /\ list[i].id = x
  BY <1>2 DEF WorkIn
<1>4. \A i \in 1 .. Len(list) : i < at + 1 => list[i].id \in evicted \union more \union {s}
  BY <1>2 DEF WorkIn
<1> QED BY <1>3, <1>4 DEF WorkIn

\* Past one that is removed.
LEMMA WorkTakes ==
  ASSUME NEW list \in Seq([id : Runs, size : Nat]), NEW at \in 1 .. Len(list), NEW remaining \in Int,
         NEW failed, NEW evicted, NEW s, WorkIn(list, at, remaining, failed, evicted, s),
         list[at].id # s, remaining > TotalCap
  PROVE  WorkIn(list, at + 1, remaining - list[at].size, failed, evicted \union {list[at].id}, s)
<1> DEFINE more == evicted \union {list[at].id}
           less == remaining - list[at].size
<1>1. /\ Len(list) \in Nat /\ at \in Nat /\ at + 1 \in Nat /\ TotalCap \in Nat
      /\ list[at].size \in Nat
  <2>1. list[at] \in [id : Runs, size : Nat]
    BY SeqIs
  <2> QED BY <2>1, SeqIs, ArchiveConstants
<1>2. \A i \in 1 .. Len(list) : (i < at => i < at + 1) /\ (i < at + 1 => i < at \/ i = at)
  BY <1>1
<1>3. \A i, j \in 1 .. Len(list) : list[i].id = list[j].id => i = j
  BY DEF WorkIn
<1>4. \A i \in 1 .. Len(list) : list[i].id \in evicted => i < at
  BY <1>3, SMTT(60) DEF WorkIn
<1>5. list[at].id \notin evicted
  BY <1>1, <1>4
<1>6. \A x \in more : \E i \in 1 .. Len(list) : i < at + 1 /\ list[i].id = x
  <2>1. at < at + 1
    BY <1>1
  <2> QED BY <1>2, <2>1 DEF WorkIn
<1>7. s \notin more
  BY DEF WorkIn
<1>8. \A i \in 1 .. Len(list) : i < at + 1 => list[i].id \in more \union failed \union {s}
  BY <1>2 DEF WorkIn
<1>9. less = Rest(list, more) /\ Rest(list, more) + list[at].size = remaining
  <2>1. Rest(list, evicted) = Rest(list, more) + list[at].size
    BY <1>3, <1>5, RestDrops
  <2>2. Rest(list, more) \in Nat
    BY RestIs, SumIs, SumBy DEF Rest
  <2>3. remaining = Rest(list, evicted)
    BY DEF WorkIn
  <2> QED BY <1>1, <2>1, <2>2, <2>3
<1>10. ASSUME NEW i \in 1 .. Len(list), list[i].id \in more,
              \A j \in 1 .. Len(list) : list[j].id \in more => j <= i
       PROVE  less + list[i].size > TotalCap
  <2>1. at <= i
    BY <1>10
  <2>2. i = at
    <3>1. i < at \/ i = at
      BY <1>3, <1>4, <1>10
    <3> QED BY <1>1, <2>1, <3>1
  <2>3. less + list[at].size = remaining
    BY <1>1
  <2> QED BY <2>2, <2>3
<1> HIDE DEF more, less
<1>11. WorkIn(list, at + 1, less, failed, more, s)
  BY <1>3, <1>6, <1>7, <1>8, <1>9, <1>10 DEF WorkIn
<1> QED BY <1>11 DEF more, less

\* Nothing to do.
LEMMA NothingToDo ==
  ASSUME NEW s
  PROVE  /\ WorkIn(NoWork.list, NoWork.at, NoWork.remaining, NoWork.failed, NoWork.evicted, s)
         /\ NoWork.at > Len(NoWork.list)
<1>1. <<>> \in Seq([id : Runs, size : Nat]) /\ Len(<<>>) = 0
  BY EmptyIs
<1>2. \A i, j \in 1 .. Len(<<>>) : <<>>[i].id = <<>>[j].id => i = j
  BY <1>1
<1>3. SumOf(<<>>) = 0
  <2>1. <<>> \in Seq(Nat) /\ 0 \in Nat
    OBVIOUS
  <2>2. SumSeq(<<>>) = 0
    BY <2>1, SumAppend
  <2>3. [i \in 1 .. Len(<<>>) |-> <<>>[i].size] = <<>>
    OBVIOUS
  <2> QED BY <2>2, <2>3 DEF SumOf
<1>4. WorkIn(<<>>, 1, SumOf(<<>>), {}, {}, s)
  BY <1>1, <1>2, WorkBegins
<1> QED BY <1>1, <1>3, <1>4, NoWorkIs

LEMMA OwnWork ==
  ASSUME RoomInv, NEW s \in Runs, Steps(s)
  PROVE  WorkOf(s)'
<1> USE DEF diskVars, runVars
<1>1. /\ AInv /\ ArchiveTypeOK /\ ListedOnce /\ WorkOf(s) /\ Fresh(s) /\ stage \in [Runs -> Stages]
      /\ work \in [Runs -> Eviction] /\ work[s] \in Eviction
  BY DEF RoomInv, AInv, ArchiveTypeOK, Stages
<1>2. \A to : Goes(s, to) => stage'[s] = to
  BY <1>1 DEF Goes
<1> DEFINE L == work[s].list
<1>3. /\ L \in Seq([id : Runs, size : Nat]) /\ Len(L) \in Nat
      /\ work[s].at \in Nat /\ work[s].remaining \in Int /\ work[s].failed \in SUBSET Runs
      /\ work[s].evicted \in SUBSET Runs /\ work[s].at + 1 \in Nat \ {0}
      /\ ~Relieved(s) => work[s].at \in 1 .. Len(L) /\ work[s].remaining > TotalCap
  <2>1. \A n \in Nat : n + 1 \in Nat \ {0}
    OBVIOUS
  <2>2. work[s].at \in Nat
    BY <1>1, WorkIs
  <2> QED BY <1>1, <2>1, <2>2, WorkIs
<1>4. CASE \/ Start(s) \/ Create(s) \/ WriteHeader(s) \/ Take(s) \/ Samples(s) \/ PatchRiff(s)
           \/ PatchSize(s)
  <2>1. /\ stage[s] \notin {"evict", "expire"} /\ work' = work
        /\ stage'[s] \in {"create", "header", "list", "samples", "riff", "size", "idle"}
    BY <1>1, <1>2, <1>4 DEF Start, Create, WriteHeader, Take, Samples, PatchRiff, PatchSize
  <2> QED BY <1>1, <2>1 DEF WorkOf
<1>5. CASE Fail(s) \/ Exit(s)
  <2>1. stage'[s] = "done" /\ work'[s] = NoWork
    BY <1>1, <1>5, GoneIs DEF Fail, Exit
  <2>2. work'[s].list = <<>> /\ work'[s].evicted = {}
    BY <2>1, NoWorkIs
  <2> QED BY <2>1, <2>2 DEF WorkOf
<1>6. CASE List(s)
  <2>1. work[s] = NoWork /\ stage[s] = "list"
    BY <1>1, <1>6 DEF List, Fresh
  <2>2. CASE work' = work /\ stage'[s] = "expire"
    <3>1. work'[s] = NoWork
      BY <2>1, <2>2
    <3> QED BY <2>2, <3>1, NothingToDo DEF WorkOf, Relieved
  <2>3. CASE work' = [work EXCEPT ![s] = Begun(NoWork, Listed, SumOf(Listed))] /\ stage'[s] = "evict"
    <3> DEFINE w == Begun(NoWork, Listed, SumOf(Listed))
    <3>1. Listed \in Seq([id : Runs, size : Nat]) /\ Len(Listed) = Len(recent)
          /\ \A i \in 1 .. Len(recent) : Listed[i].id = recent[i]
      BY <1>1, SizesAre
    <3>2. SumOf(Listed) \in Int /\ NoWork \in Eviction
      <4>1. SumOf(Listed) \in Nat
        BY <3>1, SumOfIs
      <4> QED BY <4>1, NoWorkIs
    <3>3. /\ w.list = Listed /\ w.at = 1 /\ w.remaining = SumOf(Listed) /\ w.failed = {}
          /\ w.evicted = {}
      <4>1. /\ w.list = Listed /\ w.at = NoWork.at /\ w.remaining = SumOf(Listed)
            /\ w.failed = NoWork.failed /\ w.evicted = NoWork.evicted
        BY <3>1, <3>2, BegunIs, ZenonT(60)
      <4> QED BY <4>1, NoWorkIs
    <3>4. \A i, j \in 1 .. Len(Listed) : Listed[i].id = Listed[j].id => i = j
      BY <1>1, <3>1 DEF ListedOnce, Once
    <3>5. WorkIn(Listed, 1, SumOf(Listed), {}, {}, s)
      BY <3>1, <3>4, WorkBegins
    <3>6. work'[s] = w
      BY <1>1, <2>3
    <3> HIDE DEF w
    <3> QED BY <2>3, <3>3, <3>5, <3>6 DEF WorkOf
  <2>4. \/ work' = work /\ Goes(s, "expire")
        \/ work' = [work EXCEPT ![s] = Begun(NoWork, Listed, SumOf(Listed))] /\ Goes(s, "evict")
    BY <1>6 DEF List, Listed, Begun
  <2> QED BY <1>2, <2>2, <2>3, <2>4
<1>7. CASE EvictOk(s)
  <2> DEFINE more == work[s].evicted \union {Entry(s).id}
             less == work[s].remaining - Entry(s).size
             w == Took(work[s], work[s].at + 1, more, less)
  <2>1. stage[s] = "evict" /\ stage' = stage /\ ~Relieved(s) /\ Entry(s).id # s
    BY <1>7 DEF EvictOk
  <2>2. Entry(s) = L[work[s].at] /\ Entry(s).id \in Runs /\ Entry(s).size \in Nat
    BY <1>1, <1>3, <2>1, WorkIs DEF Entry
  <2>3. WorkIn(L, work[s].at, work[s].remaining, work[s].failed, work[s].evicted, s)
    BY <1>1, <2>1 DEF WorkOf
  <2>4. WorkIn(L, work[s].at + 1, less, work[s].failed, more, s)
    BY <1>3, <2>1, <2>2, <2>3, WorkTakes
  <2>5. more \in SUBSET Runs /\ less \in Int
    <3>1. more \in SUBSET Runs
      BY <1>3, <2>2
    <3>2. \A m \in Int, n \in Nat : m - n \in Int
      OBVIOUS
    <3> QED BY <1>3, <2>2, <3>1, <3>2
  <2> HIDE DEF more, less
  <2>6. /\ w.list = L /\ w.at = work[s].at + 1 /\ w.remaining = less /\ w.failed = work[s].failed
        /\ w.evicted = more
    BY <1>1, <1>3, <2>5, TookIs
  <2>7. work' = [work EXCEPT ![s] = w]
    BY <1>7 DEF EvictOk, Took, more, less
  <2> HIDE DEF w
  <2>8. work'[s] = w
    BY <1>1, <2>7
  <2> QED BY <2>1, <2>4, <2>6, <2>8 DEF WorkOf
<1>8. CASE EvictFails(s)
  <2> DEFINE more == work[s].failed \union {Entry(s).id}
             w == Stuck(work[s], work[s].at + 1, more)
  <2>1. stage[s] = "evict" /\ stage' = stage /\ ~Relieved(s)
    BY <1>8 DEF EvictFails
  <2>2. Entry(s) = L[work[s].at] /\ Entry(s).id \in Runs
    BY <1>1, <1>3, <2>1, WorkIs DEF Entry
  <2>3. WorkIn(L, work[s].at, work[s].remaining, work[s].failed, work[s].evicted, s)
    BY <1>1, <2>1 DEF WorkOf
  <2>4. WorkIn(L, work[s].at + 1, work[s].remaining, more, work[s].evicted, s)
    <3>1. work[s].failed \subseteq more /\ L[work[s].at].id \in more \union {s}
      BY <2>2
    <3> HIDE DEF more, L
    <3> QED BY <1>3, <2>1, <2>3, <3>1, WorkPasses
  <2>5. more \in SUBSET Runs
    BY <1>3, <2>2
  <2>6. work'[s] = w
    BY <1>1, <1>8 DEF EvictFails, Stuck
  <2> HIDE DEF more
  <2>7. /\ w.list = L /\ w.at = work[s].at + 1 /\ w.remaining = work[s].remaining /\ w.failed = more
        /\ w.evicted = work[s].evicted
    BY <1>1, <1>3, <2>5, StuckFields
  <2> HIDE DEF w
  <2> QED BY <2>1, <2>4, <2>6, <2>7 DEF WorkOf
<1>9. CASE SkipOwn(s)
  <2> DEFINE w == Passed(work[s], work[s].at + 1)
  <2>1. stage[s] = "evict" /\ stage' = stage /\ ~Relieved(s) /\ Entry(s).id = s
    BY <1>9 DEF SkipOwn
  <2>2. L[work[s].at].id = s
    BY <2>1 DEF Entry
  <2>3. WorkIn(L, work[s].at, work[s].remaining, work[s].failed, work[s].evicted, s)
    BY <1>1, <2>1 DEF WorkOf
  <2>4. WorkIn(L, work[s].at + 1, work[s].remaining, work[s].failed, work[s].evicted, s)
    <3>1. L[work[s].at].id \in work[s].failed \union {s} /\ work[s].failed \subseteq work[s].failed
      BY <2>2
    <3> HIDE DEF L
    <3> QED BY <1>3, <2>1, <2>3, <3>1, WorkPasses
  <2>5. /\ w.list = L /\ w.at = work[s].at + 1 /\ w.remaining = work[s].remaining
        /\ w.failed = work[s].failed /\ w.evicted = work[s].evicted
    BY <1>1, <1>3, PassedIs
  <2>6. work' = [work EXCEPT ![s] = w]
    BY <1>9 DEF SkipOwn, Passed
  <2> HIDE DEF w
  <2>7. work'[s] = w
    BY <1>1, <2>6
  <2> QED BY <2>1, <2>4, <2>5, <2>7 DEF WorkOf
<1>10. CASE EvictEnds(s)
  <2>1. stage[s] = "evict" /\ stage'[s] = "expire" /\ work' = work /\ Relieved(s)
    BY <1>2, <1>10 DEF EvictEnds
  <2>2. Relieved(s)'
    BY <2>1 DEF Relieved
  <2> QED BY <1>1, <2>1, <2>2 DEF WorkOf
<1>11. CASE ListFails(s)
  <2>1. work'[s] = NoWork /\ stage'[s] \in {"expire", "idle"}
    BY <1>1, <1>2, <1>11 DEF ListFails
  <2>2. Relieved(s)'
    BY <2>1, NothingToDo DEF Relieved
  <2> QED BY <2>1, <2>2, NoWorkIs, NothingToDo DEF WorkOf
<1>12. CASE Expire(s)
  <2>1. PICK newest \in 0 .. Len(recent) :
          work' = [work EXCEPT ![s] = Aged(NoWork, {recent[i] : i \in 1 .. newest} \ {s})]
    BY <1>12 DEF Expire, Aged
  <2> DEFINE old == {recent[i] : i \in 1 .. newest} \ {s}
  <2>2. old \in SUBSET Runs
    <3>1. recent \in Seq(Runs) /\ Len(recent) \in Nat
      BY <1>1 DEF ArchiveTypeOK
    <3> QED BY <3>1
  <2>3. work' = [work EXCEPT ![s] = Aged(NoWork, old)]
    BY <2>1
  <2> HIDE DEF old
  <2>4. work'[s] = Aged(NoWork, old) /\ stage'[s] = "purge"
    BY <1>1, <1>2, <1>12, <2>3 DEF Expire
  <2>5. 0 \in 0 .. MaxRuns /\ NoWork \in Eviction
    BY NoWorkIs, ArchiveConstants
  <2>6. work'[s].list = <<>> /\ work'[s].evicted = {}
    <3>1. Aged(NoWork, old).list = NoWork.list /\ Aged(NoWork, old).evicted = NoWork.evicted
      BY <2>2, <2>5, PurgeFields
    <3> QED BY <2>4, <3>1, NoWorkIs
  <2> QED BY <2>4, <2>6 DEF WorkOf
<1>13. CASE PurgeNext(s)
  <2>1. PICK t \in work[s].old : work' = [work EXCEPT ![s] = Aimed(work[s], work[s].old \ {t}, t)]
    BY <1>13 DEF PurgeNext, Aimed
  <2> DEFINE old == work[s].old \ {t}
             w == work[s]
  <2>2. old \in SUBSET Runs /\ t \in 0 .. MaxRuns /\ w \in Eviction
    BY <1>1, <2>1, WorkIs, RunsFrom0
  <2>3. work'[s] = Aimed(w, old, t)
    BY <1>1, <2>1
  <2>4. stage[s] = "purge" /\ stage'[s] = "remove"
    BY <1>2, <1>13 DEF PurgeNext
  <2>5. w.list = <<>> /\ w.evicted = {}
    BY <1>1, <2>4 DEF WorkOf
  <2> HIDE DEF old, w
  <2>6. work'[s].list = <<>> /\ work'[s].evicted = {}
    <3>1. Aimed(w, old, t).list = w.list /\ Aimed(w, old, t).evicted = w.evicted
      BY <2>2, PurgeFields
    <3> QED BY <2>3, <2>5, <3>1
  <2> QED BY <2>4, <2>6 DEF WorkOf
<1>14. CASE PurgeOk(s) \/ PurgeFails(s)
  <2> DEFINE w == work[s]
  <2>1. stage[s] = "remove" /\ stage'[s] = "purge" /\ work' = [work EXCEPT ![s] = Freed(w)]
    BY <1>2, <1>14 DEF PurgeOk, PurgeFails, Freed
  <2>2. work'[s] = Freed(w) /\ w \in Eviction
    BY <1>1, <2>1
  <2>3. w.list = <<>> /\ w.evicted = {}
    BY <1>1, <2>1 DEF WorkOf
  <2>4. {} \in SUBSET Runs /\ 0 \in 0 .. MaxRuns
    BY ArchiveConstants
  <2> HIDE DEF w
  <2>5. work'[s].list = <<>> /\ work'[s].evicted = {}
    <3>1. Freed(w).list = w.list /\ Freed(w).evicted = w.evicted
      BY <2>2, <2>4, PurgeFields
    <3> QED BY <2>2, <2>3, <3>1
  <2> QED BY <2>1, <2>5 DEF WorkOf
<1>15. CASE PurgeEnds(s)
  <2>1. work'[s] = NoWork /\ stage'[s] = "idle"
    BY <1>1, <1>2, <1>15 DEF PurgeEnds
  <2> QED BY <2>1, NoWorkIs DEF WorkOf
<1>16. CASE RemoveOne(s)
  <2>1. work' = work /\ stage' = stage
    BY <1>16 DEF RemoveOne
  <2> QED BY <1>1, <2>1 DEF WorkOf, Relieved
<1> QED BY <1>4, <1>5, <1>6, <1>7, <1>8, <1>9, <1>10, <1>11, <1>12, <1>13, <1>14, <1>15, <1>16
        DEF Steps

LEMMA RoomInvInit == ArchiveInit => RoomInv
<1> SUFFICES ASSUME ArchiveInit PROVE RoomInv
  OBVIOUS
<1>1. ListedOnce
  BY EmptyIs DEF ArchiveInit, ListedOnce, Once
<1>2. ASSUME NEW s \in Runs PROVE WorkOf(s)
  BY NoWorkIs DEF ArchiveInit, WorkOf
<1> QED BY <1>1, <1>2, AInvInit DEF RoomInv

LEMMA RoomInvStep == RoomInv /\ [ArchiveNext]_archiveVars => RoomInv'
<1> SUFFICES ASSUME RoomInv, [ArchiveNext]_archiveVars PROVE RoomInv'
  OBVIOUS
<1>1. AInv'
  BY AInvStep DEF RoomInv
<1>2. CASE UNCHANGED archiveVars
  <2>1. ASSUME NEW s \in Runs PROVE WorkOf(s)'
    BY <1>2 DEF RoomInv, archiveVars, WorkOf, Relieved
  <2>2. ListedOnce'
    BY <1>2 DEF RoomInv, archiveVars, diskVars, ListedOnce
  <2> QED BY <1>1, <2>1, <2>2 DEF RoomInv
<1>3. ASSUME NEW s \in Runs, Steps(s) PROVE RoomInv'
  <2>1. ASSUME NEW t \in Runs PROVE WorkOf(t)'
    <3>1. CASE t = s
      BY <1>3, <3>1, OwnWork
    <3>2. CASE t # s
      <4>1. Untouched(t)
        BY <1>3, <3>2, Elsewhere DEF RoomInv
      <4>2. work'[t] = work[t] /\ stage'[t] = stage[t]
        BY <4>1 DEF Untouched
      <4> QED BY <4>2 DEF RoomInv, WorkOf, Relieved
    <3> QED BY <3>1, <3>2
  <2>2. ListedOnce'
    BY <1>3, ListedOnceStep DEF RoomInv
  <2> QED BY <1>1, <2>1, <2>2 DEF RoomInv
<1> QED BY <1>2, <1>3 DEF ArchiveNext

\* What OldestMakeRoom says of the work of one run.
RoomAt(list, failed, evicted, place, s) ==
  LET places == 1 .. Len(list)
      removed == {i \in places : list[i].id \in evicted}
      left == SumSeq([i \in places |-> IF i \in removed THEN 0 ELSE list[i].size])
  IN  /\ evicted = {list[i].id : i \in removed} /\ s \notin evicted
      /\ \A last \in removed : (\A i \in removed : i <= last) =>
           /\ \A i \in 1 .. last : list[i].id \in evicted \union failed \union {s}
           /\ left + list[last].size > TotalCap
      /\ place = "expire" /\ left > TotalCap =>
           \A i \in places \ removed : list[i].id \in failed \union {s}

LEMMA WorkMakesRoom ==
  ASSUME NEW list \in Seq([id : Runs, size : Nat]), NEW at \in Nat, NEW remaining \in Int,
         NEW failed, NEW evicted, NEW place, NEW s, WorkIn(list, at, remaining, failed, evicted, s),
         place = "expire" => at > Len(list) \/ remaining <= TotalCap
  PROVE  RoomAt(list, failed, evicted, place, s)
<1> DEFINE places == 1 .. Len(list)
           removed == {i \in places : list[i].id \in evicted}
           left == SumSeq([i \in places |-> IF i \in removed THEN 0 ELSE list[i].size])
<1>1. Len(list) \in Nat /\ TotalCap \in Nat
  BY SeqIs, ArchiveConstants
<1>2. left = remaining
  <2>1. [i \in places |-> IF i \in removed THEN 0 ELSE list[i].size]
          = [i \in places |-> IF list[i].id \in evicted THEN 0 ELSE list[i].size]
    OBVIOUS
  <2> QED BY <2>1 DEF WorkIn, Rest
<1> HIDE DEF left
<1>3. evicted = {list[i].id : i \in removed} /\ s \notin evicted
  BY DEF WorkIn
<1>4. \A i \in removed : i < at
  BY SMTT(60) DEF WorkIn
<1>5. ASSUME NEW last \in removed, \A i \in removed : i <= last
      PROVE  /\ \A i \in 1 .. last : list[i].id \in evicted \union failed \union {s}
             /\ left + list[last].size > TotalCap
  <2>1. last \in places /\ last < at /\ list[last].id \in evicted
    BY <1>4
  <2>2. \A i \in 1 .. last : i \in places /\ i < at
    BY <1>1, <2>1
  <2>3. \A i \in 1 .. last : list[i].id \in evicted \union failed \union {s}
    BY <2>2 DEF WorkIn
  <2>4. \A j \in places : list[j].id \in evicted => j <= last
    BY <1>5
  <2>5. left + list[last].size > TotalCap
    BY <1>2, <2>1, <2>4 DEF WorkIn
  <2> QED BY <2>3, <2>5
<1>6. ASSUME place = "expire", left > TotalCap, NEW i \in places \ removed
      PROVE  list[i].id \in failed \union {s}
  <2>1. i < at
    BY <1>1, <1>2, <1>6
  <2> QED BY <2>1 DEF WorkIn
<1> QED BY <1>3, <1>5, <1>6 DEF RoomAt, left

LEMMA MakesRoom == RoomInv => OldestMakeRoom
<1> SUFFICES ASSUME RoomInv, NEW s \in Runs
             PROVE  RoomAt(work[s].list, work[s].failed, work[s].evicted, stage[s], s)
  BY DEF OldestMakeRoom, RoomAt
<1> DEFINE w == work[s]
<1>1. /\ ArchiveTypeOK /\ WorkOf(s)
  BY DEF RoomInv, AInv
<1>2. w.list \in Seq([id : Runs, size : Nat]) /\ w.at \in Nat /\ w.remaining \in Int
  BY <1>1, WorkIs
<1>3. CASE stage[s] \in {"evict", "expire"}
  <2>1. WorkIn(w.list, w.at, w.remaining, w.failed, w.evicted, s)
    BY <1>1, <1>3 DEF WorkOf
  <2>2. stage[s] = "expire" => w.at > Len(w.list) \/ w.remaining <= TotalCap
    BY <1>1 DEF WorkOf, Relieved
  <2> HIDE DEF w
  <2>3. RoomAt(w.list, w.failed, w.evicted, stage[s], s)
    BY <1>2, <2>1, <2>2, WorkMakesRoom
  <2> QED BY <2>3 DEF w
<1>4. CASE stage[s] \notin {"evict", "expire"}
  <2>1. w.list = <<>> /\ w.evicted = {}
    BY <1>1, <1>4 DEF WorkOf
  <2> HIDE DEF w
  <2>2. RoomAt(<<>>, w.failed, {}, stage[s], s)
    BY <1>4, EmptyIs DEF RoomAt
  <2> QED BY <2>1, <2>2 DEF w
<1> QED BY <1>3, <1>4

LEMMA Rooms == ArchiveSpec => []RoomInv
  BY RoomInvInit, RoomInvStep, PTL DEF ArchiveSpec

\* Retention removes the oldest sessions first and no more than the cap asks for, whatever
\* cannot be removed and whatever other runs remove at the same time.
THEOREM OldestGoFirst == ArchiveSpec => []OldestMakeRoom
  BY Rooms, MakesRoom, PTL
=============================================================================
