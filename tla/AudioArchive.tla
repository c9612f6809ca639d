---------------------------- MODULE AudioArchive ----------------------------
(***************************************************************************)
(* The raw audio kept on disk (src/src/audio/archive.rs) and how old       *)
(* sessions make room for new ones (src/src/storage/mod.rs and             *)
(* src/src/runtime_recording.rs).                                          *)
(*                                                                         *)
(* A session is one run of the program and has a directory of numbered WAV *)
(* files.  A chunk is written in steps: the next file if this one would    *)
(* pass its quota, the samples, and the two sizes in the header; the       *)
(* program can be killed and the disk can fail between any two of them,    *)
(* and what is on disk then stays.  At its start a run removes old         *)
(* directories: their files one by one, in no known order, and a removal   *)
(* can fail or be killed after any of them.  Two runs can overlap: each    *)
(* knows its own session only, so one can remove the files that another is *)
(* writing.                                                                *)
(*                                                                         *)
(* Sizes are in units; a sample is indivisible, so a write that fails      *)
(* half-way marks its file as torn and adds nothing.                       *)
(*                                                                         *)
(* Recording_proofs extends this module and SessionRecorder, so the two    *)
(* share no name.                                                          *)
(***************************************************************************)
EXTENDS Integers, Sequences, FiniteSets, SequencesExt

CONSTANTS WavHeader,    \* WAV_HEADER_SIZE
          MaxSize,      \* max_size_bytes of a file, 0 for none
          TotalCap,     \* total_bytes_cap, 0 for none
          Lengths,      \* the sizes of the chunks of a run, in their order
          MaxRuns,      \* BOUND: runs of the program
          MaxRunning    \* BOUND: runs at a time

ASSUME AudioArchiveAssumption ==
  /\ WavHeader \in Nat \ {0} /\ MaxSize \in Nat /\ TotalCap \in Nat
  /\ Lengths \in Seq(Nat \ {0})
  /\ MaxRuns \in Nat /\ MaxRunning \in Nat

Runs == 1 .. MaxRuns

VARIABLES
  there,      \* the sessions whose directory exists
  files,      \* the files of each
  named,      \* the file that a run has open is the last of these, and was not removed
  recent,     \* the directories in the order of their last modification
  stage,      \* per session: where its run is
  data_bytes, \* what the run has written to its file
  segment,    \* next_segment_index - 1: the number of that file
  hand,       \* the chunk at work
  count,      \* chunks taken so far
  work,       \* per session: its run's removal of old sessions
  cut         \* HISTORY: the sessions from which a removal has taken a file

diskVars == <<there, files, named, recent, cut>>
runVars == <<data_bytes, segment, hand, count>>
archiveVars == <<diskVars, stage, runVars, work>>

NoWork == [list |-> <<>>, at |-> 1, remaining |-> 0, failed |-> {}, evicted |-> {},
           old |-> {}, target |-> 0]
NoChunk == [n |-> 0, len |-> 0]

ArchiveInit ==
  /\ there = {} /\ files = [s \in Runs |-> <<>>] /\ named = [s \in Runs |-> FALSE]
  /\ recent = <<>> /\ cut = {}
  /\ stage = [s \in Runs |-> "off"]
  /\ data_bytes = [s \in Runs |-> 0] /\ segment = [s \in Runs |-> 0]
  /\ hand = [s \in Runs |-> NoChunk] /\ count = [s \in Runs |-> 0]
  /\ work = [s \in Runs |-> NoWork]

-----------------------------------------------------------------------------
(* The disk.                                                               *)

\* A file that is open; its header is not there yet.
NewFile == [header |-> FALSE, riff |-> 0, size |-> 0, data |-> <<>>, torn |-> FALSE]

\* The sum of a sequence of numbers.
SumSeq(numbers) ==
  LET sum[i \in 0 .. Len(numbers)] == IF i = 0 THEN 0 ELSE sum[i - 1] + numbers[i]
  IN  sum[Len(numbers)]

Total(chunks) == SumSeq([i \in 1 .. Len(chunks) |-> chunks[i].len])
FileSize(file) == Total(file.data) + (IF file.header THEN WavHeader ELSE 0)
\* walk_dir_stats.
DirSize(s) == SumSeq([i \in 1 .. Len(files[s]) |-> FileSize(files[s][i])])

\* Some directories without others, in their order.
Without(list, gone) ==
  LET kept[i \in 0 .. Len(list)] ==
        IF i = 0 THEN <<>>
        ELSE IF list[i] \in gone THEN kept[i - 1] ELSE Append(kept[i - 1], list[i])
  IN  kept[Len(list)]

\* Session s changes the file it has open.  If another run has removed that file, it has
\* no name any more and nobody will see the change.
Change(s, file) ==
  /\ UNCHANGED <<there, named, cut>>
  /\ IF named[s]
     THEN /\ files' = [files EXCEPT ![s] = Append(Front(@), file)]
          /\ recent' = Append(Without(recent, {s}), s)
     ELSE UNCHANGED <<files, recent>>

\* The file it has open, if that has its name still.
Current(s) == IF files[s] = <<>> THEN NewFile ELSE Last(files[s])

\* A file of t is removed.  The directory is as old as the youngest file left, or as this
\* removal when none is left.
RemoveFile(t, i) ==
  LET others == Without(recent, {t})
      last == i = Len(files[t])
  IN  /\ files' = [files EXCEPT ![t] = RemoveAt(@, i)]
      /\ named' = [named EXCEPT ![t] = @ /\ ~last]
      /\ IF ~last THEN recent' = recent
         ELSE \E place \in 1 .. Len(others) + 1 :
                /\ IF Len(files[t]) = 1 THEN place = Len(others) + 1
                   ELSE \E was \in place .. Len(recent) : recent[was] = t
                /\ recent' = InsertAt(others, place, t)
      /\ cut' = cut \union {t}
      /\ UNCHANGED there

\* The directory of t is removed; it must be empty.
RemoveDir(t) ==
  /\ t \in there /\ files[t] = <<>>
  /\ there' = there \ {t} /\ recent' = Without(recent, {t})
  /\ UNCHANGED <<files, named, cut>>

-----------------------------------------------------------------------------
(* The writer.                                                             *)

Goes(s, to) == stage' = [stage EXCEPT ![s] = to]

\* AudioArchiveWriter::start: the directory.
Start(s) ==
  /\ stage[s] = "off" /\ \A t \in Runs : t < s => stage[t] # "off"
  /\ Cardinality({t \in Runs : stage[t] \notin {"off", "done"}}) < MaxRunning
  /\ there' = there \union {s} /\ recent' = Append(recent, s)
  /\ Goes(s, "create")
  /\ UNCHANGED <<files, named, cut, runVars, work>>

\* The next file, the first one of all included.
Create(s) ==
  /\ stage[s] = "create" /\ s \in there
  /\ files' = [files EXCEPT ![s] = Append(@, NewFile)]
  /\ named' = [named EXCEPT ![s] = TRUE]
  /\ recent' = Append(Without(recent, {s}), s)
  /\ Goes(s, "header")
  /\ UNCHANGED <<there, cut, runVars, work>>

\* MUTANT of WriteHeader: the bytes of the file before are not forgotten.
WriteHeaderOnly(s) ==
  /\ stage[s] = "header"
  /\ Change(s, [Current(s) EXCEPT !.header = TRUE])
  /\ segment' = [segment EXCEPT ![s] = @ + 1]
  /\ Goes(s, IF segment[s] = 0 THEN "list" ELSE "samples")
  /\ UNCHANGED <<data_bytes, hand, count, work>>

\* write_wav_header.  Then the run goes on: with the retention at the start, with the
\* chunk that did not fit in the file before.
WriteHeader(s) ==
  /\ stage[s] = "header"
  /\ Change(s, [Current(s) EXCEPT !.header = TRUE])
  /\ data_bytes' = [data_bytes EXCEPT ![s] = 0]
  /\ segment' = [segment EXCEPT ![s] = @ + 1]
  /\ Goes(s, IF segment[s] = 0 THEN "list" ELSE "samples")
  /\ UNCHANGED <<hand, count, work>>

Fits(s, len) == MaxSize = 0 \/ WavHeader + data_bytes[s] + len <= MaxSize

\* append_chunk.
Take(s) ==
  /\ stage[s] = "idle" /\ count[s] < Len(Lengths)
  /\ count' = [count EXCEPT ![s] = @ + 1]
  /\ hand' = [hand EXCEPT ![s] = [n |-> count'[s], len |-> Lengths[count'[s]]]]
  /\ Goes(s, IF Fits(s, hand'[s].len) THEN "samples" ELSE "create")
  /\ UNCHANGED <<diskVars, data_bytes, segment, work>>

Samples(s) ==
  /\ stage[s] = "samples"
  /\ Change(s, [Current(s) EXCEPT !.data = Append(@, hand[s])])
  /\ data_bytes' = [data_bytes EXCEPT ![s] = @ + hand[s].len]
  /\ Goes(s, "riff")
  /\ UNCHANGED <<segment, hand, count, work>>

\* patch_wav_header: the size of the file, then that of the samples.
PatchRiff(s) ==
  /\ stage[s] = "riff"
  /\ Change(s, [Current(s) EXCEPT !.riff = data_bytes[s]])
  /\ Goes(s, "size")
  /\ UNCHANGED <<runVars, work>>

PatchSize(s) ==
  /\ stage[s] = "size"
  /\ Change(s, [Current(s) EXCEPT !.size = data_bytes[s]])
  /\ Goes(s, "idle")
  /\ UNCHANGED <<runVars, work>>

\* MUTANT of Fail: the archive goes on after a failure.
FailAndGoOn(s) ==
  /\ stage[s] \in {"create", "header", "samples", "riff", "size"}
  /\ IF stage[s] = "samples" THEN Change(s, [Current(s) EXCEPT !.torn = TRUE])
                          ELSE UNCHANGED diskVars
  /\ Goes(s, IF segment[s] = 0 THEN "done" ELSE "idle")
  /\ UNCHANGED <<runVars, work>>

\* The writer of s is no more: only what is on disk is left of it.
Gone(s) ==
  /\ Goes(s, "done")
  /\ data_bytes' = [data_bytes EXCEPT ![s] = 0] /\ segment' = [segment EXCEPT ![s] = 0]
  /\ hand' = [hand EXCEPT ![s] = NoChunk] /\ count' = [count EXCEPT ![s] = 0]
  /\ work' = [work EXCEPT ![s] = NoWork]

\* A write, a seek or the creation of a file fails: the writer is disabled for good
\* (forward_chunk, or start_audio_archive at the start).
Fail(s) ==
  /\ stage[s] \in {"create", "header", "samples", "riff", "size"}
  /\ IF stage[s] = "samples" THEN Change(s, [Current(s) EXCEPT !.torn = TRUE])
                          ELSE UNCHANGED diskVars
  /\ Gone(s)

\* The run ends, or is killed.
Exit(s) ==
  /\ stage[s] \notin {"off", "done"}
  /\ Gone(s)
  /\ UNCHANGED diskVars

-----------------------------------------------------------------------------
(* Retention, at the start of a run: apply_storage_retention.              *)

SumOf(list) == SumSeq([i \in 1 .. Len(list) |-> list[i].size])

\* The directories cannot be listed: it is logged.
ListFails(s) ==
  /\ stage[s] \in {"list", "expire"}
  /\ Goes(s, IF stage[s] = "list" THEN "expire" ELSE "idle")
  /\ work' = [work EXCEPT ![s] = NoWork]
  /\ UNCHANGED <<diskVars, runVars>>

\* enforce_total_session_cap lists the directories, oldest first.
List(s) ==
  LET list == [i \in 1 .. Len(recent) |-> [id |-> recent[i], size |-> DirSize(recent[i])]]
  IN  /\ stage[s] = "list"
      /\ IF TotalCap > 0 /\ SumOf(list) > TotalCap
         THEN /\ work' = [work EXCEPT ![s] = [NoWork EXCEPT !.list = list,
                                                            !.remaining = SumOf(list)]]
              /\ Goes(s, "evict")
         ELSE work' = work /\ Goes(s, "expire")
      /\ UNCHANGED <<diskVars, runVars>>

Entry(s) == work[s].list[work[s].at]
\* The loop is through: it has come to the end of the list, or below the cap.
Relieved(s) == work[s].at > Len(work[s].list) \/ work[s].remaining <= TotalCap

\* MUTANT of EvictOk: the loop counts on from the total it began with.
EvictUncounted(s) ==
  /\ stage[s] = "evict" /\ ~Relieved(s) /\ Entry(s).id # s
  /\ RemoveDir(Entry(s).id)
  /\ work' = [work EXCEPT ![s].at = @ + 1, ![s].evicted = @ \union {Entry(s).id}]
  /\ UNCHANGED <<stage, runVars>>

\* remove_dir_all has come to its end.
EvictOk(s) ==
  /\ stage[s] = "evict" /\ ~Relieved(s) /\ Entry(s).id # s
  /\ RemoveDir(Entry(s).id)
  /\ work' = [work EXCEPT ![s].at = @ + 1, ![s].evicted = @ \union {Entry(s).id},
                          ![s].remaining = @ - Entry(s).size]
  /\ UNCHANGED <<stage, runVars>>

\* remove_dir_all fails, whatever it has removed so far, or the directory is no longer
\* there; the loop goes on to the next one.
EvictFails(s) ==
  /\ stage[s] = "evict" /\ ~Relieved(s) /\ Entry(s).id # s
  /\ work' = [work EXCEPT ![s].at = @ + 1, ![s].failed = @ \union {Entry(s).id}]
  /\ UNCHANGED <<diskVars, stage, runVars>>

SkipOwn(s) ==
  /\ stage[s] = "evict" /\ ~Relieved(s) /\ Entry(s).id = s
  /\ work' = [work EXCEPT ![s].at = @ + 1]
  /\ UNCHANGED <<diskVars, stage, runVars>>

EvictEnds(s) ==
  /\ stage[s] = "evict" /\ Relieved(s)
  /\ Goes(s, "expire")
  /\ UNCHANGED <<diskVars, runVars, work>>

\* purge_expired_sessions lists the directories; some of them, the oldest, are too old.
Expire(s) ==
  /\ stage[s] = "expire"
  /\ \E newest \in 0 .. Len(recent) :
       work' = [work EXCEPT ![s] =
                  [NoWork EXCEPT !.old = {recent[i] : i \in 1 .. newest} \ {s}]]
  /\ Goes(s, "purge")
  /\ UNCHANGED <<diskVars, runVars>>

\* The next one, in the order in which the system lists them.
PurgeNext(s) ==
  /\ stage[s] = "purge"
  /\ \E t \in work[s].old :
       work' = [work EXCEPT ![s].old = @ \ {t}, ![s].target = t]
  /\ Goes(s, "remove")
  /\ UNCHANGED <<diskVars, runVars>>

PurgeOk(s) ==
  /\ stage[s] = "remove"
  /\ RemoveDir(work[s].target)
  /\ Goes(s, "purge")
  /\ work' = [work EXCEPT ![s].target = 0]
  /\ UNCHANGED runVars

PurgeFails(s) ==
  /\ stage[s] = "remove"
  /\ Goes(s, "purge")
  /\ work' = [work EXCEPT ![s].target = 0]
  /\ UNCHANGED <<diskVars, runVars>>

PurgeEnds(s) ==
  /\ stage[s] = "purge" /\ work[s].old = {}
  /\ Goes(s, "idle")
  /\ work' = [work EXCEPT ![s] = NoWork]
  /\ UNCHANGED <<diskVars, runVars>>

\* What remove_dir_all is at work on.
Removing(s, t) ==
  \/ stage[s] = "evict" /\ ~Relieved(s) /\ t = Entry(s).id /\ t # s
  \/ stage[s] = "remove" /\ t = work[s].target

\* remove_dir_all removes a file, in the order in which the system lists them.
RemoveOne(s) ==
  /\ \E t \in there : Removing(s, t) /\ \E i \in 1 .. Len(files[t]) : RemoveFile(t, i)
  /\ UNCHANGED <<stage, runVars, work>>

-----------------------------------------------------------------------------
Steps(s) ==
  \/ Start(s) \/ Create(s) \/ WriteHeader(s) \/ Take(s) \/ Samples(s) \/ PatchRiff(s)
  \/ PatchSize(s) \/ Fail(s) \/ Exit(s)
  \/ List(s) \/ ListFails(s) \/ EvictOk(s) \/ EvictFails(s) \/ SkipOwn(s) \/ EvictEnds(s)
  \/ Expire(s) \/ PurgeNext(s) \/ PurgeOk(s) \/ PurgeFails(s) \/ PurgeEnds(s) \/ RemoveOne(s)

ArchiveNext == \E s \in Runs : Steps(s)

ArchiveSpec == ArchiveInit /\ [][ArchiveNext]_archiveVars

-----------------------------------------------------------------------------
(* Properties.                                                             *)

Chunk == [n : Nat, len : Nat]
WavFile == [header : BOOLEAN, riff : Nat, size : Nat, data : Seq(Chunk), torn : BOOLEAN]
Eviction == [list : Seq([id : Runs, size : Nat]), at : Nat \ {0}, remaining : Int,
             failed : SUBSET Runs, evicted : SUBSET Runs, old : SUBSET Runs,
             target : 0 .. MaxRuns]

ArchiveTypeOK ==
  /\ there \subseteq Runs /\ files \in [Runs -> Seq(WavFile)] /\ recent \in Seq(Runs)
  /\ named \in [Runs -> BOOLEAN] /\ cut \subseteq Runs
  /\ stage \in [Runs -> {"off", "create", "header", "list", "evict", "expire", "purge", "remove",
                         "idle", "samples", "riff", "size", "done"}]
  /\ data_bytes \in [Runs -> Nat] /\ segment \in [Runs -> Nat]
  /\ hand \in [Runs -> Chunk] /\ count \in [Runs -> Nat]
  /\ work \in [Runs -> Eviction]

\* Whenever the program is killed, each file is a WAV that can be read: its header never
\* promises more than there is, and it leaves out at most the last chunk of the last file.
\* Only the last file can be torn or without a header.
WavIsReadable ==
  \A s \in there : \A i \in 1 .. Len(files[s]) :
    LET file == files[s][i]
        whole == Total(file.data)
    IN  /\ file.size <= file.riff /\ file.riff <= whole
        /\ file.data # <<>> => file.size >= Total(Front(file.data))
        /\ i < Len(files[s]) => file.header /\ ~file.torn /\ file.size = whole

\* The files of a session, read one after the other, are what the run was given, chunk by
\* chunk from the first one on without a hole, up to the chunk at which it was killed or
\* gave up.  A session from which a removal has taken files, and failed or was killed before
\* it was through, has holes between its files; but the chunks are in their order still, none
\* twice, and each file is without a hole.
ArchiveHasNoHole ==
  \A s \in there :
    LET datas == [i \in 1 .. Len(files[s]) |-> files[s][i].data]
        chunks == FlattenSeq(datas)
    IN  /\ s \notin cut => /\ \A i \in 1 .. Len(chunks) : chunks[i].n = i
                           /\ stage[s] = "idle" => Len(chunks) = count[s]
        /\ \A i, j \in 1 .. Len(chunks) : i < j => chunks[i].n < chunks[j].n
        /\ \A i \in 1 .. Len(datas) : \A j \in 1 .. Len(datas[i]) - 1 :
             datas[i][j + 1].n = datas[i][j].n + 1

\* Retention removes the oldest sessions first, its own never, no more than the cap asks
\* for, and as many as the cap asks for; except that one that cannot be removed is passed
\* over, and counts.
OldestMakeRoom ==
  \A s \in Runs :
    LET w == work[s]
        places == 1 .. Len(w.list)
        removed == {i \in places : w.list[i].id \in w.evicted}
        left == SumSeq([i \in places |-> IF i \in removed THEN 0 ELSE w.list[i].size])
    IN  /\ w.evicted = {w.list[i].id : i \in removed} /\ s \notin w.evicted
        /\ \A last \in removed : (\A i \in removed : i <= last) =>
             /\ \A i \in 1 .. last : w.list[i].id \in w.evicted \union w.failed \union {s}
             /\ left + w.list[last].size > TotalCap
        /\ stage[s] = "expire" /\ left > TotalCap =>
             \A i \in places \ removed : w.list[i].id \in w.failed \union {s}
=============================================================================
