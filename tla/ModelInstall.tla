---------------------------- MODULE ModelInstall ----------------------------
(***************************************************************************)
(* The installation of a bundle of model files                             *)
(* (src/providers/local/model_download.rs, model_download_transfer.rs) by  *)
(* the start of the program (src/local_model_startup.rs) and by the        *)
(* command line (src/local_model_cli.rs).  Each is a process of its own;   *)
(* they share a directory and nothing else.  A process can be killed, the  *)
(* network and the disk can fail at every step, and the server may answer  *)
(* anything.                                                               *)
(*                                                                         *)
(* The content of a file is a sequence of blocks.  Block j of what the     *)
(* manifest names is the number j; 0 is a block of anything else.          *)
(***************************************************************************)
EXTENDS Integers, Sequences

CONSTANTS Starts,      \* starts of the program: install what is missing
          Commands,    \* installations asked for on the command line
          Bundle,      \* the files of the manifest, in its order
          Looked,      \* the files whose presence the start looks at
          Size,        \* Size[f]: the size the manifest gives
          Length,      \* Length[f]: the size of the file the manifest names
          None

Installers == Starts \cup Commands
Files == {Bundle[k] : k \in 1 .. Len(Bundle)}

ASSUME BundleAssumption ==
    /\ Bundle \in Seq(Files)
    /\ Len(Bundle) > 0
    /\ Looked \subseteq Files
    /\ Size \in [Files -> Nat]
    /\ Length \in [Files -> Nat \ {0}]
ASSUME NoneAssumption == None \notin Seq(Nat)

VARIABLES
    target,    \* target[f]: the installed file, or None
    part,      \* part[f]: the partial file, or None
    dir,       \* the directory of the bundle exists
    pc,        \* what an installer does next
    k,         \* the file it is at
    resume,    \* the length of the partial file when it asked
    body,      \* what is left of the answer it receives
    out,       \* its open file: where it lies now and where it writes
    last,      \* how its last run ended
    shared,    \* another process was active during this run
    honest,    \* the server answered this run as it should, and nothing failed
    tries      \* runs on end that failed although alone and with honest answers

disk == <<target, part, dir>>
run == <<pc, k, resume, body, out>>
judged == <<last, shared, honest, tries>>
vars == <<disk, run, judged>>

Stages == {"idle", "check", "request", "open", "write", "verify", "rename",
           "badTarget", "badPart", "manifest"}
NoFile == [at |-> "none", pos |-> 1]
AppendPos == 0           \* opened for appending: every write goes to the end
File(i) == Bundle[k[i]]
Named(f) == [j \in 1 .. Length[f] |-> j]
Right(f, content) == content = Named(f)
Active == {i \in Installers : pc[i] # "idle"}

\* What a write of one block at a position, or at the end, makes of a file;
\* a gap is filled with zeros.
Written(content, pos, block) ==
    IF pos = AppendPos THEN Append(content, block)
    ELSE [j \in 1 .. (IF pos > Len(content) THEN pos ELSE Len(content)) |->
              IF j = pos THEN block ELSE IF j <= Len(content) THEN content[j] ELSE 0]

\* An open file follows the renaming of its name: its owner goes on writing to
\* what is now the target, or to what is now in quarantine ("none").
Moved(f, from, to) ==
    [i \in Installers |->
        IF pc[i] = "write" /\ File(i) = f /\ out[i].at = from THEN [out[i] EXCEPT !.at = to]
        ELSE IF pc[i] = "write" /\ File(i) = f /\ out[i].at = to THEN [out[i] EXCEPT !.at = "none"]
        ELSE out[i]]

TypeOK ==
    /\ target \in [Files -> Seq(Nat) \cup {None}]
    /\ part \in [Files -> Seq(Nat) \cup {None}]
    /\ dir \in BOOLEAN
    /\ pc \in [Installers -> Stages]
    /\ k \in [Installers -> 1 .. Len(Bundle)]
    /\ resume \in [Installers -> Nat]
    /\ body \in [Installers -> Seq(Nat)]
    /\ out \in [Installers -> [at : {"none", "part", "target"}, pos : Nat]]
    /\ last \in [Installers -> {"none", "ok", "err", "nothing"}]
    /\ shared \in [Installers -> BOOLEAN]
    /\ honest \in [Installers -> BOOLEAN]
    /\ tries \in Nat

Init ==
    /\ target = [f \in Files |-> None]
    /\ part = [f \in Files |-> None]
    /\ dir = FALSE
    /\ pc = [i \in Installers |-> "idle"]
    /\ k = [i \in Installers |-> 1]
    /\ resume = [i \in Installers |-> 0]
    /\ body = [i \in Installers |-> <<>>]
    /\ out = [i \in Installers |-> NoFile]
    /\ last = [i \in Installers |-> "none"]
    /\ shared = [i \in Installers |-> FALSE]
    /\ honest = [i \in Installers |-> TRUE]
    /\ tries = 0

-----------------------------------------------------------------------------
(* The end of a run.  What the process had in memory is forgotten.         *)

Over(i, how) ==
    /\ pc' = [pc EXCEPT ![i] = "idle"]
    /\ k' = [k EXCEPT ![i] = 1]
    /\ resume' = [resume EXCEPT ![i] = 0]
    /\ body' = [body EXCEPT ![i] = <<>>]
    /\ last' = [last EXCEPT ![i] = how]

\* The code returns an error.
Refuse(i) ==
    /\ Over(i, "err")
    /\ out' = [out EXCEPT ![i] = NoFile]
    /\ tries' = IF honest[i] /\ ~shared[i] THEN tries + 1 ELSE 0
    /\ UNCHANGED <<disk, shared, honest>>

\* The process is killed, or the network or the disk fails it: at any step, and
\* what is on the disk stays there.
Abort(i) ==
    /\ pc[i] # "idle"
    /\ Over(i, "err")
    /\ out' = [out EXCEPT ![i] = NoFile]
    /\ honest' = [honest EXCEPT ![i] = FALSE]
    /\ tries' = 0
    /\ UNCHANGED <<disk, shared>>

Goto(i, stage) == pc' = [pc EXCEPT ![i] = stage]

-----------------------------------------------------------------------------
(* One run.                                                                *)

\* Nothing to do where the start of the program finds all it looks at.
NothingMissing(i) ==
    /\ pc[i] = "idle" /\ i \in Starts
    /\ \A f \in Looked : target[f] # None
    /\ last' = [last EXCEPT ![i] = "nothing"]
    /\ UNCHANGED <<disk, run, shared, honest, tries>>

Begin(i) ==
    /\ pc[i] = "idle"
    /\ i \in Starts => \E f \in Looked : target[f] = None
    /\ Goto(i, "check")
    /\ dir' = TRUE
    /\ last' = [last EXCEPT ![i] = "none"]
    /\ shared' = [j \in Installers |-> IF j = i THEN Active # {} ELSE shared[j] \/ j \in Active]
    /\ honest' = [honest EXCEPT ![i] = TRUE]
    /\ UNCHANGED <<target, part, k, resume, body, out, tries>>

\* On to the next file, or to the manifest after the last one.
NextFile(i) ==
    IF k[i] = Len(Bundle) THEN Goto(i, "manifest") /\ UNCHANGED k
    ELSE Goto(i, "check") /\ k' = [k EXCEPT ![i] = @ + 1]

\* A target that is there is hashed.
Reuse(i) ==
    /\ pc[i] = "check" /\ target[File(i)] # None
    /\ Right(File(i), target[File(i)])
    /\ NextFile(i)
    /\ UNCHANGED <<disk, resume, body, out, judged>>

Distrust(i) ==
    /\ pc[i] = "check" /\ target[File(i)] # None
    /\ ~Right(File(i), target[File(i)])
    /\ Goto(i, "badTarget")
    /\ UNCHANGED <<disk, k, resume, body, out, judged>>

\* What is there of the partial file decides what is asked for.
Ask(i) ==
    /\ pc[i] = "check" /\ target[File(i)] = None
    /\ dir' = TRUE
    /\ LET there == IF part[File(i)] = None THEN 0 ELSE Len(part[File(i)])
       IN resume' = [resume EXCEPT ![i] = IF there >= Size[File(i)] THEN 0 ELSE there]
    /\ Goto(i, "request")
    /\ UNCHANGED <<target, part, k, body, out, judged>>

\* The answers of a server: the rest of the file or the whole of it, with the
\* length announced or not; or anything else.
Rest(f, from) == [j \in 1 .. Length[f] - from |-> from + j]
HonestAnswers(f, from) ==
    IF from > 0 /\ from <= Length[f]
    THEN [status : {206}, from : {from}, body : {Rest(f, from)}, announced : BOOLEAN]
    ELSE [status : {200}, from : {0}, body : {Rest(f, 0)}, announced : BOOLEAN]
OtherAnswers(f, from) ==
    [status : {200, 206, 404}, from : {0, from}, announced : BOOLEAN,
     body : {<<>>, <<0>>, Rest(f, 0), Append(Rest(f, from), 0)}]

\* The answer arrives and is judged before the file is opened.
Acceptable(i, a) ==
    /\ \/ resume[i] > 0 /\ a.status = 206 /\ a.from = resume[i]
       \/ a.status = 200
    /\ LET from == IF a.status = 200 THEN 0 ELSE resume[i]
           rest == IF Size[File(i)] >= from THEN Size[File(i)] - from ELSE 0
       IN a.announced => Len(a.body) <= rest

Answers(i) == HonestAnswers(File(i), resume[i]) \cup OtherAnswers(File(i), resume[i])
Judge(i, a) ==
    honest' = [honest EXCEPT ![i] = @ /\ a \in HonestAnswers(File(i), resume[i])]

Accept(i) ==
    /\ pc[i] = "request"
    /\ \E a \in Answers(i) :
        /\ Acceptable(i, a)
        /\ dir
        /\ Judge(i, a)
        /\ body' = [body EXCEPT ![i] = a.body]
        /\ IF a.status = 206
           THEN /\ out' = [out EXCEPT ![i] = [at |-> "part", pos |-> AppendPos]]
                /\ part' = [part EXCEPT ![File(i)] = IF @ = None THEN <<>> ELSE @]
           ELSE /\ out' = [out EXCEPT ![i] = [at |-> "part", pos |-> 1]]
                /\ part' = [part EXCEPT ![File(i)] = <<>>]
    /\ Goto(i, "write")
    /\ UNCHANGED <<target, dir, k, resume, last, shared, tries>>

Reject(i) ==
    /\ pc[i] = "request"
    /\ \E a \in Answers(i) :
        /\ ~Acceptable(i, a) \/ ~dir
        /\ Over(i, "err")
        /\ Judge(i, a)
        /\ tries' = IF honest'[i] /\ ~shared[i] THEN tries + 1 ELSE 0
    /\ out' = [out EXCEPT ![i] = NoFile]
    /\ UNCHANGED <<disk, shared>>

\* The next block of the answer goes to the open file, wherever that lies now.
Write(i) ==
    /\ pc[i] = "write" /\ body[i] # <<>>
    /\ LET after(content) == Written(content, out[i].pos, Head(body[i]))
       IN /\ part' = IF out[i].at = "part" THEN [part EXCEPT ![File(i)] = after(@)] ELSE part
          /\ target' = IF out[i].at = "target" THEN [target EXCEPT ![File(i)] = after(@)] ELSE target
    /\ body' = [body EXCEPT ![i] = Tail(@)]
    /\ out' = [out EXCEPT ![i].pos = IF @ = AppendPos THEN AppendPos ELSE @ + 1]
    /\ UNCHANGED <<dir, pc, k, resume, judged>>

Received(i) ==
    /\ pc[i] = "write" /\ body[i] = <<>>
    /\ out' = [out EXCEPT ![i] = NoFile]
    /\ Goto(i, "verify")
    /\ UNCHANGED <<disk, k, resume, body, judged>>

\* finalize_downloaded_file: the size, then the hash.  A file of the wrong size
\* is kept, to be resumed or to be overwritten.
Incomplete(i) ==
    /\ pc[i] = "verify"
    /\ (IF part[File(i)] = None THEN 0 ELSE Len(part[File(i)])) # Size[File(i)]
    /\ Refuse(i)

\* MUTANT of Verified: the size is enough.
VerifiedBySize(i) ==
    /\ pc[i] = "verify" /\ part[File(i)] # None
    /\ Len(part[File(i)]) = Size[File(i)]
    /\ Goto(i, "rename")
    /\ UNCHANGED <<disk, k, resume, body, out, judged>>

Verified(i) ==
    /\ pc[i] = "verify" /\ part[File(i)] # None
    /\ Len(part[File(i)]) = Size[File(i)]
    /\ Goto(i, IF Right(File(i), part[File(i)]) THEN "rename" ELSE "badPart")
    /\ UNCHANGED <<disk, k, resume, body, out, judged>>

Install(i) ==
    /\ pc[i] = "rename" /\ part[File(i)] # None
    /\ target' = [target EXCEPT ![File(i)] = part[File(i)]]
    /\ part' = [part EXCEPT ![File(i)] = None]
    /\ out' = Moved(File(i), "part", "target")
    /\ NextFile(i)
    /\ UNCHANGED <<dir, resume, body, judged>>

InstallGone(i) ==
    /\ pc[i] = "rename" /\ part[File(i)] = None
    /\ Refuse(i)

\* MUTANT of Quarantine: the bad file is reported and stays where it is.
QuarantineNothing(i) ==
    /\ pc[i] \in {"badTarget", "badPart"}
    /\ Refuse(i)

\* quarantine_file: out of the way, and the run has failed either way.
Quarantine(i) ==
    /\ pc[i] \in {"badTarget", "badPart"}
    /\ LET f == File(i)
           bad == IF pc[i] = "badTarget" THEN "target" ELSE "part"
       IN /\ target' = IF bad = "target" THEN [target EXCEPT ![f] = None] ELSE target
          /\ part' = IF bad = "part" THEN [part EXCEPT ![f] = None] ELSE part
          /\ out' = Moved(f, bad, "none")
    /\ Over(i, "err")
    /\ tries' = IF honest[i] /\ ~shared[i] THEN tries + 1 ELSE 0
    /\ UNCHANGED <<dir, shared, honest>>

\* write_installed_manifest: the record of the installation, which nothing in
\* the program reads back, needs the directory.
Finish(i) ==
    /\ pc[i] = "manifest" /\ dir
    /\ Over(i, "ok")
    /\ tries' = 0
    /\ UNCHANGED <<disk, out, shared, honest>>

NoPlace(i) ==
    /\ pc[i] = "manifest" /\ ~dir
    /\ Refuse(i)

-----------------------------------------------------------------------------
(* The command that removes a model takes the directory away, whoever is   *)
(* at work in it.                                                          *)
Remove ==
    /\ dir
    /\ dir' = FALSE
    /\ target' = [f \in Files |-> None]
    /\ part' = [f \in Files |-> None]
    /\ out' = [i \in Installers |-> [out[i] EXCEPT !.at = "none"]]
    /\ shared' = [i \in Installers |-> shared[i] \/ i \in Active]
    /\ last' = [i \in Installers |-> "none"]
    /\ tries' = 0
    /\ UNCHANGED <<pc, k, resume, body, honest>>

Run(i) ==
    \/ NothingMissing(i) \/ Begin(i)
    \/ Reuse(i) \/ Distrust(i) \/ Ask(i)
    \/ Accept(i) \/ Reject(i)
    \/ Write(i) \/ Received(i)
    \/ Incomplete(i) \/ Verified(i) \/ Install(i) \/ InstallGone(i)
    \/ Quarantine(i)
    \/ Finish(i) \/ NoPlace(i)
    \/ Abort(i)

Next == Remove \/ \E i \in Installers : Run(i)
Spec == Init /\ [][Next]_vars

-----------------------------------------------------------------------------
(* Properties.                                                             *)

\* An installation that says that it succeeded, and during which no other
\* process touched the directory, leaves every file of the manifest in place,
\* byte for byte, whatever the server sent and whatever earlier runs, killed at
\* any step or at work side by side, had left; and no later run spoils it.
InstalledIsRight ==
    \A i \in Installers :
        last[i] = "ok" /\ ~shared[i] => \A f \in Files : Right(f, target[f])

\* Each failure removes its cause: with a server that answers as it should, runs
\* one after the other fail at most twice for every file (a bad target, then a
\* bad partial file), and the next one succeeds.
RetriesEnd == tries <= 2 * Len(Bundle)
=============================================================================
