------------------------ MODULE ModelInstall_proofs ------------------------
(***************************************************************************)
(* That an installation nobody interferes with installs what the manifest  *)
(* names, and that retries come to an end, for every set of processes and  *)
(* every bundle.                                                           *)
(***************************************************************************)
EXTENDS ModelInstall, TLAPS

\* A run starts at the first file, and only a receiver has a file open, which is
\* there.
Handles ==
    \A i \in Installers :
        /\ pc[i] = "idle" => k[i] = 1
        /\ pc[i] # "write" => out[i].at = "none"
        /\ out[i].at = "part" => part[File(i)] # None
        /\ out[i].at = "target" => target[File(i)] # None

\* What holds of a run that has been alone so far.
AloneRun(i) ==
    /\ \A j \in Installers : j # i => pc[j] = "idle"
    /\ out[i].at # "target"
    /\ \A n \in 1 .. k[i] - 1 : Right(Bundle[n], target[Bundle[n]])
    /\ pc[i] = "rename" => (part[File(i)] # None => Right(File(i), part[File(i)]))
    /\ pc[i] = "manifest" => k[i] = Len(Bundle) /\ Right(File(i), target[File(i)])
Alone == \A i \in Installers : pc[i] # "idle" /\ ~shared[i] => AloneRun(i)

\* After a run that was alone and succeeded, every run finds everything.
Succeeded(i) == last[i] = "ok" /\ ~shared[i]
Settled ==
    (\E i \in Installers : Succeeded(i)) =>
        /\ \A f \in Files : Right(f, target[f])
        /\ \A j \in Installers : pc[j] \in {"idle", "check", "manifest"}

IInv == TypeOK /\ Handles /\ Alone /\ Settled

\* A written file is a file.
LEMMA WrittenType ==
    ASSUME NEW c \in Seq(Nat), NEW p \in Nat, NEW b \in Nat
    PROVE  Written(c, p, b) \in Seq(Nat)
  <1>1. CASE p = AppendPos
    BY <1>1 DEF Written
  <1>2. CASE p # AppendPos
    <2> DEFINE n == IF p > Len(c) THEN p ELSE Len(c)
    <2>1. n \in Nat
      BY <1>2 DEF AppendPos
    <2>2. \A j \in 1 .. n : (IF j = p THEN b ELSE IF j <= Len(c) THEN c[j] ELSE 0) \in Nat
      BY <2>1
    <2>3. [j \in 1 .. n |-> IF j = p THEN b ELSE IF j <= Len(c) THEN c[j] ELSE 0] \in [1 .. n -> Nat]
      BY <2>2
    <2> QED
      BY <1>2, <2>1, <2>3 DEF Written
  <1> QED BY <1>1, <1>2

\* A file of the bundle is one of its files.
LEMMA FileType == TypeOK => \A i \in Installers : File(i) \in Files
  BY BundleAssumption DEF BundleAssumption, TypeOK, File, Files

\* The rest of a file is a sequence of blocks, the empty one past its end.
LEMMA RestType ==
    ASSUME NEW f \in Files, NEW from \in Nat
    PROVE  Rest(f, from) \in Seq(Nat)
  <1> DEFINE n == IF Length[f] >= from THEN Length[f] - from ELSE 0
  <1>0. Length[f] \in Nat
    BY BundleAssumption DEF BundleAssumption
  <1>1. n \in Nat /\ 1 .. Length[f] - from = 1 .. n
    BY <1>0
  <1>2. [j \in 1 .. n |-> from + j] \in [1 .. n -> Nat]
    BY <1>1
  <1>3. [j \in 1 .. n |-> from + j] \in Seq(Nat)
    BY <1>1, <1>2
  <1> QED BY <1>1, <1>3 DEF Rest

LEMMA NamedType == \A f \in Files : Named(f) \in Seq(Nat)
  <1> SUFFICES ASSUME NEW f \in Files PROVE Named(f) \in Seq(Nat)
    OBVIOUS
  <1>1. Length[f] \in Nat
    BY BundleAssumption DEF BundleAssumption
  <1>2. Named(f) \in [1 .. Length[f] -> Nat]
    BY <1>1 DEF Named
  <1> QED BY <1>1, <1>2

\* What a server sends is a sequence of blocks.
LEMMA AnswerType ==
    ASSUME TypeOK, NEW i \in Installers, NEW a \in Answers(i)
    PROVE  a.body \in Seq(Nat)
  <1> DEFINE f == File(i)
  <1>0. f \in Files /\ Length[f] \in Nat /\ resume[i] \in Nat
    BY BundleAssumption, FileType DEF BundleAssumption, TypeOK
  <1>1. \A from \in Nat : Rest(f, from) \in Seq(Nat)
    BY <1>0, RestType
  <1>2. \A b \in {<<>>, <<0>>, Rest(f, 0), Append(Rest(f, resume[i]), 0)} : b \in Seq(Nat)
    <2>1. Rest(f, 0) \in Seq(Nat) /\ Rest(f, resume[i]) \in Seq(Nat)
      BY <1>0, <1>1
    <2>2. \A c \in Seq(Nat) : Append(c, 0) \in Seq(Nat)
      OBVIOUS
    <2>3. <<>> \in Seq(Nat) /\ <<0>> \in Seq(Nat)
      OBVIOUS
    <2> QED BY <2>1, <2>2, <2>3
  <1>3. CASE a \in HonestAnswers(f, resume[i])
    BY SMTT(60), <1>0, <1>1, <1>3 DEF HonestAnswers
  <1>4. CASE a \in OtherAnswers(f, resume[i])
    BY ZenonT(60), <1>0, <1>2, <1>4 DEF OtherAnswers
  <1> QED BY <1>3, <1>4 DEF Answers

-----------------------------------------------------------------------------
LEMMA InitInv == Init => IInv
  <1> SUFFICES ASSUME Init PROVE IInv
    OBVIOUS
  <1>0. 1 \in 1 .. Len(Bundle)
    BY BundleAssumption DEF BundleAssumption
  <1>1. /\ out \in [Installers -> [at : {"none", "part", "target"}, pos : Nat]]
        /\ body \in [Installers -> Seq(Nat)]
    BY DEF Init, NoFile
  <1>2. TypeOK
    BY <1>0, <1>1 DEF Init, TypeOK, Stages
  <1> QED BY <1>2 DEF Init, IInv, Handles, Alone, Settled, Succeeded, NoFile

\* Every step keeps the types.
LEMMA TypeStep == TypeOK /\ Handles /\ [Next]_vars => TypeOK'
  <1> SUFFICES ASSUME TypeOK, Handles, [Next]_vars PROVE TypeOK'
    OBVIOUS
  <1> USE DEF TypeOK
  <1>0. \A i \in Installers : File(i) \in Files
    BY FileType
  <1>l. 1 \in 1 .. Len(Bundle)
    BY BundleAssumption DEF BundleAssumption
  <1>1. CASE UNCHANGED vars
    BY <1>1 DEF vars, disk, run, judged
  <1>2. CASE Remove
    BY <1>2 DEF Remove, Active
  <1>3. ASSUME NEW i \in Installers, Run(i) PROVE TypeOK'
    <2>f. File(i) \in Files
      BY <1>0
    <2>m. \A f, from, to : to \in {"none", "target"} =>
            Moved(f, from, to) \in [Installers -> [at : {"none", "part", "target"}, pos : Nat]]
      <3>1. \A j \in Installers, to \in {"none", "part", "target"} :
              [out[j] EXCEPT !.at = to] \in [at : {"none", "part", "target"}, pos : Nat]
        OBVIOUS
      <3> QED BY <3>1 DEF Moved
    <2>r. Refuse(i) => TypeOK'
      BY <1>l DEF Refuse, Over, disk, NoFile, Stages, AppendPos
    <2>n. NextFile(i) => pc' \in [Installers -> Stages] /\ k' \in [Installers -> 1 .. Len(Bundle)]
      <3>1. k[i] \in 1 .. Len(Bundle) /\ Len(Bundle) \in Nat
        BY BundleAssumption DEF BundleAssumption
      <3>2. k[i] # Len(Bundle) => k[i] + 1 \in 1 .. Len(Bundle)
        BY <3>1
      <3> QED BY <3>2 DEF NextFile, Goto, Stages
    <2>1. CASE NothingMissing(i)
      BY <2>1 DEF NothingMissing, disk, run
    <2>2. CASE Begin(i)
      BY <2>2 DEF Begin, Goto, Stages, Active
    <2>3. CASE Reuse(i)
      BY <2>3, <2>n DEF Reuse, disk, judged
    <2>4. CASE Distrust(i)
      BY <2>4 DEF Distrust, Goto, Stages, disk, judged
    <2>5. CASE Ask(i)
      <3>1. part[File(i)] # None => Len(part[File(i)]) \in Nat
        BY <2>f
      <3> QED BY <2>5, <2>f, <3>1 DEF Ask, Goto, Stages, judged
    <2>6. CASE Accept(i)
      <3>1. PICK a \in Answers(i) :
              /\ Judge(i, a)
              /\ body' = [body EXCEPT ![i] = a.body]
              /\ IF a.status = 206
                 THEN /\ out' = [out EXCEPT ![i] = [at |-> "part", pos |-> AppendPos]]
                      /\ part' = [part EXCEPT ![File(i)] = IF @ = None THEN <<>> ELSE @]
                 ELSE /\ out' = [out EXCEPT ![i] = [at |-> "part", pos |-> 1]]
                      /\ part' = [part EXCEPT ![File(i)] = <<>>]
        BY ZenonT(60), <2>6 DEF Accept
      <3>2. a.body \in Seq(Nat)
        BY AnswerType
      <3>3. body' \in [Installers -> Seq(Nat)]
        BY <3>1, <3>2
      <3>4. part' \in [Files -> Seq(Nat) \cup {None}]
        <4>1. (IF part[File(i)] = None THEN <<>> ELSE part[File(i)]) \in Seq(Nat)
          BY <2>f
        <4>2. part' = [part EXCEPT ![File(i)] = IF part[File(i)] = None THEN <<>> ELSE part[File(i)]]
              \/ part' = [part EXCEPT ![File(i)] = <<>>]
          BY <3>1
        <4>3. <<>> \in Seq(Nat)
          OBVIOUS
        <4> QED BY <4>1, <4>2, <4>3, <2>f
      <3>5. out' \in [Installers -> [at : {"none", "part", "target"}, pos : Nat]]
        <4>1. [at |-> "part", pos |-> AppendPos] \in [at : {"none", "part", "target"}, pos : Nat]
          BY DEF AppendPos
        <4>2. [at |-> "part", pos |-> 1] \in [at : {"none", "part", "target"}, pos : Nat]
          OBVIOUS
        <4>3. \E r \in [at : {"none", "part", "target"}, pos : Nat] : out' = [out EXCEPT ![i] = r]
          BY <3>1, <4>1, <4>2
        <4> QED BY <4>3
      <3>6. honest' \in [Installers -> BOOLEAN]
        BY <3>1 DEF Judge
      <3> QED BY <2>6, <3>3, <3>4, <3>5, <3>6 DEF Accept, Goto, Stages
    <2>7. CASE Reject(i)
      <3>1. PICK a \in Answers(i) : Over(i, "err") /\ Judge(i, a)
                /\ tries' = IF honest'[i] /\ ~shared[i] THEN tries + 1 ELSE 0
        BY <2>7 DEF Reject
      <3>2. honest' \in [Installers -> BOOLEAN]
        BY <3>1 DEF Judge
      <3>3. out' \in [Installers -> [at : {"none", "part", "target"}, pos : Nat]]
        BY <2>7 DEF Reject, NoFile
      <3> QED BY <2>7, <1>l, <3>1, <3>2, <3>3 DEF Reject, Over, disk, Stages
    <2>8. CASE Write(i)
      <3>1. Head(body[i]) \in Nat /\ Tail(body[i]) \in Seq(Nat)
        BY <2>8 DEF Write
      <3>2. \A c \in Seq(Nat) : Written(c, out[i].pos, Head(body[i])) \in Seq(Nat)
        BY <3>1, WrittenType
      <3>3. part' \in [Files -> Seq(Nat) \cup {None}]
        <4>1. CASE out[i].at = "part"
          <5>1. part[File(i)] \in Seq(Nat)
            BY <4>1, <2>f DEF Handles
          <5> QED BY <2>8, <4>1, <5>1, <3>2 DEF Write
        <4> QED BY <2>8, <4>1 DEF Write
      <3>4. target' \in [Files -> Seq(Nat) \cup {None}]
        <4>1. CASE out[i].at = "target"
          <5>1. target[File(i)] \in Seq(Nat)
            BY <4>1, <2>f DEF Handles
          <5> QED BY <2>8, <4>1, <5>1, <3>2 DEF Write
        <4> QED BY <2>8, <4>1 DEF Write
      <3>5. out' \in [Installers -> [at : {"none", "part", "target"}, pos : Nat]]
        BY <2>8 DEF Write, AppendPos
      <3> QED BY <2>8, <3>1, <3>3, <3>4, <3>5 DEF Write, judged
    <2>9. CASE Received(i)
      BY <2>9 DEF Received, Goto, Stages, disk, judged, NoFile, AppendPos
    <2>10. CASE Incomplete(i)
      BY <2>10, <2>r DEF Incomplete
    <2>11. CASE Verified(i)
      BY <2>11 DEF Verified, Goto, Stages, disk, judged
    <2>12. CASE Install(i)
      <3>1. part[File(i)] \in Seq(Nat)
        BY <2>12, <2>f DEF Install
      <3>2. out' \in [Installers -> [at : {"none", "part", "target"}, pos : Nat]]
        BY <2>12, <2>m DEF Install
      <3> QED BY <2>12, <2>n, <3>1, <3>2 DEF Install, judged
    <2>13. CASE InstallGone(i)
      BY <2>13, <2>r DEF InstallGone
    <2>14. CASE Quarantine(i)
      <3>1. out' \in [Installers -> [at : {"none", "part", "target"}, pos : Nat]]
        BY <2>14, <2>m DEF Quarantine
      <3>2. target' \in [Files -> Seq(Nat) \cup {None}] /\ part' \in [Files -> Seq(Nat) \cup {None}]
        <4>1. target' = target \/ target' = [target EXCEPT ![File(i)] = None]
          BY <2>14 DEF Quarantine
        <4>2. part' = part \/ part' = [part EXCEPT ![File(i)] = None]
          BY <2>14 DEF Quarantine
        <4> QED BY <4>1, <4>2, <2>f
      <3>3. /\ Over(i, "err") /\ dir' = dir /\ shared' = shared /\ honest' = honest
            /\ tries' \in {tries + 1, 0}
        BY <2>14 DEF Quarantine
      <3> QED BY <1>l, <3>1, <3>2, <3>3 DEF Over, Stages
    <2>15. CASE Finish(i)
      BY <2>15, <1>l DEF Finish, Over, disk, Stages
    <2>16. CASE NoPlace(i)
      BY <2>16, <2>r DEF NoPlace
    <2>17. CASE Abort(i)
      BY <2>17, <1>l DEF Abort, Over, disk, Stages, NoFile, AppendPos
    <2> QED
      BY <1>3, <2>1, <2>2, <2>3, <2>4, <2>5, <2>6, <2>7, <2>8, <2>9, <2>10,
         <2>11, <2>12, <2>13, <2>14, <2>15, <2>16, <2>17 DEF Run
  <1> QED BY <1>1, <1>2, <1>3 DEF Next

-----------------------------------------------------------------------------
\* Every step keeps the open files in place.
LEMMA HandlesStep == TypeOK /\ Handles /\ [Next]_vars => Handles'
  <1> SUFFICES ASSUME TypeOK, Handles, [Next]_vars PROVE Handles'
    OBVIOUS
  <1>0. \A i \in Installers : File(i) \in Files
    BY FileType
  <1> USE DEF Handles, TypeOK, File
  <1>1. CASE UNCHANGED vars
    BY <1>1 DEF vars, disk, run, judged
  <1>2. CASE Remove
    BY <1>2 DEF Remove
  <1>3. ASSUME NEW i \in Installers, Run(i) PROVE Handles'
    <2>f. File(i) \in Files
      BY <1>0
    <2>1. CASE NothingMissing(i) \/ Begin(i) \/ Reuse(i) \/ Distrust(i) \/ Ask(i)
      BY SMTT(60), <2>1 DEF NothingMissing, Begin, Reuse, Distrust, Ask, NextFile, Goto, disk, run, judged
    <2>6. CASE Accept(i)
      <3>0. <<>> \in Seq(Nat)
        OBVIOUS
      <3>1. <<>> # None
        BY <3>0, NoneAssumption DEF NoneAssumption
      <3>2. part'[File(i)] # None /\ \A g \in Files \ {File(i)} : part'[g] = part[g]
        <4>1. part' = [part EXCEPT ![File(i)] = IF part[File(i)] = None THEN <<>> ELSE part[File(i)]]
              \/ part' = [part EXCEPT ![File(i)] = <<>>]
          BY <2>6 DEF Accept
        <4> QED BY <4>1, <3>1, <2>f
      <3>3. \A g \in Files : part[g] # None => part'[g] # None
        BY <3>2
      <3>4. out'[i].at = "part" /\ \A j \in Installers \ {i} : out'[j] = out[j]
        BY <2>6 DEF Accept
      <3>5. pc'[i] = "write" /\ (\A j \in Installers \ {i} : pc'[j] = pc[j]) /\ k' = k /\ target' = target
        BY <2>6 DEF Accept, Goto
      <3>6. ASSUME NEW j \in Installers
            PROVE  /\ pc'[j] = "idle" => k'[j] = 1
                   /\ pc'[j] # "write" => out'[j].at = "none"
                   /\ out'[j].at = "part" => part'[Bundle[k'[j]]] # None
                   /\ out'[j].at = "target" => target'[Bundle[k'[j]]] # None
        <4>1. CASE j = i
          BY <4>1, <3>2, <3>4, <3>5
        <4>2. CASE j # i
          <5>1. Bundle[k[j]] \in Files
            BY <1>0
          <5> QED BY <4>2, <3>3, <3>4, <3>5, <5>1
        <4> QED BY <4>1, <4>2
      <3> QED BY <3>6
    <2>7. CASE Reject(i)
      BY <2>7 DEF Reject, Over, disk, NoFile
    <2>8. CASE Write(i)
      <3>1. Head(body[i]) \in Nat
        BY <2>8 DEF Write
      <3>2. \A c \in Seq(Nat) : Written(c, out[i].pos, Head(body[i])) # None
        <4>1. \A c \in Seq(Nat) : Written(c, out[i].pos, Head(body[i])) \in Seq(Nat)
          BY <3>1, WrittenType
        <4> QED BY <4>1, NoneAssumption DEF NoneAssumption
      <3>3. \A g \in Files : part[g] # None => part'[g] # None
        BY <2>8, <3>2, <2>f DEF Write
      <3>4. \A g \in Files : target[g] # None => target'[g] # None
        BY <2>8, <3>2, <2>f DEF Write
      <3>5. pc' = pc /\ k' = k /\ \A j \in Installers : out'[j].at = out[j].at
        BY <2>8 DEF Write
      <3> QED BY <3>3, <3>4, <3>5, <1>0
    <2>9. CASE Received(i)
      BY <2>9 DEF Received, Goto, disk, NoFile
    <2>r. Refuse(i) => Handles'
      BY DEF Refuse, Over, disk, NoFile
    <2>10. CASE Incomplete(i) \/ InstallGone(i) \/ NoPlace(i)
      BY <2>10, <2>r DEF Incomplete, InstallGone, NoPlace
    <2>11. CASE Verified(i)
      BY <2>11 DEF Verified, Goto, disk
    <2>12. CASE Install(i)
      BY SMTT(60), <2>12, <2>f DEF Install, Moved, NextFile, Goto
    <2>14. CASE Quarantine(i)
      BY SMTT(60), <2>14, <2>f DEF Quarantine, Moved, Over
    <2>15. CASE Finish(i)
      BY <2>15 DEF Finish, Over, disk
    <2>17. CASE Abort(i)
      BY <2>17 DEF Abort, Over, disk, NoFile
    <2> QED
      BY <1>3, <2>1, <2>6, <2>7, <2>8, <2>9, <2>10, <2>11, <2>12, <2>14, <2>15, <2>17 DEF Run
  <1> QED BY <1>1, <1>2, <1>3 DEF Next

-----------------------------------------------------------------------------
\* Every step keeps what holds of a run that is alone.
LEMMA AloneStep == IInv /\ [Next]_vars => Alone'
  <1> SUFFICES ASSUME IInv, [Next]_vars PROVE Alone'
    OBVIOUS
  <1> USE DEF TypeOK, File
  <1>t. TypeOK /\ Handles /\ Alone
    BY DEF IInv
  <1>0. \A i \in Installers : File(i) \in Files
    BY <1>t, FileType
  <1>1. CASE UNCHANGED vars
    BY <1>1, <1>t DEF vars, disk, run, judged, Alone, AloneRun
  <1>2. CASE Remove
    BY <1>2, <1>t DEF Remove, Alone, AloneRun, Active
  <1>3. ASSUME NEW i \in Installers, Run(i) PROVE Alone'
    <2>f. File(i) \in Files
      BY <1>0
    \* A step of one run leaves no other that was alone.
    <2>o. pc[i] # "idle" => \A j \in Installers \ {i} : pc[j] = "idle" \/ shared[j]
      BY <1>t DEF Alone, AloneRun
    <2>1. CASE NothingMissing(i)
      BY <2>1, <1>t DEF NothingMissing, disk, run, Alone, AloneRun
    <2>2. CASE Begin(i)
      <3>1. ASSUME NEW j \in Installers, pc'[j] # "idle", ~shared'[j] PROVE AloneRun(j)'
        <4>1. j = i
          <5> SUFFICES ASSUME j # i PROVE FALSE
            OBVIOUS
          <5>1. pc[j] # "idle" /\ j \in Active
            BY <2>2, <3>1 DEF Begin, Goto, Active
          <5> QED BY <2>2, <3>1, <5>1 DEF Begin
        <4>2. \A m \in Installers : pc[m] = "idle"
          BY <2>2, <3>1, <4>1 DEF Begin, Active
        <4>3. k[i] = 1
          BY <2>2, <1>t DEF Begin, Handles
        <4>4. /\ pc' = [pc EXCEPT ![i] = "check"] /\ k' = k /\ out' = out
              /\ target' = target /\ part' = part
          BY <2>2 DEF Begin, Goto
        <4>5. \A m \in Installers : m # j => pc'[m] = "idle"
          BY <4>1, <4>2, <4>4, <1>t
        <4>6. pc'[j] = "check" /\ k'[j] = 1
          BY <4>1, <4>3, <4>4, <1>t
        <4>7. out'[j].at # "target"
          BY <4>2, <4>4, <1>t DEF Handles
        <4>8. \A n \in 1 .. k'[j] - 1 : FALSE
          BY <4>6
        <4> QED BY <4>5, <4>6, <4>7, <4>8 DEF AloneRun
      <3> QED BY <3>1 DEF Alone
    \* The other actions belong to a run in progress, beside which no run that
    \* has been alone is in progress.
    <2>3. ASSUME pc[i] # "idle", \A j \in Installers : shared'[j] = shared[j],
                 \A j \in Installers \ {i} : pc'[j] = pc[j],
                 pc'[i] # "idle" /\ ~shared[i] /\ AloneRun(i) => AloneRun(i)'
          PROVE  Alone'
      <3>1. \A j \in Installers \ {i} : pc'[j] = "idle" \/ shared'[j]
        BY <2>3, <2>o
      <3>2. pc'[i] # "idle" /\ ~shared'[i] => AloneRun(i)'
        BY <2>3, <1>t DEF Alone
      <3> QED BY <3>1, <3>2 DEF Alone
    <2>4. CASE Reuse(i)
      <3>1. ASSUME AloneRun(i) PROVE AloneRun(i)'
        <4>1. \A n \in 1 .. k[i] : Right(Bundle[n], target[Bundle[n]])
          <5>1. k[i] \in Nat /\ \A n \in 1 .. k[i] : n \in 1 .. k[i] - 1 \/ n = k[i]
            BY <1>t
          <5> QED BY <2>4, <3>1, <5>1 DEF Reuse, AloneRun
        <4>2. pc'[i] \in {"check", "manifest"} /\ target' = target /\ part' = part /\ out' = out
              /\ \A j \in Installers \ {i} : pc'[j] = pc[j]
          BY <2>4, <1>t DEF Reuse, NextFile, Goto, disk
        <4>3. \/ pc'[i] = "manifest" /\ k[i] = Len(Bundle) /\ k' = k
              \/ pc'[i] = "check" /\ k'[i] = k[i] + 1
          BY <2>4, <1>t DEF Reuse, NextFile, Goto
        <4>4. k[i] \in Nat /\ k[i] \in 1 .. k[i]
          BY <1>t
        <4> QED BY <3>1, <4>1, <4>2, <4>3, <4>4 DEF AloneRun
      <3>2. pc[i] # "idle" /\ shared' = shared /\ \A j \in Installers \ {i} : pc'[j] = pc[j]
        BY <2>4, <1>t DEF Reuse, NextFile, Goto, judged
      <3> QED BY <2>3, <3>1, <3>2
    <2>5. CASE Distrust(i) \/ Ask(i) \/ Received(i)
      <3>1. pc[i] # "idle" /\ shared' = shared /\ \A j \in Installers \ {i} : pc'[j] = pc[j]
        BY <2>5, <1>t DEF Distrust, Ask, Received, Goto, judged
      <3>2. pc'[i] \notin {"rename", "manifest"} /\ k' = k /\ target' = target /\ part' = part
            /\ out'[i].at \in {out[i].at, "none"}
        BY <2>5, <1>t DEF Distrust, Ask, Received, Goto, disk, NoFile
      <3> QED BY <2>3, <3>1, <3>2 DEF AloneRun
    <2>6. CASE Accept(i)
      <3>1. pc[i] # "idle" /\ shared' = shared /\ (\A j \in Installers \ {i} : pc'[j] = pc[j])
            /\ pc'[i] = "write" /\ k' = k /\ target' = target
        BY <2>6, <1>t DEF Accept, Goto
      <3>2. out'[i].at = "part"
        BY <2>6, <1>t DEF Accept
      <3> QED BY <2>3, <3>1, <3>2 DEF AloneRun
    <2>7. ASSUME pc[i] # "idle", pc'[i] = "idle", shared' = shared,
                 \A j \in Installers \ {i} : pc'[j] = pc[j]
          PROVE  Alone'
      BY <2>3, <2>7
    <2>8. CASE Write(i)
      <3>1. pc[i] = "write" /\ pc' = pc /\ k' = k /\ shared' = shared /\ out'[i].at = out[i].at
        BY <2>8, <1>t DEF Write, judged
      <3>2. out[i].at # "target" => target' = target
        BY <2>8 DEF Write
      <3> QED BY <2>3, <3>1, <3>2 DEF AloneRun
    <2>9. CASE Verified(i)
      <3>1. pc[i] = "verify" /\ shared' = shared /\ (\A j \in Installers \ {i} : pc'[j] = pc[j])
            /\ k' = k /\ target' = target /\ part' = part /\ out' = out
            /\ pc'[i] = (IF Right(File(i), part[File(i)]) THEN "rename" ELSE "badPart")
        BY <2>9, <1>t DEF Verified, Goto, disk, judged
      <3> QED BY <2>3, <3>1 DEF AloneRun
    <2>10. CASE Install(i)
      <3>1. pc[i] = "rename" /\ part[File(i)] # None /\ shared' = shared
            /\ (\A j \in Installers \ {i} : pc'[j] = pc[j])
            /\ target' = [target EXCEPT ![File(i)] = part[File(i)]]
            /\ part' = [part EXCEPT ![File(i)] = None]
        BY <2>10, <1>t DEF Install, NextFile, Goto, judged
      <3>2. \/ pc'[i] = "manifest" /\ k[i] = Len(Bundle) /\ k' = k
            \/ pc'[i] = "check" /\ k'[i] = k[i] + 1
        BY <2>10, <1>t DEF Install, NextFile, Goto
      <3>3. ASSUME AloneRun(i), ~shared[i] PROVE AloneRun(i)'
        <4>1. Right(File(i), part[File(i)])
          BY <3>1, <3>3 DEF AloneRun
        <4>2. \A n \in 1 .. k[i] : Right(Bundle[n], target'[Bundle[n]])
          <5> SUFFICES ASSUME NEW n \in 1 .. k[i] PROVE Right(Bundle[n], target'[Bundle[n]])
            OBVIOUS
          <5>1. Bundle[n] \in Files
            BY SMTT(60), <1>t, BundleAssumption DEF BundleAssumption, Files
          <5>2. CASE Bundle[n] = File(i)
            BY <5>1, <5>2, <4>1, <3>1, <1>t
          <5>3. CASE Bundle[n] # File(i)
            <6>1. n \in 1 .. k[i] - 1
              BY <5>3, <1>t
            <6>2. target'[Bundle[n]] = target[Bundle[n]]
              BY <5>1, <5>3, <3>1, <1>t
            <6> QED BY <6>1, <6>2, <3>3 DEF AloneRun
          <5> QED BY <5>2, <5>3
        <4>3. out'[i].at # "target"
          BY <2>10, <3>1, <1>t DEF Install, Moved, Handles
        <4>4. k[i] \in Nat /\ k[i] \in 1 .. k[i]
          BY <1>t
        <4> QED BY <3>1, <3>2, <3>3, <4>2, <4>3, <4>4 DEF AloneRun
      <3> QED BY <2>3, <3>1, <3>3
    <2>11. CASE Reject(i) \/ Incomplete(i) \/ InstallGone(i) \/ Quarantine(i) \/ Finish(i)
                \/ NoPlace(i) \/ Abort(i)
      <3>1. pc[i] # "idle" /\ pc' = [pc EXCEPT ![i] = "idle"] /\ shared' = shared
        BY <2>11 DEF Reject, Incomplete, InstallGone, Quarantine, Finish, NoPlace, Abort, Refuse, Over
      <3> QED BY <2>7, <3>1, <1>t
    <2> QED
      BY <1>3, <2>1, <2>2, <2>4, <2>5, <2>6, <2>8, <2>9, <2>10, <2>11 DEF Run
  <1> QED BY <1>1, <1>2, <1>3 DEF Next

-----------------------------------------------------------------------------
\* A run that was alone has everything in place when it succeeds, and later runs
\* have nothing to do.
LEMMA SettledStep == IInv /\ [Next]_vars => Settled'
  <1> SUFFICES ASSUME IInv, [Next]_vars PROVE Settled'
    OBVIOUS
  <1> USE DEF TypeOK, File
  <1>t. TypeOK /\ Handles /\ Alone /\ Settled
    BY DEF IInv
  <1>0. \A i \in Installers : File(i) \in Files
    BY <1>t, FileType
  <1>1. CASE UNCHANGED vars
    BY <1>1, <1>t DEF vars, disk, run, judged, Settled, Succeeded
  <1>2. CASE Remove
    BY <1>2 DEF Remove, Settled, Succeeded
  <1>3. ASSUME NEW i \in Installers, Run(i) PROVE Settled'
    <2>f. File(i) \in Files
      BY <1>0
    \* While nobody succeeded anew, an earlier success is what counts.
    <2>s. ASSUME \E j \in Installers : Succeeded(j)
          PROVE  /\ \A f \in Files : Right(f, target[f])
                 /\ \A j \in Installers : pc[j] \in {"idle", "check", "manifest"}
      BY <2>s, <1>t DEF Settled
    <2>1. CASE NothingMissing(i)
      <3>1. \A j \in Installers : Succeeded(j)' => Succeeded(j)
        BY <2>1, <1>t DEF NothingMissing, Succeeded
      <3> QED BY <2>1, <3>1, <2>s DEF NothingMissing, disk, run, Settled
    <2>2. CASE Begin(i)
      <3>1. \A j \in Installers : Succeeded(j)' => Succeeded(j)
        BY <2>2, <1>t DEF Begin, Succeeded, Active
      <3> QED BY <2>2, <3>1, <2>s, <1>t DEF Begin, Goto, Settled
    <2>3. CASE Reuse(i)
      <3>1. \A j \in Installers : Succeeded(j)' => Succeeded(j)
        BY <2>3 DEF Reuse, Succeeded, judged
      <3>2. pc'[i] \in {"check", "manifest"} /\ target' = target
            /\ \A j \in Installers \ {i} : pc'[j] = pc[j]
        BY <2>3, <1>t DEF Reuse, NextFile, Goto, disk
      <3> QED BY <3>1, <3>2, <2>s DEF Settled
    \* These steps are taken only where something is missing or bad.
    <2>4. CASE Distrust(i) \/ Ask(i) \/ Accept(i) \/ Reject(i) \/ Write(i) \/ Received(i)
               \/ Incomplete(i) \/ Verified(i) \/ Install(i) \/ InstallGone(i) \/ Quarantine(i)
      <3>1. ASSUME NEW j \in Installers, Succeeded(j) PROVE FALSE
        <4>1. Right(File(i), target[File(i)]) /\ pc[i] \in {"idle", "check", "manifest"}
          BY <3>1, <2>s, <2>f
        <4>2. target[File(i)] # None
          BY <4>1, <2>f, NamedType, NoneAssumption DEF Right, NoneAssumption
        <4> QED BY <2>4, <4>1, <4>2 DEF Distrust, Ask, Accept, Reject, Write, Received, Incomplete,
                Verified, Install, InstallGone, Quarantine
      <3>2. \A j \in Installers : shared'[j] = shared[j] /\ (last'[j] = "ok" => last[j] = "ok")
        BY <2>4, <1>t DEF Distrust, Ask, Accept, Reject, Write, Received, Incomplete,
                Verified, Install, InstallGone, Quarantine, Refuse, Over, judged
      <3> QED BY <3>1, <3>2 DEF Settled, Succeeded
    <2>5. CASE Finish(i)
      <3>0. pc[i] = "manifest" /\ target' = target /\ pc' = [pc EXCEPT ![i] = "idle"] /\ shared' = shared
            /\ \A j \in Installers \ {i} : last'[j] = last[j]
        BY <2>5 DEF Finish, Over, disk
      <3>1. CASE ~shared[i]
        <4>1. AloneRun(i)
          BY <3>0, <3>1, <1>t DEF Alone
        <4>2. \A f \in Files : Right(f, target[f])
          <5> SUFFICES ASSUME NEW n \in 1 .. Len(Bundle) PROVE Right(Bundle[n], target[Bundle[n]])
            BY DEF Files
          <5>1. n \in 1 .. k[i] - 1 \/ n = k[i]
            BY <3>0, <4>1, BundleAssumption DEF AloneRun, BundleAssumption
          <5> QED BY <5>1, <3>0, <4>1 DEF AloneRun
        <4>3. \A j \in Installers : pc'[j] = "idle"
          BY <3>0, <4>1, <1>t DEF AloneRun
        <4> QED BY <3>0, <4>2, <4>3 DEF Settled
      <3>2. CASE shared[i]
        <4>1. \A j \in Installers : Succeeded(j)' => Succeeded(j)
          BY <3>0, <3>2 DEF Succeeded
        <4> QED BY <3>0, <4>1, <2>s, <1>t DEF Settled
      <3> QED BY <3>1, <3>2
    <2>6. CASE NoPlace(i) \/ Abort(i)
      <3>1. target' = target /\ pc' = [pc EXCEPT ![i] = "idle"] /\ shared' = shared
            /\ last' = [last EXCEPT ![i] = "err"]
        BY <2>6 DEF NoPlace, Abort, Refuse, Over, disk
      <3>2. \A j \in Installers : Succeeded(j)' => Succeeded(j)
        BY <3>1, <1>t DEF Succeeded
      <3> QED BY <3>1, <3>2, <2>s, <1>t DEF Settled
    <2> QED
      BY <1>3, <2>1, <2>2, <2>3, <2>4, <2>5, <2>6 DEF Run
  <1> QED BY <1>1, <1>2, <1>3 DEF Next

-----------------------------------------------------------------------------
LEMMA Inductive == Spec => []IInv
  <1>1. IInv /\ [Next]_vars => IInv'
    BY TypeStep, HandlesStep, AloneStep, SettledStep DEF IInv
  <1> QED BY InitInv, <1>1, PTL DEF Spec

\* Type correctness of the installation.
THEOREM TypeCorrect == Spec => []TypeOK
  <1>1. IInv => TypeOK
    BY DEF IInv
  <1> QED BY Inductive, <1>1, PTL

\* For any number of processes and any bundle: where a process reports success
\* and was alone, what lies in the directory is what the manifest names.
THEOREM InstallsWhatIsNamed == Spec => []InstalledIsRight
  <1>1. IInv => InstalledIsRight
    BY DEF IInv, Settled, Succeeded, InstalledIsRight
  <1> QED BY Inductive, <1>1, PTL

-----------------------------------------------------------------------------
(* That a few retries are enough.                                          *)

\* The manifest names the sizes of the files it names.
SizesRight == \A f \in Files : Size[f] = Length[f]

\* How often a run can still have failed at the file at place p, which it left as it is.
Room(p) ==
    IF target[Bundle[p]] # None THEN 0 ELSE IF part[Bundle[p]] # None THEN 1 ELSE 2

\* All failures so far are due to what was before place p, and to it.
Spared(p) ==
    /\ \A n \in 1 .. p - 1 : Right(Bundle[n], target[Bundle[n]])
    /\ tries <= 2 * (p - 1) + Room(p)

\* The partial file holds the beginning of the file, and the rest of it comes.
Fresh(i) ==
    /\ Len(part[File(i)]) <= Length[File(i)]
    /\ out[i].pos = Len(part[File(i)]) + 1
    /\ \A j \in 1 .. Len(part[File(i)]) : part[File(i)][j] = j
    /\ body[i] = Rest(File(i), Len(part[File(i)]))

\* The partial file may hold anything, and as much comes as is missing.
Resumed(i) ==
    /\ out[i].pos = AppendPos
    /\ Len(part[File(i)]) + Len(body[i]) = Length[File(i)]
    /\ tries <= 2 * k[i] - 1

\* What holds of a run that has been alone so far and was served as it should be.
ServedRun(i) ==
    /\ dir
    /\ pc[i] = "check" => \E p \in k[i] .. Len(Bundle) : Spared(p)
    /\ tries <= 2 * k[i] \/ pc[i] = "check"
    /\ pc[i] = "badTarget" =>
           ~Right(File(i), target[File(i)]) /\ tries <= 2 * k[i] - 2
    /\ pc[i] \in {"request", "write", "verify", "badPart"} => target[File(i)] = None
    /\ pc[i] = "request" /\ resume[i] > 0 =>
           /\ part[File(i)] # None /\ Len(part[File(i)]) = resume[i]
           /\ resume[i] < Size[File(i)] /\ tries <= 2 * k[i] - 1
    /\ pc[i] = "write" => out[i].at = "part" /\ (Fresh(i) \/ Resumed(i))
    /\ pc[i] \in {"verify", "rename"} => part[File(i)] # None
    /\ pc[i] = "verify" =>
           /\ Len(part[File(i)]) = Length[File(i)]
           /\ Right(File(i), part[File(i)]) \/ tries <= 2 * k[i] - 1
    /\ pc[i] = "badPart" => tries <= 2 * k[i] - 1

\* At rest the failures are those the files allow for.
RInv ==
    /\ RetriesEnd
    /\ (\A i \in Installers : pc[i] = "idle") => \E p \in 1 .. Len(Bundle) : Spared(p)
    /\ \A i \in Installers : pc[i] # "idle" /\ ~shared[i] /\ honest[i] => ServedRun(i)

-----------------------------------------------------------------------------
\* What is left of a file, block by block.
LEMMA RestParts ==
    ASSUME NEW f \in Files, NEW from \in Nat, from <= Length[f]
    PROVE  /\ Rest(f, from) \in Seq(Nat) /\ Len(Rest(f, from)) = Length[f] - from
           /\ Rest(f, from) = <<>> => from = Length[f]
           /\ Rest(f, from) # <<>> =>
                  /\ from + 1 <= Length[f] /\ Head(Rest(f, from)) = from + 1
                  /\ Tail(Rest(f, from)) = Rest(f, from + 1)
  <1>1. Length[f] \in Nat
    BY BundleAssumption DEF BundleAssumption
  <1>2. Rest(f, from) \in Seq(Nat) /\ Rest(f, from + 1) \in Seq(Nat)
    BY RestType
  <1>3. Len(Rest(f, from)) = Length[f] - from
    <2>1. Length[f] - from \in Nat
      BY <1>1
    <2> QED BY <2>1 DEF Rest
  <1>4. \A j \in 1 .. Length[f] - from : Rest(f, from)[j] = from + j
    BY DEF Rest
  <1>5. ASSUME Rest(f, from) # <<>>
        PROVE  /\ from + 1 <= Length[f] /\ Head(Rest(f, from)) = from + 1
               /\ Tail(Rest(f, from)) = Rest(f, from + 1)
    <2>1. Len(Rest(f, from)) # 0
      BY <1>2, <1>5
    <2>2. from + 1 <= Length[f]
      BY <1>1, <1>3, <2>1
    <2>3. Head(Rest(f, from)) = from + 1
      <3>1. 1 \in 1 .. Length[f] - from
        BY <1>1, <2>2
      <3> QED BY <1>2, <1>4, <1>5, <3>1
    <2>4. Tail(Rest(f, from)) \in Seq(Nat) /\ Len(Tail(Rest(f, from))) = Length[f] - (from + 1)
      BY <1>1, <1>2, <1>3, <1>5, <2>2
    <2>5. Len(Rest(f, from + 1)) = Length[f] - (from + 1)
      <3>1. Length[f] - (from + 1) \in Nat
        BY <1>1, <2>2
      <3> QED BY <3>1 DEF Rest
    <2>6. ASSUME NEW j \in 1 .. Length[f] - (from + 1)
          PROVE  Tail(Rest(f, from))[j] = Rest(f, from + 1)[j]
      <3>1. j + 1 \in 1 .. Length[f] - from /\ from + (j + 1) = (from + 1) + j
        BY <1>1
      <3>2. Tail(Rest(f, from))[j] = Rest(f, from)[j + 1]
        BY <1>2, <1>5, <2>4, <3>1
      <3>3. Rest(f, from + 1)[j] = (from + 1) + j
        BY DEF Rest
      <3> QED BY <1>4, <3>1, <3>2, <3>3
    <2>7. Tail(Rest(f, from)) = Rest(f, from + 1)
      BY <1>2, <2>4, <2>5, <2>6
    <2> QED BY <2>2, <2>3, <2>7
  <1>6. Rest(f, from) = <<>> => from = Length[f]
    BY <1>1, <1>3
  <1> QED BY <1>2, <1>3, <1>5, <1>6

\* A write behind the last block, and one at the end.
LEMMA WrittenNext ==
    ASSUME NEW c \in Seq(Nat), NEW b \in Nat
    PROVE  /\ Written(c, AppendPos, b) \in Seq(Nat) /\ Len(Written(c, AppendPos, b)) = Len(c) + 1
           /\ Written(c, Len(c) + 1, b) \in Seq(Nat) /\ Len(Written(c, Len(c) + 1, b)) = Len(c) + 1
           /\ \A j \in 1 .. Len(c) + 1 :
                  Written(c, Len(c) + 1, b)[j] = IF j = Len(c) + 1 THEN b ELSE c[j]
  <1>1. Written(c, AppendPos, b) \in Seq(Nat) /\ Len(Written(c, AppendPos, b)) = Len(c) + 1
    BY DEF Written
  <1>2. Written(c, Len(c) + 1, b) \in Seq(Nat)
    BY WrittenType
  <1>3. Written(c, Len(c) + 1, b) =
          [j \in 1 .. Len(c) + 1 |-> IF j = Len(c) + 1 THEN b ELSE IF j <= Len(c) THEN c[j] ELSE 0]
    BY DEF Written, AppendPos
  <1>4. Len(Written(c, Len(c) + 1, b)) = Len(c) + 1
    <2>1. Len(c) + 1 \in Nat
      OBVIOUS
    <2> QED BY <1>3, <2>1
  <1> QED BY <1>1, <1>2, <1>3, <1>4

\* After no failure the first file may still fail.
LEMMA NoFailure == tries = 0 => \E p \in 1 .. Len(Bundle) : Spared(p)
  <1>1. Len(Bundle) \in Nat /\ 1 \in 1 .. Len(Bundle)
    BY BundleAssumption DEF BundleAssumption
  <1>2. 1 .. 1 - 1 = {}
    OBVIOUS
  <1> QED BY <1>1, <1>2 DEF Spared, Room

\* Two failures for every file.
LEMMA FailuresBound == TypeOK /\ (\E p \in 1 .. Len(Bundle) : Spared(p)) => RetriesEnd
  <1> SUFFICES ASSUME TypeOK, NEW p \in 1 .. Len(Bundle), Spared(p) PROVE RetriesEnd
    OBVIOUS
  <1>1. Len(Bundle) \in Nat
    BY BundleAssumption DEF BundleAssumption
  <1>2. tries <= 2 * (p - 1) + 2
    BY <1>1 DEF Spared, Room, TypeOK
  <1> QED BY <1>1, <1>2 DEF RetriesEnd, TypeOK

\* A file of the bundle that is right is there.
LEMMA RightIsThere ==
    ASSUME NEW f \in Files, NEW c, Right(f, c)
    PROVE  c # None
  BY NamedType, NoneAssumption DEF Right, NoneAssumption

\* What has the right length and the right blocks is right.
LEMMA AllBlocks ==
    ASSUME NEW f \in Files, NEW c \in Seq(Nat), Len(c) = Length[f],
           \A j \in 1 .. Len(c) : c[j] = j
    PROVE  Right(f, c)
  <1>1. Named(f) \in Seq(Nat) /\ Length[f] \in Nat
    BY NamedType, BundleAssumption DEF BundleAssumption
  <1>2. Len(Named(f)) = Length[f] /\ \A j \in 1 .. Length[f] : Named(f)[j] = j
    BY <1>1 DEF Named
  <1> QED BY <1>1, <1>2 DEF Right

\* A run that fails leaves what the files allow for: either the count starts anew,
\* or the file it was at was taken out of the way.
LEMMA FailureLeaves ==
    ASSUME IInv, RInv, NEW i \in Installers, pc[i] # "idle", ~shared[i], honest[i], Quarantine(i)
    PROVE  /\ tries' = tries + 1
           /\ \E p \in 1 .. Len(Bundle) : Spared(p)'
  <1> DEFINE f == File(i)
  <1>1. AloneRun(i) /\ ServedRun(i) /\ TypeOK
    BY DEF IInv, Alone, RInv
  <1>2. f \in Files /\ k[i] \in 1 .. Len(Bundle) /\ f = Bundle[k[i]] /\ tries \in Nat
    BY <1>1, FileType DEF TypeOK, File
  <1>3. tries' = tries + 1
    BY DEF Quarantine
  <1>p. PICK p \in 1 .. Len(Bundle) : p = k[i]
    BY <1>2
  <1>4. \A n \in 1 .. p - 1 : Right(Bundle[n], target[Bundle[n]])
    BY <1>1, <1>p DEF AloneRun
  <1>5. CASE pc[i] = "badTarget"
    <2>1. ~Right(f, target[f]) /\ tries <= 2 * k[i] - 2
      BY <1>1, <1>5 DEF ServedRun
    <2>2. target' = [target EXCEPT ![f] = None] /\ part' = part
      BY <1>5 DEF Quarantine
    <2>3. target'[f] = None
      BY <1>1, <1>2, <2>2 DEF TypeOK
    <2>4. \A n \in 1 .. p - 1 : Right(Bundle[n], target'[Bundle[n]])
      <3> SUFFICES ASSUME NEW n \in 1 .. p - 1 PROVE Right(Bundle[n], target'[Bundle[n]])
        OBVIOUS
      <3>1. Right(Bundle[n], target[Bundle[n]])
        BY <1>4
      <3>2. Bundle[n] # f
        BY <2>1, <3>1
      <3> QED BY <1>1, <2>2, <3>1, <3>2 DEF TypeOK
    <2>5. Room(p)' >= 1 /\ Room(p)' \in Nat
      BY <1>2, <1>p, <2>3 DEF Room
    <2>6. tries' <= 2 * (p - 1) + Room(p)'
      BY <1>2, <1>p, <1>3, <2>1, <2>5
    <2>7. Spared(p)'
      BY <2>4, <2>6 DEF Spared
    <2> QED BY <1>2, <1>3, <2>7
  <1>6. CASE pc[i] = "badPart"
    <2>1. target[f] = None /\ tries <= 2 * k[i] - 1
      BY <1>1, <1>6 DEF ServedRun
    <2>2. target' = target /\ part' = [part EXCEPT ![f] = None]
      BY <1>6 DEF Quarantine
    <2>3. Room(p)' = 2
      BY <1>1, <1>2, <1>p, <2>1, <2>2 DEF Room, TypeOK
    <2>4. tries' <= 2 * (p - 1) + Room(p)'
      BY <1>2, <1>p, <1>3, <2>1, <2>3
    <2>5. Spared(p)'
      BY <1>4, <2>2, <2>4 DEF Spared
    <2> QED BY <1>2, <1>3, <2>5
  <1> QED BY <1>5, <1>6 DEF Quarantine

\* Served as it should be, a run that is alone fails in no other way.
LEMMA NoOtherFailure ==
    ASSUME SizesRight, IInv, RInv, NEW i \in Installers, pc[i] # "idle", ~shared[i], honest'[i],
           honest'[i] => honest[i]
    PROVE  ~Reject(i) /\ ~Incomplete(i) /\ ~InstallGone(i) /\ ~NoPlace(i)
  <1> DEFINE f == File(i)
  <1>1. AloneRun(i) /\ ServedRun(i) /\ TypeOK
    BY DEF IInv, Alone, RInv
  <1>2. f \in Files /\ Length[f] \in Nat \ {0} /\ Size[f] = Length[f] /\ resume[i] \in Nat
    BY <1>1, FileType, BundleAssumption DEF TypeOK, BundleAssumption, SizesRight
  <1>3. ~Reject(i)
    <2> SUFFICES ASSUME Reject(i) PROVE FALSE
      OBVIOUS
    <2>1. PICK a \in Answers(i) : (~Acceptable(i, a) \/ ~dir) /\ Judge(i, a)
      BY DEF Reject
    <2>2. pc[i] = "request" /\ dir
      BY <1>1 DEF Reject, ServedRun
    <2>3. a \in HonestAnswers(f, resume[i])
      BY <2>1, <1>1 DEF Judge, TypeOK
    <2>4. CASE resume[i] > 0
      <3>1. resume[i] <= Length[f]
        BY <1>1, <1>2, <2>2, <2>4 DEF ServedRun
      <3>2. a.status = 206 /\ a.from = resume[i] /\ a.body = Rest(f, resume[i])
        BY <2>3, <2>4, <3>1 DEF HonestAnswers
      <3>3. Len(a.body) = Length[f] - resume[i]
        BY <1>2, <3>1, <3>2, RestParts
      <3> QED BY <1>2, <2>1, <2>2, <2>4, <3>2, <3>3 DEF Acceptable
    <2>5. CASE ~(resume[i] > 0)
      <3>1. a.status = 200 /\ a.body = Rest(f, 0)
        BY <2>3, <2>5 DEF HonestAnswers
      <3>2. Len(a.body) = Length[f] - 0
        <4>1. 0 \in Nat /\ 0 <= Length[f]
          BY <1>2
        <4> QED BY <1>2, <3>1, <4>1, RestParts
      <3> QED BY <1>2, <2>1, <2>2, <3>1, <3>2 DEF Acceptable
    <2> QED BY <2>4, <2>5
  <1>4. ~Incomplete(i)
    BY <1>1, <1>2 DEF Incomplete, ServedRun
  <1>5. ~InstallGone(i)
    BY <1>1 DEF InstallGone, ServedRun
  <1>6. ~NoPlace(i)
    BY <1>1 DEF NoPlace, ServedRun
  <1> QED BY <1>3, <1>4, <1>5, <1>6

\* Looking at the next file.
LEMMA ServedCheck ==
    ASSUME SizesRight, IInv, NEW i \in Installers, AloneRun(i), ServedRun(i),
           Reuse(i) \/ Distrust(i) \/ Ask(i)
    PROVE  ServedRun(i)'
  <1> DEFINE f == File(i)
             N == Len(Bundle)
  <1>1. TypeOK
    BY DEF IInv
  <1>2. /\ f \in Files /\ f = Bundle[k[i]] /\ k[i] \in 1 .. N /\ N \in Nat /\ tries \in Nat
        /\ \A p \in 1 .. N : Bundle[p] \in Files
    <2>1. \A p \in 1 .. N : Bundle[p] \in Files
      BY DEF Files
    <2> QED BY <1>1, <2>1, FileType, BundleAssumption DEF BundleAssumption, TypeOK, File
  <1>3. pc[i] = "check" /\ tries' = tries /\ target' = target /\ part' = part
    BY DEF Reuse, Distrust, Ask, disk, judged
  <1>4. PICK p \in k[i] .. N : Spared(p)
    BY <1>3 DEF ServedRun
  \* The failures so far are due to this file, unless it is right.
  <1>5. p = k[i] \/ Right(f, target[f])
    <2>1. p # k[i] => k[i] \in 1 .. p - 1
      BY <1>2
    <2> QED BY <1>2, <1>4, <2>1 DEF Spared
  <1>6. CASE Reuse(i)
    <2>1. dir' = dir /\ out' = out
      BY <1>6 DEF Reuse, disk
    <2>2. CASE k[i] = N
      <3>1. p = k[i]
        BY <1>2, <2>2
      <3>2. Room(p) = 0
        BY <1>2, <1>6, <3>1 DEF Reuse, Room
      <3>3. tries <= 2 * k[i]
        BY <1>2, <1>4, <3>1, <3>2 DEF Spared
      <3>4. pc'[i] = "manifest" /\ k' = k
        BY <1>1, <1>6, <2>2 DEF Reuse, NextFile, Goto, TypeOK
      <3> QED BY <1>3, <2>1, <3>3, <3>4 DEF ServedRun
    <2>3. CASE k[i] # N
      <3>1. pc'[i] = "check" /\ k'[i] = k[i] + 1
        BY <1>1, <1>6, <2>3 DEF Reuse, NextFile, Goto, TypeOK
      <3>2. CASE p = k[i]
        <4>1. Room(p) = 0
          BY <1>2, <1>6, <3>2 DEF Reuse, Room
        <4>2. tries <= 2 * (p - 1)
          BY <1>2, <1>4, <4>1 DEF Spared
        <4>3. \A n \in 1 .. (p + 1) - 1 : Right(Bundle[n], target[Bundle[n]])
          <5>1. \A n \in 1 .. (p + 1) - 1 : n \in 1 .. p - 1 \/ n = p
            BY <1>2
          <5>2. Right(Bundle[p], target[Bundle[p]])
            BY <1>2, <1>6, <3>2 DEF Reuse
          <5> QED BY <1>4, <5>1, <5>2 DEF Spared
        <4>4. Room(p + 1) \in Nat
          BY DEF Room
        <4>5. tries <= 2 * ((p + 1) - 1) + Room(p + 1)
          BY <1>2, <4>2, <4>4
        <4>6. Spared(p + 1)
          BY <4>3, <4>5 DEF Spared
        <4>7. Spared(p + 1)' /\ p + 1 \in k'[i] .. N
          BY <1>2, <1>3, <2>3, <3>1, <3>2, <4>6 DEF Spared, Room
        <4> QED BY <1>3, <2>1, <3>1, <4>7 DEF ServedRun
      <3>3. CASE p # k[i]
        <4>1. Spared(p)' /\ p \in k'[i] .. N
          BY <1>2, <1>3, <1>4, <3>1, <3>3 DEF Spared, Room
        <4> QED BY <1>3, <2>1, <3>1, <4>1 DEF ServedRun
      <3> QED BY <3>2, <3>3
    <2> QED BY <2>2, <2>3
  <1>7. CASE Distrust(i)
    <2>1. p = k[i] /\ ~Right(f, target[f])
      BY <1>5, <1>7 DEF Distrust
    <2>2. Room(p) = 0
      BY <1>2, <1>7, <2>1 DEF Distrust, Room
    <2>3. tries <= 2 * k[i] - 2
      BY <1>2, <1>4, <2>1, <2>2 DEF Spared
    <2>4. tries <= 2 * k[i]
      BY <1>2, <2>3
    <2>5. pc'[i] = "badTarget" /\ k' = k /\ dir' = dir
      BY <1>1, <1>7 DEF Distrust, Goto, TypeOK, disk
    <2> QED BY <1>3, <2>1, <2>3, <2>4, <2>5 DEF ServedRun, File
  <1>8. CASE Ask(i)
    <2>1. pc'[i] = "request" /\ k' = k /\ dir' /\ target[f] = None
      BY <1>1, <1>8 DEF Ask, Goto, TypeOK
    <2>2. p = k[i]
      BY <1>2, <1>5, <2>1, RightIsThere
    <2>3. tries <= 2 * (k[i] - 1) + Room(k[i]) /\ Room(k[i]) \in {1, 2}
      BY <1>2, <1>4, <2>1, <2>2 DEF Spared, Room
    <2>4. tries <= 2 * k[i]
      BY <1>2, <2>3
    <2>5. resume'[i] = LET there == IF part[f] = None THEN 0 ELSE Len(part[f])
                       IN  IF there >= Size[f] THEN 0 ELSE there
      BY <1>1, <1>8 DEF Ask, TypeOK
    <2>6. ASSUME resume'[i] > 0
          PROVE  /\ part[f] # None /\ Len(part[f]) = resume'[i]
                 /\ resume'[i] < Size[f] /\ tries <= 2 * k[i] - 1
      <3>1. part[f] # None
        BY <2>5, <2>6
      <3>2. Room(k[i]) = 1
        BY <1>2, <2>1, <3>1 DEF Room
      <3>3. part[f] \in Seq(Nat) /\ Size[f] \in Nat
        BY <1>1, <1>2, <3>1, BundleAssumption DEF TypeOK, BundleAssumption
      <3>4. Len(part[f]) = resume'[i] /\ resume'[i] < Size[f]
        BY <2>5, <2>6, <3>1, <3>3
      <3> QED BY <1>2, <2>3, <3>1, <3>2, <3>4
    <2> QED BY <1>3, <2>1, <2>4, <2>6 DEF ServedRun, File
  <1> QED BY <1>6, <1>7, <1>8

\* Receiving a file and installing it.
LEMMA ServedTransfer ==
    ASSUME SizesRight, IInv, NEW i \in Installers, AloneRun(i), ServedRun(i), honest'[i],
           Accept(i) \/ Write(i) \/ Received(i) \/ Verified(i) \/ Install(i)
    PROVE  ServedRun(i)'
  <1> DEFINE f == File(i)
             N == Len(Bundle)
             c == part[f]
  <1>1. TypeOK
    BY DEF IInv
  <1>2. /\ f \in Files /\ f = Bundle[k[i]] /\ k[i] \in 1 .. N /\ N \in Nat /\ tries \in Nat
        /\ Length[f] \in Nat \ {0} /\ Size[f] = Length[f] /\ resume[i] \in Nat
        /\ \A p \in 1 .. N : Bundle[p] \in Files
    <2>1. \A p \in 1 .. N : Bundle[p] \in Files
      BY DEF Files
    <2> QED BY <1>1, <2>1, FileType, BundleAssumption DEF BundleAssumption, TypeOK, File, SizesRight
  <1>3. tries' = tries /\ dir' = dir /\ dir
    BY DEF Accept, Write, Received, Verified, Install, disk, judged, ServedRun
  <1>4. c # None => c \in Seq(Nat)
    BY <1>1, <1>2 DEF TypeOK
  <1>r. ASSUME NEW from \in Nat, from <= Length[f]
        PROVE  /\ Len(Rest(f, from)) = Length[f] - from
               /\ Rest(f, from) = <<>> => from = Length[f]
               /\ Rest(f, from) # <<>> =>
                      /\ from + 1 <= Length[f] /\ Head(Rest(f, from)) = from + 1
                      /\ Tail(Rest(f, from)) = Rest(f, from + 1)
    <2> HIDE DEF f
    <2> QED BY <1>2, <1>r, RestParts
  <1>w. ASSUME c # None, NEW b \in Nat
        PROVE  /\ Len(Written(c, AppendPos, b)) = Len(c) + 1
               /\ Len(Written(c, Len(c) + 1, b)) = Len(c) + 1
               /\ \A j \in 1 .. Len(c) + 1 :
                      Written(c, Len(c) + 1, b)[j] = IF j = Len(c) + 1 THEN b ELSE c[j]
    <2>1. c \in Seq(Nat)
      BY <1>4, <1>w
    <2> HIDE DEF c
    <2> QED BY <2>1, WrittenNext
  <1>5. CASE Accept(i)
    <2>1. pc[i] = "request" /\ pc'[i] = "write" /\ k' = k /\ target' = target
      BY <1>1, <1>5 DEF Accept, Goto, TypeOK
    <2>2. PICK a \in Answers(i) :
            /\ Judge(i, a)
            /\ body' = [body EXCEPT ![i] = a.body]
            /\ IF a.status = 206
               THEN /\ out' = [out EXCEPT ![i] = [at |-> "part", pos |-> AppendPos]]
                    /\ part' = [part EXCEPT ![f] = IF @ = None THEN <<>> ELSE @]
               ELSE /\ out' = [out EXCEPT ![i] = [at |-> "part", pos |-> 1]]
                    /\ part' = [part EXCEPT ![f] = <<>>]
      BY ZenonT(60), <1>5 DEF Accept
    <2>3. a \in HonestAnswers(f, resume[i]) /\ body'[i] = a.body
      BY <1>1, <2>2 DEF Judge, TypeOK
    <2>4. CASE resume[i] > 0
      <3>1. c # None /\ Len(c) = resume[i] /\ resume[i] < Length[f] /\ tries <= 2 * k[i] - 1
        BY <1>2, <2>1, <2>4 DEF ServedRun
      <3>2. a.status = 206 /\ a.body = Rest(f, resume[i])
        BY <1>2, <2>3, <2>4, <3>1 DEF HonestAnswers
      <3>3. Len(a.body) = Length[f] - resume[i]
        <4>1. resume[i] <= Length[f]
          BY <1>2, <3>1
        <4> QED BY <1>2, <3>2, <4>1, <1>r
      <3>4. out'[i] = [at |-> "part", pos |-> AppendPos] /\ part'[f] = c
        BY <1>1, <1>2, <2>2, <3>1, <3>2 DEF TypeOK
      <3>5. Len(c) + Len(body'[i]) = Length[f]
        BY <1>2, <2>3, <3>1, <3>3
      <3>6. Resumed(i)'
        <4>0. Len(part'[f]) + Len(body'[i]) = Len(c) + Len(body'[i])
          BY <3>4
        <4>3. Len(part'[f]) + Len(body'[i]) = Length[f]
          BY <3>5, <4>0, Zenon
        <4>4. out'[i].pos = AppendPos
          BY <3>4
        <4>1. out'[i].pos = AppendPos /\ Len(part'[f]) + Len(body'[i]) = Length[f]
          BY <4>3, <4>4, Zenon
        <4>2. tries' <= 2 * k'[i] - 1 /\ f = File(i)'
          BY <1>3, <2>1, <3>1 DEF File
        <4> HIDE DEF f
        <4> QED BY <4>1, <4>2 DEF Resumed
      <3> QED BY <1>3, <2>1, <3>4, <3>6 DEF ServedRun, File
    <2>5. CASE ~(resume[i] > 0)
      <3>1. a.status = 200 /\ a.body = Rest(f, 0)
        BY <1>2, <2>3, <2>5 DEF HonestAnswers
      <3>2. out'[i] = [at |-> "part", pos |-> 1] /\ part'[f] = <<>>
        BY <1>1, <1>2, <2>2, <3>1 DEF TypeOK
      <3>3. Len(part'[f]) = 0
        BY <3>2
      <3>4. Fresh(i)'
        BY <1>2, <2>1, <2>3, <3>1, <3>2, <3>3 DEF Fresh, File
      <3> QED BY <1>3, <2>1, <3>2, <3>4 DEF ServedRun, File
    <2> QED BY <2>4, <2>5
  <1>6. CASE Write(i)
    <2>1. /\ pc[i] = "write" /\ pc'[i] = "write" /\ k' = k /\ body[i] # <<>> /\ body[i] \in Seq(Nat)
          /\ body'[i] = Tail(body[i]) /\ out[i].at = "part" /\ out'[i].at = "part"
          /\ out'[i].pos = IF out[i].pos = AppendPos THEN AppendPos ELSE out[i].pos + 1
      BY <1>1, <1>6 DEF Write, ServedRun, TypeOK
    <2>2. c # None /\ target[f] = None /\ target' = target
      BY <1>6, <2>1 DEF Write, IInv, Handles, ServedRun
    <2>3. part'[f] = Written(c, out[i].pos, Head(body[i])) /\ Head(body[i]) \in Nat
          /\ Len(Tail(body[i])) = Len(body[i]) - 1
      BY <1>1, <1>2, <1>6, <2>1 DEF Write, TypeOK
    <2>4. CASE Fresh(i)
      <3>1. Len(c) \in Nat /\ Len(c) <= Length[f] /\ out[i].pos = Len(c) + 1
            /\ body[i] = Rest(f, Len(c)) /\ \A j \in 1 .. Len(c) : c[j] = j
        BY <1>4, <2>2, <2>4 DEF Fresh
      <3>2. Len(c) + 1 <= Length[f] /\ Head(body[i]) = Len(c) + 1 /\ body'[i] = Rest(f, Len(c) + 1)
        BY <1>2, <2>1, <3>1, <1>r
      <3>3. /\ Len(part'[f]) = Len(c) + 1
            /\ \A j \in 1 .. Len(c) + 1 : part'[f][j] = IF j = Len(c) + 1 THEN Len(c) + 1 ELSE c[j]
        BY <2>2, <2>3, <3>1, <3>2, <1>w
      <3>4. \A j \in 1 .. Len(part'[f]) : part'[f][j] = j
        BY <3>1, <3>3
      <3>5. out'[i].pos = Len(part'[f]) + 1
        BY <2>1, <3>1, <3>3 DEF AppendPos
      <3>6. Fresh(i)'
        BY <2>1, <3>2, <3>3, <3>4, <3>5 DEF Fresh, File
      <3> QED BY <1>3, <2>1, <2>2, <3>6 DEF ServedRun, File
    <2>5. CASE Resumed(i)
      <3>1. out[i].pos = AppendPos /\ Len(c) + Len(body[i]) = Length[f] /\ tries <= 2 * k[i] - 1
        BY <2>5 DEF Resumed
      <3>2. Len(part'[f]) = Len(c) + 1
        BY <2>2, <2>3, <3>1, <1>w
      <3>3. Len(part'[f]) + Len(body'[i]) = Length[f]
        <4>1. Len(c) \in Nat /\ Len(body[i]) \in Nat /\ Len(body'[i]) = Len(body[i]) - 1
          BY <1>4, <2>1, <2>2, <2>3
        <4>2. PICK m \in Nat, n \in Nat : m = Len(c) /\ n = Len(body[i])
          BY <4>1
        <4>3. Len(part'[f]) = m + 1 /\ Len(body'[i]) = n - 1 /\ m + n = Length[f]
          BY <3>1, <3>2, <4>1, <4>2
        <4>4. (m + 1) + (n - 1) = m + n
          OBVIOUS
        <4> QED BY <4>3, <4>4
      <3>4. Resumed(i)'
        BY <1>3, <2>1, <3>1, <3>3 DEF Resumed, File
      <3> QED BY <1>3, <2>1, <2>2, <3>4 DEF ServedRun, File
    <2> QED BY <2>1, <2>4, <2>5 DEF ServedRun
  <1>7. CASE Received(i)
    <2>1. pc[i] = "write" /\ pc'[i] = "verify" /\ k' = k /\ body[i] = <<>> /\ target' = target /\ part' = part
          /\ out[i].at = "part"
      BY <1>1, <1>7 DEF Received, Goto, TypeOK, disk, ServedRun
    <2>2. c # None /\ target[f] = None
      BY <2>1 DEF IInv, Handles, ServedRun
    <2>3. Len(c) = Length[f] /\ (Right(f, c) \/ tries <= 2 * k[i] - 1)
      <3>1. CASE Fresh(i)
        <4>1. Len(c) = Length[f]
          BY <1>2, <1>4, <2>1, <2>2, <3>1, <1>r DEF Fresh
        <4> QED BY <1>2, <1>4, <2>2, <3>1, <4>1, AllBlocks DEF Fresh
      <3>2. CASE Resumed(i)
        BY <1>2, <1>4, <2>1, <2>2, <3>2 DEF Resumed
      <3> QED BY <2>1, <3>1, <3>2 DEF ServedRun
    <2> QED BY <1>3, <2>1, <2>2, <2>3 DEF ServedRun, File
  <1>8. CASE Verified(i)
    <2>1. /\ pc[i] = "verify" /\ k' = k /\ target' = target /\ part' = part /\ c # None
          /\ pc'[i] = IF Right(f, c) THEN "rename" ELSE "badPart"
      BY <1>1, <1>8 DEF Verified, Goto, TypeOK, disk
    <2>2. target[f] = None /\ (Right(f, c) \/ tries <= 2 * k[i] - 1) /\ tries <= 2 * k[i]
      BY <2>1 DEF ServedRun
    <2> QED BY <1>3, <2>1, <2>2 DEF ServedRun, File
  <1>9. CASE Install(i)
    <2>1. /\ pc[i] = "rename" /\ target' = [target EXCEPT ![f] = c]
          /\ Right(f, c) /\ tries <= 2 * k[i]
      BY <1>9 DEF Install, AloneRun, ServedRun
    <2>2. CASE k[i] = N
      <3>1. pc'[i] = "manifest" /\ k' = k
        BY <1>1, <1>9, <2>2 DEF Install, NextFile, Goto, TypeOK
      <3> QED BY <1>3, <2>1, <3>1 DEF ServedRun
    <2>3. CASE k[i] # N
      <3>1. pc'[i] = "check" /\ k'[i] = k[i] + 1
        BY <1>1, <1>9, <2>3 DEF Install, NextFile, Goto, TypeOK
      <3>2. PICK p \in 1 .. N : p = k[i] + 1
        BY <1>2, <2>3
      <3>3. \A n \in 1 .. p - 1 : Right(Bundle[n], target'[Bundle[n]])
        <4> SUFFICES ASSUME NEW n \in 1 .. p - 1 PROVE Right(Bundle[n], target'[Bundle[n]])
          OBVIOUS
        <4>1. Bundle[n] \in Files /\ (n \in 1 .. k[i] - 1 \/ n = k[i])
          BY <1>2, <3>2
        <4>2. CASE Bundle[n] = f
          BY <1>1, <1>2, <2>1, <4>2 DEF TypeOK
        <4>3. CASE Bundle[n] # f
          <5>1. n \in 1 .. k[i] - 1
            BY <1>2, <4>1, <4>3
          <5>2. target'[Bundle[n]] = target[Bundle[n]]
            BY <1>1, <2>1, <4>1, <4>3 DEF TypeOK
          <5> QED BY <5>1, <5>2 DEF AloneRun
        <4> QED BY <4>2, <4>3
      <3>4. Room(p)' \in Nat
        BY DEF Room
      <3>5. tries' <= 2 * (p - 1) + Room(p)'
        BY <1>2, <1>3, <2>1, <3>2, <3>4
      <3>6. Spared(p)' /\ p \in k'[i] .. N
        BY <1>2, <3>1, <3>2, <3>3, <3>5 DEF Spared
      <3> QED BY <1>3, <3>1, <3>6 DEF ServedRun
    <2> QED BY <2>2, <2>3
  <1> QED BY <1>5, <1>6, <1>7, <1>8, <1>9

\* Every step keeps the account of failures.
LEMMA RetryStep ==
    ASSUME SizesRight
    PROVE  IInv /\ RInv /\ [Next]_vars => RInv'
  <1> SUFFICES ASSUME IInv, RInv, [Next]_vars PROVE RInv'
    OBVIOUS
  <1>t. TypeOK /\ Handles /\ Alone /\ TypeOK'
    BY TypeStep DEF IInv
  <1>z. tries' = 0 => RetriesEnd' /\ (\E p \in 1 .. Len(Bundle) : Spared(p))'
    <2>1. (tries = 0 => \E p \in 1 .. Len(Bundle) : Spared(p))'
      BY NoFailure, PTL
    <2>2. (TypeOK /\ (\E p \in 1 .. Len(Bundle) : Spared(p)) => RetriesEnd)'
      BY FailuresBound, PTL
    <2> QED BY <1>t, <2>1, <2>2
  <1>b. (\E p \in 1 .. Len(Bundle) : Spared(p))' => RetriesEnd'
    <2>1. (TypeOK /\ (\E p \in 1 .. Len(Bundle) : Spared(p)) => RetriesEnd)'
      BY FailuresBound, PTL
    <2> QED BY <1>t, <2>1
  \* A step that changes nothing this account speaks of.
  <1>u. ASSUME UNCHANGED <<disk, run, shared, honest, tries>> PROVE RInv'
    <2>1. \A p \in 1 .. Len(Bundle) : Spared(p) => Spared(p)'
      BY <1>u DEF disk, Spared, Room
    <2>2. ASSUME NEW i \in Installers, ServedRun(i) PROVE ServedRun(i)'
      <3>1. /\ \A p \in k[i] .. Len(Bundle) : Spared(p) => Spared(p)'
            /\ UNCHANGED <<File(i), target, part, dir, pc, k, resume, body, out, tries>>
        BY <1>u DEF disk, run, Spared, Room, File
      <3>2. (Fresh(i) => Fresh(i)') /\ (Resumed(i) => Resumed(i)')
        BY <3>1 DEF Fresh, Resumed
      <3> QED BY <2>2, <3>1, <3>2 DEF ServedRun
    <2> QED BY <1>u, <2>1, <2>2 DEF disk, run, RInv, RetriesEnd
  <1>1. CASE UNCHANGED vars
    BY <1>1, <1>u DEF vars, judged
  <1>2. CASE Remove
    <2>1. tries' = 0 /\ pc' = pc /\ \A i \in Installers : pc[i] # "idle" => shared'[i]
      BY <1>2, <1>t DEF Remove, Active, TypeOK
    <2> QED BY <1>z, <2>1 DEF RInv
  <1>3. ASSUME NEW i \in Installers, Run(i) PROVE RInv'
    <2>o. pc[i] # "idle" => \A j \in Installers \ {i} : pc[j] = "idle" \/ shared[j]
      BY <1>t DEF Alone, AloneRun
    \* A run that goes on.
    <2>g. ASSUME pc[i] # "idle", pc'[i] # "idle", tries' = tries, shared' = shared,
                 \A j \in Installers \ {i} : pc'[j] = pc[j],
                 honest'[i] => honest[i],
                 ~shared[i] /\ honest[i] /\ honest'[i] /\ AloneRun(i) /\ ServedRun(i) => ServedRun(i)'
          PROVE  RInv'
      <3>1. \A j \in Installers \ {i} : pc'[j] = "idle" \/ shared'[j]
        BY <2>g, <2>o
      <3>2. ~shared'[i] /\ honest'[i] => ServedRun(i)'
        BY <2>g, <1>t DEF Alone, RInv
      <3> QED BY <2>g, <3>1, <3>2 DEF RInv, RetriesEnd
    \* A run that ends.
    <2>e. ASSUME pc[i] # "idle", pc' = [pc EXCEPT ![i] = "idle"], shared' = shared,
                 tries' = 0 \/ (\E p \in 1 .. Len(Bundle) : Spared(p))'
          PROVE  RInv'
      <3>1. \A j \in Installers : pc'[j] = "idle" \/ shared'[j]
        BY <2>e, <2>o, <1>t DEF TypeOK
      <3> QED BY <1>b, <1>z, <2>e, <3>1 DEF RInv
    <2>1. CASE NothingMissing(i)
      BY <2>1, <1>u DEF NothingMissing
    <2>2. CASE Begin(i)
      <3>1. /\ pc[i] = "idle" /\ pc' = [pc EXCEPT ![i] = "check"] /\ dir' /\ k' = k
            /\ target' = target /\ part' = part /\ tries' = tries
            /\ shared' = [j \in Installers |-> IF j = i THEN Active # {} ELSE shared[j] \/ j \in Active]
        BY <2>2 DEF Begin, Goto
      <3>2. pc'[i] = "check" /\ \A j \in Installers \ {i} : pc'[j] # "idle" => shared'[j]
        BY <1>t, <3>1 DEF Active, TypeOK
      <3>3. ASSUME ~shared'[i] PROVE ServedRun(i)'
        <4>1. \A j \in Installers : pc[j] = "idle"
          BY <3>1, <3>3 DEF Active
        <4>2. PICK p \in 1 .. Len(Bundle) : Spared(p)
          BY <4>1 DEF RInv
        <4>3. Spared(p)' /\ p \in k'[i] .. Len(Bundle)
          BY <1>t, <3>1, <4>2 DEF Spared, Room, Handles
        <4> QED BY <3>1, <3>2, <4>3 DEF ServedRun
      <3>4. ~(\A j \in Installers : pc'[j] = "idle")
        BY <3>2
      <3> QED BY <3>1, <3>2, <3>3, <3>4 DEF RInv, RetriesEnd
    <2>3. CASE Reuse(i) \/ Distrust(i) \/ Ask(i)
      <3>1. /\ pc[i] # "idle" /\ pc'[i] # "idle" /\ tries' = tries /\ shared' = shared /\ honest' = honest
            /\ \A j \in Installers \ {i} : pc'[j] = pc[j]
        BY <2>3, <1>t DEF Reuse, Distrust, Ask, NextFile, Goto, judged, TypeOK
      <3>2. AloneRun(i) /\ ServedRun(i) => ServedRun(i)'
        BY <2>3, ServedCheck
      <3> QED BY <2>g, <3>1, <3>2
    <2>4. CASE Accept(i) \/ Write(i) \/ Received(i) \/ Verified(i) \/ Install(i)
      <3>1. /\ pc[i] # "idle" /\ pc'[i] # "idle" /\ tries' = tries /\ shared' = shared
            /\ \A j \in Installers \ {i} : pc'[j] = pc[j]
        BY <2>4, <1>t DEF Accept, Write, Received, Verified, Install, NextFile, Goto, judged, TypeOK
      <3>2. honest'[i] => honest[i]
        <4>1. CASE Accept(i)
          BY <4>1, <1>t DEF Accept, Judge, TypeOK
        <4>2. CASE Write(i) \/ Received(i) \/ Verified(i) \/ Install(i)
          BY <4>2 DEF Write, Received, Verified, Install, judged
        <4> QED BY <2>4, <4>1, <4>2
      <3>3. honest'[i] /\ AloneRun(i) /\ ServedRun(i) => ServedRun(i)'
        BY <2>4, ServedTransfer
      <3> QED BY <2>g, <3>1, <3>2, <3>3
    <2>5. CASE Reject(i) \/ Incomplete(i) \/ InstallGone(i) \/ NoPlace(i)
      <3>1. /\ pc[i] # "idle" /\ pc' = [pc EXCEPT ![i] = "idle"] /\ shared' = shared
            /\ tries' = IF honest'[i] /\ ~shared[i] THEN tries + 1 ELSE 0
        BY <2>5 DEF Reject, Incomplete, InstallGone, NoPlace, Refuse, Over
      <3>2. honest'[i] => honest[i]
        <4>1. CASE Reject(i)
          BY <4>1, <1>t DEF Reject, Judge, TypeOK
        <4>2. CASE Incomplete(i) \/ InstallGone(i) \/ NoPlace(i)
          BY <4>2 DEF Incomplete, InstallGone, NoPlace, Refuse
        <4> QED BY <2>5, <4>1, <4>2
      <3>3. ~(honest'[i] /\ ~shared[i])
        BY <2>5, <3>1, <3>2, NoOtherFailure
      <3> QED BY <2>e, <3>1, <3>3
    <2>6. CASE Quarantine(i)
      <3>1. /\ pc[i] # "idle" /\ pc' = [pc EXCEPT ![i] = "idle"] /\ shared' = shared
            /\ tries' = IF honest[i] /\ ~shared[i] THEN tries + 1 ELSE 0
        BY <2>6 DEF Quarantine, Over
      <3>2. honest[i] /\ ~shared[i] => \E p \in 1 .. Len(Bundle) : Spared(p)'
        BY <2>6, <3>1, FailureLeaves
      <3> QED BY <2>e, <3>1, <3>2
    <2>7. CASE Finish(i) \/ Abort(i)
      <3>1. pc[i] # "idle" /\ pc' = [pc EXCEPT ![i] = "idle"] /\ shared' = shared /\ tries' = 0
        BY <2>7 DEF Finish, Abort, Over
      <3> QED BY <2>e, <3>1
    <2> QED
      BY <1>3, <2>1, <2>2, <2>3, <2>4, <2>5, <2>6, <2>7 DEF Run
  <1> QED BY <1>1, <1>2, <1>3 DEF Next

\* Where the manifest gives the sizes of the files it names, the runs that fail one
\* after the other, alone and served as they should be, are at most two for every
\* file, whatever earlier runs left on the disk and however many processes there are: each
\* failure takes its cause away.
THEOREM FewRetries == SizesRight => (Spec => []RetriesEnd)
  <1> SUFFICES ASSUME SizesRight PROVE Spec => []RetriesEnd
    OBVIOUS
  <1>1. Init => RInv
    <2> SUFFICES ASSUME Init PROVE RInv
      OBVIOUS
    <2>1. tries = 0 /\ \A i \in Installers : pc[i] = "idle"
      BY DEF Init
    <2>2. TypeOK
      BY InitInv DEF IInv
    <2> QED BY <2>1, <2>2, NoFailure, FailuresBound DEF RInv
  <1>2. IInv /\ RInv /\ [Next]_vars => RInv'
    BY RetryStep
  <1>3. RInv => RetriesEnd
    BY DEF RInv
  <1> QED BY <1>1, <1>2, <1>3, Inductive, PTL DEF Spec
=============================================================================
