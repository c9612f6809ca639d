--------------------------- MODULE Speech_proofs ---------------------------
(***************************************************************************)
(* What the program hears and what it says.                                *)
(*                                                                         *)
(* Of Playback: that the flag tells the truth, and that texts are spoken   *)
(* in their order and accounted for, for any number of texts, operations   *)
(* and events.                                                             *)
(*                                                                         *)
(* Of SpeechGate: that speech is kept, that nothing else is sent, and that *)
(* a window is one utterance, for all durations, chunks and pauses. The    *)
(* invariant GInv says what each state of the gate means in terms of the   *)
(* chunks received alone: since when there is sound, or silence, and which *)
(* of these chunks are held.                                               *)
(***************************************************************************)
EXTENDS Playback, SpeechGate, FiniteSetTheorems, WellFoundedInduction, TLAPS

\* The records of the operations.
Works == [pc : {"idle", "sync", "store"}, want : BOOLEAN, ok : BOOLEAN, stale : BOOLEAN]

LEMMA SyncedType ==
    ASSUME TypeOK, NEW t \in Threads, NEW ok \in BOOLEAN, Synced(t, ok)
    PROVE  work' \in [Threads -> Works]
  <1>1. [work[t] EXCEPT !.pc = "store", !.ok = ok] \in Works
    BY DEF TypeOK, Works
  <1>2. \A u \in Threads : [work[u] EXCEPT !.stale = @ \/ work[u].pc = "store"] \in Works
    <2> SUFFICES ASSUME NEW u \in Threads PROVE [work[u] EXCEPT !.stale = @ \/ work[u].pc = "store"] \in Works
      OBVIOUS
    <2>1. work[u] \in Works
      BY DEF TypeOK, Works
    <2>2. (work[u].stale \/ work[u].pc = "store") \in BOOLEAN
      OBVIOUS
    <2> QED BY <2>1, <2>2 DEF Works
  <1> QED BY <1>1, <1>2 DEF Synced

LEMMA ReceivedType ==
    ASSUME TypeOK, Received
    PROVE  rx' \in Seq(Nat) /\ pending' \in Seq(Nat) /\ Command \in Nat
  <1>1. \A s \in Seq(Nat) : s # <<>> => Head(s) \in Nat /\ Tail(s) \in Seq(Nat)
    OBVIOUS
  <1>2. rx \in Seq(Nat) /\ pending \in Seq(Nat)
    BY DEF TypeOK
  <1>3. CASE pending # <<>>
    BY <1>1, <1>2, <1>3 DEF Received, Command
  <1>4. CASE pending = <<>>
    BY <1>1, <1>2, <1>4 DEF Received, Command
  <1> QED BY <1>3, <1>4

LEMMA InitType == Init => TypeOK
  <1> SUFFICES ASSUME Init PROVE TypeOK
    OBVIOUS
  <1>1. work \in [Threads -> Works]
    BY DEF Init, Idle, Works
  <1>2. <<>> \in Seq(Nat)
    OBVIOUS
  <1>3. active \in {"vmic", "speaker", "lost"}
    BY DEF Init, Sinks
  <1> QED BY <1>1, <1>2, <1>3, PlaybackAssumption DEF Init, TypeOK, Works

LEMMA TypeStep == TypeOK /\ [Next]_vars => TypeOK'
  <1> SUFFICES ASSUME TypeOK, [Next]_vars PROVE TypeOK'
    OBVIOUS
  <1> USE DEF TypeOK
  <1>1. CASE UNCHANGED vars
    BY <1>1 DEF vars, threadVars, switchVars, otherVars
  <1>2. CASE ThreadStep
    <2>1. CASE CheckHealth
      BY <2>1 DEF CheckHealth, switchVars, otherVars
    <2>2. CASE Timeout
      BY <2>2 DEF Timeout, switchVars, otherVars
    <2>3. CASE Discard
      BY <2>3, ReceivedType DEF Discard, switchVars, otherVars
    <2>4. CASE Begin
      <3>1. Append(heard, Command) \in Seq(Nat)
        BY <2>4, ReceivedType DEF Begin
      <3> QED BY <2>4, <3>1, ReceivedType DEF Begin, switchVars, otherVars
    <2>5. CASE Complete
      BY <2>5 DEF Complete, switchVars, otherVars
    <2>6. CASE Interrupt
      BY <2>6 DEF Interrupt, switchVars, otherVars
    <2>7. CASE PollText
      <3>1. Append(pending, Head(rx)) \in Seq(Nat) /\ Tail(rx) \in Seq(Nat)
        BY <2>7 DEF PollText
      <3> QED BY <2>7, <3>1 DEF PollText, switchVars, otherVars
    <2>8. CASE PollStop
      <3>1. Tail(rx) \in Seq(Nat)
        BY <2>8 DEF PollStop
      <3> QED BY <2>8, <3>1 DEF PollStop, switchVars, otherVars
    <2>9. CASE End
      BY <2>9, ReceivedType DEF End, switchVars, otherVars
    <2> QED BY <1>2, <2>1, <2>2, <2>3, <2>4, <2>5, <2>6, <2>7, <2>8, <2>9 DEF ThreadStep
  <1>3. CASE Synthesise
    BY <1>3 DEF Synthesise, threadVars, switchVars
  <1>4. CASE Play
    <2>1. Append(rx, next) \in Seq(Nat)
      OBVIOUS
    <2>2. next + 1 \in Nat /\ thrown \union {next} \subseteq Nat
      OBVIOUS
    <2>3. rx' \in Seq(Nat) /\ thrown' \subseteq Nat
      BY <1>4, <2>1, <2>2 DEF Play
    <2> QED BY <1>4, <2>2, <2>3 DEF Play, switchVars
  <1>5. CASE DeviceEvent
    BY <1>5 DEF DeviceEvent, switchVars, otherVars
  <1>6. CASE Leave
    <2>1. Append(rx, Stop) \in Seq(Nat)
      BY DEF Stop
    <2> QED BY <1>6, <2>1 DEF Leave, switchVars, otherVars
  <1>7. ASSUME NEW t \in Threads, Switch(t) PROVE TypeOK'
    <2>1. \A want \in BOOLEAN : [Idle EXCEPT !.pc = "sync", !.want = want] \in Works
      BY DEF Idle, Works
    <2>2. work' \in [Threads -> Works]
      BY ZenonT(60), <1>7, <2>1 DEF Switch, Works
    <2> QED BY <1>7, <2>2 DEF Switch, threadVars, otherVars, Works
  <1>8. ASSUME NEW t \in Threads, SwitchStep(t) PROVE TypeOK'
    <2>1. CASE Sync(t)
      <3>1. work' \in [Threads -> Works]
        BY <2>1, SyncedType DEF Sync
      <3>2. work[t].want \in BOOLEAN
        OBVIOUS
      <3> QED BY <2>1, <3>1, <3>2 DEF Sync, threadVars, otherVars, Works
    <2>2. CASE Create(t)
      BY <2>2 DEF Create, threadVars, otherVars
    <2>3. CASE Created(t)
      <3>1. work' \in [Threads -> Works]
        BY <2>3, SyncedType DEF Created
      <3> QED BY <2>3, <3>1 DEF Created, Sinks, otherVars, Works
    <2>4. CASE NotCreated(t)
      <3>1. work' \in [Threads -> Works]
        BY <2>4, SyncedType DEF NotCreated
      <3> QED BY <2>4, <3>1 DEF NotCreated, threadVars, otherVars, Works
    <2>5. CASE Store(t)
      <3>1. work[t].want \in BOOLEAN /\ work[t].ok \in BOOLEAN /\ work[t].stale \in BOOLEAN
        OBVIOUS
      <3>2. work' \in [Threads -> Works]
        BY <2>5 DEF Store, Idle, Works
      <3> QED BY <2>5, <3>1, <3>2 DEF Store, threadVars, otherVars, Works
    <2> QED BY <1>8, <2>1, <2>2, <2>3, <2>4, <2>5 DEF SwitchStep
  <1> QED BY <1>1, <1>2, <1>3, <1>4, <1>5, <1>6, <1>7, <1>8 DEF Next

\* Type correctness of playback and its switch, for any number of texts, operations
\* and events of the device.
THEOREM TypeCorrect == Spec => []TypeOK
  BY InitType, TypeStep, PTL DEF Spec

-----------------------------------------------------------------------------
(* The flag.                                                               *)

\* The lock is held by a thread that creates the service it wants.
Locked == \A t \in Threads : lock = t => work[t].pc = "sync" /\ work[t].want /\ ~exists

\* What is about to be stored is the case, unless another thread has synced since.
StoreIsTrue ==
  \A t \in Threads : work[t].pc = "store" /\ ~work[t].stale =>
    ((work[t].want /\ work[t].ok) <=> (exists /\ enabled))

FInv == TypeOK /\ Locked /\ StoreIsTrue /\ FlagTellsTheTruth

LEMMA FlagInit == Init => FInv
  <1> SUFFICES ASSUME Init PROVE FInv
    OBVIOUS
  <1>1. Locked
    BY DEF Init, Locked, Threads
  <1>2. StoreIsTrue
    BY DEF Init, StoreIsTrue, Idle
  <1>3. FlagTellsTheTruth
    BY DEF Init, FlagTellsTheTruth
  <1> QED BY <1>1, <1>2, <1>3, InitType DEF FInv

LEMMA FlagStep == FInv /\ [Next]_vars => FInv'
  <1> SUFFICES ASSUME FInv, [Next]_vars PROVE FInv'
    OBVIOUS
  <1>0. TypeOK /\ TypeOK'
    BY TypeStep DEF FInv
  <1> USE DEF FInv
  <1>u. UNCHANGED switchVars => FInv'
    BY <1>0 DEF switchVars, Locked, StoreIsTrue, FlagTellsTheTruth
  <1>1. CASE UNCHANGED vars
    BY <1>1, <1>u DEF vars
  <1>2. CASE ThreadStep
    BY <1>2, <1>u DEF ThreadStep, CheckHealth, Timeout, Discard, Begin, Complete, Interrupt,
                      PollText, PollStop, End
  <1>3. CASE Synthesise \/ Play \/ DeviceEvent \/ Leave
    BY <1>3, <1>u DEF Synthesise, Play, DeviceEvent, Leave
  <1>4. ASSUME NEW t \in Threads, Switch(t) PROVE FInv'
    <2>1. \A u \in Threads : u # t => work'[u] = work[u]
      BY <1>0, <1>4 DEF Switch, TypeOK
    <2>2. work'[t].pc = "sync" /\ work[t].pc = "idle"
      BY <1>0, <1>4 DEF Switch, TypeOK, Idle
    <2>3. UNCHANGED <<flag, exists, enabled, lock, doubt>>
      BY <1>4 DEF Switch
    <2>4. Locked'
      BY <2>1, <2>2, <2>3 DEF Locked
    <2>5. StoreIsTrue'
      BY <2>1, <2>2, <2>3 DEF StoreIsTrue
    <2>6. FlagTellsTheTruth'
      BY <2>2 DEF FlagTellsTheTruth
    <2> QED BY <1>0, <2>4, <2>5, <2>6
  <1>s. ASSUME NEW t \in Threads, NEW ok \in BOOLEAN, Synced(t, ok), work[t].pc = "sync"
        PROVE  /\ \A u \in Threads : u # t => /\ work'[u].pc = work[u].pc
                                              /\ work'[u].want = work[u].want
                                              /\ work'[u].ok = work[u].ok
                                              /\ work'[u].pc = "store" => work'[u].stale
               /\ work'[t].pc = "store" /\ work'[t].want = work[t].want /\ work'[t].ok = ok
    <2>1. ASSUME NEW u \in Threads, u # t
          PROVE  /\ work'[u].pc = work[u].pc
                 /\ work'[u].want = work[u].want
                 /\ work'[u].ok = work[u].ok
                 /\ work'[u].pc = "store" => work'[u].stale
      <3>1. work[u] \in Works
        BY <1>0 DEF TypeOK, Works
      <3>2. work'[u] = [work[u] EXCEPT !.stale = work[u].stale \/ work[u].pc = "store"]
        BY <1>s, <2>1 DEF Synced
      <3> QED BY <3>1, <3>2 DEF Works
    <2>2. work[t] \in Works
      BY <1>0 DEF TypeOK, Works
    <2>3. work'[t] = [work[t] EXCEPT !.pc = "store", !.ok = ok]
      BY <1>s DEF Synced
    <2> QED BY <2>1, <2>2, <2>3 DEF Works
  <1>5. ASSUME NEW t \in Threads, SwitchStep(t) PROVE FInv'
    <2>1. CASE Sync(t)
      <3>1. work[t].pc = "sync" /\ Synced(t, TRUE) /\ lock = "free" /\ lock' = lock
        BY <2>1 DEF Sync
      <3>2. Locked'
        BY <3>1 DEF Locked, Threads
      <3>3. StoreIsTrue'
        <4>1. (work[t].want <=> (exists' /\ enabled'))
          BY <2>1, <1>0 DEF Sync, TypeOK
        <4> QED BY <3>1, <4>1, <1>s DEF StoreIsTrue
      <3>4. FlagTellsTheTruth'
        BY <3>1, <1>s DEF FlagTellsTheTruth
      <3> QED BY <1>0, <3>2, <3>3, <3>4
    <2>2. CASE Create(t)
      BY <2>2, <1>0 DEF Create, Locked, StoreIsTrue, FlagTellsTheTruth, Threads, TypeOK
    <2>3. CASE Created(t)
      <3>1. work[t].pc = "sync" /\ work[t].want /\ Synced(t, TRUE) /\ lock' = "free"
        BY <2>3 DEF Created, Locked
      <3>2. Locked'
        BY <3>1 DEF Locked, Threads
      <3>3. StoreIsTrue'
        <4>1. exists' /\ enabled'
          BY <2>3 DEF Created
        <4> QED BY <3>1, <4>1, <1>s DEF StoreIsTrue
      <3>4. FlagTellsTheTruth'
        BY <3>1, <1>s DEF FlagTellsTheTruth
      <3> QED BY <1>0, <3>2, <3>3, <3>4
    <2>4. CASE NotCreated(t)
      <3>1. work[t].pc = "sync" /\ ~exists /\ Synced(t, FALSE) /\ lock' = "free" /\ exists' = exists
        BY <2>4 DEF NotCreated, Locked, threadVars
      <3>2. Locked'
        BY <3>1 DEF Locked, Threads
      <3>3. StoreIsTrue'
        BY <3>1, <1>s DEF StoreIsTrue
      <3>4. FlagTellsTheTruth'
        BY <3>1, <1>s DEF FlagTellsTheTruth
      <3> QED BY <1>0, <3>2, <3>3, <3>4
    <2>5. CASE Store(t)
      <3>1. /\ work[t].pc = "store" /\ flag' = (work[t].want /\ work[t].ok)
            /\ doubt' = work[t].stale /\ UNCHANGED <<exists, enabled, lock>>
        BY <2>5 DEF Store
      <3>2. \A u \in Threads : u # t => work'[u] = work[u]
        BY <1>0, <2>5 DEF Store, TypeOK
      <3>3. work'[t].pc = "idle"
        BY <1>0, <2>5 DEF Store, TypeOK, Idle
      <3>4. Locked'
        BY <3>1, <3>2 DEF Locked
      <3>5. StoreIsTrue'
        BY <3>1, <3>2, <3>3 DEF StoreIsTrue
      <3>6. FlagTellsTheTruth'
        BY <3>1 DEF FlagTellsTheTruth, StoreIsTrue
      <3> QED BY <1>0, <3>4, <3>5, <3>6
    <2> QED BY <1>5, <2>1, <2>2, <2>3, <2>4, <2>5 DEF SwitchStep
  <1> QED BY <1>1, <1>2, <1>3, <1>4, <1>5 DEF Next

\* Whatever two threads, the devices and the thread do: the flag shown is on if, and
\* only if, there is a service and it is on, but for operations at work or crossed.
THEOREM FlagTells == Spec => []FlagTellsTheTruth
  <1>1. FInv => FlagTellsTheTruth
    BY DEF FInv
  <1> QED BY <1>1, FlagInit, FlagStep, PTL DEF Spec

-----------------------------------------------------------------------------
(* The order.                                                              *)

In(n, s) == \E i \in 1 .. Len(s) : s[i] = n
Rising(s) == \A i, j \in 1 .. Len(s) : i < j /\ s[j] # Stop => s[i] < s[j]
Before(s, t) == \A i \in 1 .. Len(s), j \in 1 .. Len(t) : t[j] # Stop => s[i] < t[j]
Chain(a, b, c) ==
  /\ Rising(a) /\ Rising(b) /\ Rising(c)
  /\ Before(a, b) /\ Before(a, c) /\ Before(b, c)

LEMMA EmptyIs ==
    /\ <<>> \in Seq(Nat) /\ Rising(<<>>)
    /\ \A s : Before(<<>>, s) /\ Before(s, <<>>)
    /\ \A n : ~ In(n, <<>>)
  <1>1. <<>> \in Seq(Nat) /\ Len(<<>>) = 0 /\ 1 .. 0 = {}
    OBVIOUS
  <1> QED BY <1>1 DEF Rising, Before, In

LEMMA TailIs ==
    ASSUME NEW s \in Seq(Nat), s # <<>>
    PROVE  /\ Tail(s) \in Seq(Nat) /\ Head(s) = s[1] /\ 1 \in 1 .. Len(s) /\ Head(s) \in Nat
           /\ Len(Tail(s)) = Len(s) - 1 /\ Len(s) \in Nat
           /\ \A i \in 1 .. Len(Tail(s)) : i + 1 \in 1 .. Len(s) /\ Tail(s)[i] = s[i + 1]
           /\ \A n : In(n, s) <=> n = Head(s) \/ In(n, Tail(s))
  <1>1. /\ Tail(s) \in Seq(Nat) /\ Head(s) = s[1] /\ 1 \in 1 .. Len(s) /\ Head(s) \in Nat
        /\ Len(Tail(s)) = Len(s) - 1 /\ Len(s) \in Nat
    OBVIOUS
  <1>2. \A i \in 1 .. Len(Tail(s)) : i + 1 \in 1 .. Len(s) /\ Tail(s)[i] = s[i + 1]
    OBVIOUS
  <1>3. ASSUME NEW n, In(n, s) PROVE n = Head(s) \/ In(n, Tail(s))
    <2>1. PICK i \in 1 .. Len(s) : s[i] = n
      BY <1>3 DEF In
    <2>2. CASE i = 1
      BY <2>1, <2>2, <1>1
    <2>3. CASE i # 1
      <3>1. i - 1 \in 1 .. Len(Tail(s)) /\ (i - 1) + 1 = i
        BY <2>3, <1>1
      <3>2. Tail(s)[i - 1] = s[i]
        BY <3>1, <1>2
      <3> QED BY <2>1, <3>1, <3>2 DEF In
    <2> QED BY <2>2, <2>3
  <1>4. ASSUME NEW n, n = Head(s) \/ In(n, Tail(s)) PROVE In(n, s)
    BY <1>1, <1>2, <1>4 DEF In
  <1> QED BY <1>1, <1>2, <1>3, <1>4

LEMMA PrefixIs ==
    ASSUME NEW s \in Seq(Nat), NEW m \in 0 .. Len(s)
    PROVE  /\ SubSeq(s, 1, m) \in Seq(Nat) /\ Len(SubSeq(s, 1, m)) = m
           /\ \A i \in 1 .. m : SubSeq(s, 1, m)[i] = s[i]
  <1>1. SubSeq(s, 1, m) \in Seq(Nat)
    OBVIOUS
  <1>2. Len(SubSeq(s, 1, m)) = m
    OBVIOUS
  <1>3. \A i \in 1 .. m : SubSeq(s, 1, m)[i] = s[i]
    OBVIOUS
  <1> QED BY <1>1, <1>2, <1>3

LEMMA FrontIs ==
    ASSUME NEW s \in Seq(Nat), s # <<>>
    PROVE  /\ SubSeq(s, 1, Len(s) - 1) \in Seq(Nat) /\ Len(SubSeq(s, 1, Len(s) - 1)) = Len(s) - 1
           /\ Len(s) \in Nat /\ Len(s) >= 1
           /\ \A i \in 1 .. Len(SubSeq(s, 1, Len(s) - 1)) :
                i \in 1 .. Len(s) /\ SubSeq(s, 1, Len(s) - 1)[i] = s[i]
  <1>1. Len(s) \in Nat /\ Len(s) >= 1
    OBVIOUS
  <1>2. Len(s) - 1 \in 0 .. Len(s)
    BY <1>1
  <1>3. /\ SubSeq(s, 1, Len(s) - 1) \in Seq(Nat) /\ Len(SubSeq(s, 1, Len(s) - 1)) = Len(s) - 1
        /\ \A i \in 1 .. Len(s) - 1 : SubSeq(s, 1, Len(s) - 1)[i] = s[i]
    BY <1>2, PrefixIs
  <1> QED BY <1>1, <1>3

LEMMA ConcatIs ==
    ASSUME NEW s \in Seq(Nat), NEW t \in Seq(Nat)
    PROVE  /\ s \o t \in Seq(Nat) /\ Len(s \o t) = Len(s) + Len(t) /\ Len(s) \in Nat /\ Len(t) \in Nat
           /\ \A i \in 1 .. Len(s) : (s \o t)[i] = s[i]
           /\ \A i \in 1 .. Len(t) : (s \o t)[Len(s) + i] = t[i]
  <1>1. /\ s \o t \in Seq(Nat) /\ Len(s \o t) = Len(s) + Len(t) /\ Len(s) \in Nat /\ Len(t) \in Nat
        /\ \A i \in 1 .. Len(s) : (s \o t)[i] = s[i]
    OBVIOUS
  <1>2. ASSUME NEW i \in 1 .. Len(t) PROVE (s \o t)[Len(s) + i] = t[i]
    <2>1. Len(s) + i \in 1 .. Len(s) + Len(t) /\ Len(s) + i > Len(s) /\ (Len(s) + i) - Len(s) = i
      BY <1>1
    <2> QED BY <1>1, <2>1
  <1> QED BY <1>1, <1>2

LEMMA AppendIs ==
    ASSUME NEW s \in Seq(Nat), NEW x \in Nat
    PROVE  /\ Append(s, x) \in Seq(Nat) /\ Len(Append(s, x)) = Len(s) + 1 /\ Len(s) \in Nat
           /\ \A i \in 1 .. Len(Append(s, x)) :
                \/ i \in 1 .. Len(s) /\ Append(s, x)[i] = s[i]
                \/ i = Len(s) + 1 /\ Append(s, x)[i] = x
           /\ \A n : In(n, Append(s, x)) <=> n = x \/ In(n, s)
  <1>1. /\ Append(s, x) \in Seq(Nat) /\ Len(Append(s, x)) = Len(s) + 1 /\ Len(s) \in Nat
        /\ \A i \in 1 .. Len(Append(s, x)) :
                \/ i \in 1 .. Len(s) /\ Append(s, x)[i] = s[i]
                \/ i = Len(s) + 1 /\ Append(s, x)[i] = x
    OBVIOUS
  <1>2. ASSUME NEW n, In(n, Append(s, x)) PROVE n = x \/ In(n, s)
    BY <1>1, <1>2 DEF In
  <1>3. ASSUME NEW n, n = x \/ In(n, s) PROVE In(n, Append(s, x))
    <2>1. Len(s) + 1 \in 1 .. Len(Append(s, x)) /\ Append(s, x)[Len(s) + 1] = x
      BY <1>1
    <2>2. \A i \in 1 .. Len(s) : i \in 1 .. Len(Append(s, x)) /\ Append(s, x)[i] = s[i]
      OBVIOUS
    <2> QED BY <1>3, <2>1, <2>2 DEF In
  <1> QED BY <1>1, <1>2, <1>3

\* A text leaves the queue in the middle, or goes on to what was heard.
LEMMA ChainTake ==
    ASSUME NEW a \in Seq(Nat), NEW b \in Seq(Nat), NEW c \in Seq(Nat), Chain(a, b, c),
           b # <<>>, Head(b) # Stop
    PROVE  Chain(a, Tail(b), c) /\ Chain(Append(a, Head(b)), Tail(b), c)
  <1>1. \A i \in 1 .. Len(Tail(b)) : i + 1 \in 1 .. Len(b) /\ Tail(b)[i] = b[i + 1]
    BY TailIs
  <1>2. Head(b) = b[1] /\ 1 \in 1 .. Len(b) /\ Head(b) \in Nat /\ Tail(b) \in Seq(Nat)
    BY TailIs
  <1>3. \A i \in 1 .. Len(Append(a, Head(b))) :
                \/ i \in 1 .. Len(a) /\ Append(a, Head(b))[i] = a[i]
                \/ i = Len(a) + 1 /\ Append(a, Head(b))[i] = b[1]
    BY <1>2, AppendIs
  <1>4. Rising(Tail(b)) /\ Before(a, Tail(b)) /\ Before(Tail(b), c)
    BY <1>1, <1>2 DEF Chain, Rising, Before
  <1>5. Rising(Append(a, Head(b)))
    BY <1>2, <1>3 DEF Chain, Rising, Before
  <1>6. Before(Append(a, Head(b)), Tail(b))
    <2> SUFFICES ASSUME NEW i \in 1 .. Len(Append(a, Head(b))), NEW j \in 1 .. Len(Tail(b)),
                        Tail(b)[j] # Stop
                 PROVE  Append(a, Head(b))[i] < Tail(b)[j]
      BY DEF Before
    <2>1. j + 1 \in 1 .. Len(b) /\ Tail(b)[j] = b[j + 1] /\ 1 < j + 1
      BY <1>1
    <2>2. b[1] < b[j + 1]
      BY <1>2, <2>1 DEF Chain, Rising
    <2>3. \A l \in 1 .. Len(a) : a[l] < b[j + 1]
      BY <2>1 DEF Chain, Before
    <2> QED BY <1>3, <2>1, <2>2, <2>3
  <1>7. Before(Append(a, Head(b)), c)
    BY <1>2, <1>3 DEF Chain, Before
  <1> QED BY <1>4, <1>5, <1>6, <1>7 DEF Chain

\* Likewise from the channel, when the queue in the middle is empty.
LEMMA ChainTakeLast ==
    ASSUME NEW a \in Seq(Nat), NEW c \in Seq(Nat), Chain(a, <<>>, c),
           c # <<>>
    PROVE  /\ Chain(a, <<>>, Tail(c))
           /\ Head(c) # Stop => Chain(Append(a, Head(c)), <<>>, Tail(c))
  <1>1. \A i \in 1 .. Len(Tail(c)) : i + 1 \in 1 .. Len(c) /\ Tail(c)[i] = c[i + 1]
    BY TailIs
  <1>2. Head(c) = c[1] /\ 1 \in 1 .. Len(c) /\ Head(c) \in Nat /\ Tail(c) \in Seq(Nat)
    BY TailIs
  <1>3. Chain(a, c, <<>>)
    BY EmptyIs DEF Chain
  <1>4. CASE Head(c) # Stop
    <2>1. Chain(a, Tail(c), <<>>) /\ Chain(Append(a, Head(c)), Tail(c), <<>>)
      BY <1>3, <1>4, ChainTake, EmptyIs
    <2> QED BY <2>1, EmptyIs DEF Chain
  <1>5. CASE Head(c) = Stop
    <2>1. Rising(Tail(c))
      BY <1>1 DEF Chain, Rising
    <2>2. Before(a, Tail(c))
      BY <1>1 DEF Chain, Before
    <2> QED BY <1>5, <2>1, <2>2, EmptyIs DEF Chain
  <1> QED BY <1>4, <1>5

\* From the channel to the queue in the middle.
LEMMA ChainPoll ==
    ASSUME NEW a \in Seq(Nat), NEW b \in Seq(Nat), NEW c \in Seq(Nat), Chain(a, b, c),
           c # <<>>, Head(c) # Stop
    PROVE  Chain(a, Append(b, Head(c)), Tail(c))
  <1>1. \A i \in 1 .. Len(Tail(c)) : i + 1 \in 1 .. Len(c) /\ Tail(c)[i] = c[i + 1]
    BY TailIs
  <1>2. Head(c) = c[1] /\ 1 \in 1 .. Len(c) /\ Head(c) \in Nat /\ Tail(c) \in Seq(Nat)
    BY TailIs
  <1>3. Chain(b, c, <<>>)
    BY EmptyIs DEF Chain
  <1>4. Chain(Append(b, Head(c)), Tail(c), <<>>)
    BY <1>3, ChainTake, EmptyIs
  <1>5. \A i \in 1 .. Len(Append(b, Head(c))) :
                \/ i \in 1 .. Len(b) /\ Append(b, Head(c))[i] = b[i]
                \/ i = Len(b) + 1 /\ Append(b, Head(c))[i] = c[1]
    BY <1>2, AppendIs
  <1>6. Before(a, Append(b, Head(c)))
    BY <1>2, <1>5 DEF Chain, Before
  <1>7. Before(a, Tail(c))
    BY <1>1 DEF Chain, Before
  <1> QED BY <1>4, <1>6, <1>7 DEF Chain

\* A new last text, or the shutdown.
LEMMA ChainSend ==
    ASSUME NEW a \in Seq(Nat), NEW b \in Seq(Nat), NEW c \in Seq(Nat), Chain(a, b, c),
           NEW n \in Nat,
           n = Stop \/ \A m \in Nat : In(m, a) \/ In(m, b) \/ In(m, c) => m < n
    PROVE  Chain(a, b, Append(c, n))
  <1>1. \A i \in 1 .. Len(Append(c, n)) :
                \/ i \in 1 .. Len(c) /\ Append(c, n)[i] = c[i]
                \/ i = Len(c) + 1 /\ Append(c, n)[i] = n
    BY AppendIs
  <1>2. /\ \A i \in 1 .. Len(a) : a[i] \in Nat /\ In(a[i], a)
        /\ \A i \in 1 .. Len(b) : b[i] \in Nat /\ In(b[i], b)
        /\ \A i \in 1 .. Len(c) : c[i] \in Nat /\ In(c[i], c)
    BY DEF In
  <1>3. Rising(Append(c, n))
    BY <1>1, <1>2 DEF Chain, Rising
  <1>4. Before(a, Append(c, n))
    BY <1>1, <1>2 DEF Chain, Before
  <1>5. Before(b, Append(c, n))
    BY <1>1, <1>2 DEF Chain, Before
  <1> QED BY <1>3, <1>4, <1>5 DEF Chain
\* What goes on from one queue to what was heard is in no other.
LEMMA ChainOnce ==
    ASSUME NEW a \in Seq(Nat), NEW n \in Nat, NEW b \in Seq(Nat), NEW c \in Seq(Nat),
           Chain(Append(a, n), b, c), n # Stop
    PROVE  ~In(n, a) /\ ~In(n, b) /\ ~In(n, c)
  <1>1. /\ Len(a) + 1 \in 1 .. Len(Append(a, n)) /\ Append(a, n)[Len(a) + 1] = n
        /\ \A i \in 1 .. Len(a) : i \in 1 .. Len(Append(a, n)) /\ Append(a, n)[i] = a[i] /\ i < Len(a) + 1
    OBVIOUS
  <1>2. \A i \in 1 .. Len(a) : a[i] < n
    BY <1>1 DEF Chain, Rising
  <1>3. /\ \A j \in 1 .. Len(b) : b[j] # Stop => n < b[j]
        /\ \A j \in 1 .. Len(c) : c[j] # Stop => n < c[j]
    BY <1>1 DEF Chain, Before
  <1> QED BY <1>2, <1>3 DEF In

LEMMA ChainDrop ==
    ASSUME NEW a, NEW b, NEW c, Chain(a, b, c), NEW d \in Seq(Nat), Len(d) = 0
    PROVE  Chain(a, b, d)
  <1>1. 1 .. Len(d) = {}
    OBVIOUS
  <1> QED BY <1>1 DEF Chain, Rising, Before

\* The three queues one behind the other; the shutdown comes last, and only there; and
\* what was made of each text.
StopIsLast == \A i \in 1 .. Len(rx) : rx[i] = Stop => leaving /\ i = Len(rx)
OnlyTexts == ~In(Stop, pending) /\ ~In(Stop, heard) /\ Stop \notin thrown
Held(n) == In(n, heard) \/ In(n, pending) \/ In(n, rx)
Accounted ==
  \A n \in Nat : n # Stop => /\ n < next <=> Held(n) \/ n \in thrown
                             /\ ~(Held(n) /\ n \in thrown)
OInv ==
  /\ TypeOK /\ next >= 1
  /\ StopIsLast /\ OnlyTexts /\ Chain(heard, pending, rx) /\ Accounted

LEMMA OrderInit == Init => OInv
  <1> SUFFICES ASSUME Init PROVE OInv
    OBVIOUS
  <1>1. TypeOK
    BY InitType
  <1>2. heard = <<>> /\ pending = <<>> /\ rx = <<>> /\ thrown = {} /\ next = 1
    BY DEF Init
  <1>3. Len(rx) = 0
    BY <1>2
  <1>4. StopIsLast
    BY <1>3 DEF StopIsLast
  <1>5. Accounted
    <2> SUFFICES ASSUME NEW n \in Nat, n # Stop
                 PROVE  ~(n < next) /\ ~Held(n) /\ n \notin thrown
      BY DEF Accounted
    <2> QED BY <1>2, EmptyIs DEF Held, Stop
  <1> QED BY <1>1, <1>2, <1>4, <1>5, EmptyIs DEF OInv, OnlyTexts, Chain

\* The head of a channel that holds the shutdown only as its last.
LEMMA HeadIsStop ==
    ASSUME OInv, rx # <<>>
    PROVE  /\ rx \in Seq(Nat) /\ Tail(rx) \in Seq(Nat) /\ Head(rx) \in Nat
           /\ Head(rx) = Stop => Len(Tail(rx)) = 0
           /\ \A i \in 1 .. Len(Tail(rx)) : Tail(rx)[i] = Stop => leaving /\ i = Len(Tail(rx))
           /\ \A n : In(n, rx) <=> n = Head(rx) \/ In(n, Tail(rx))
  <1>1. rx \in Seq(Nat)
    BY DEF OInv, TypeOK
  <1>2. /\ Tail(rx) \in Seq(Nat) /\ Head(rx) = rx[1] /\ 1 \in 1 .. Len(rx) /\ Head(rx) \in Nat
        /\ Len(Tail(rx)) = Len(rx) - 1 /\ Len(rx) \in Nat
        /\ \A i \in 1 .. Len(Tail(rx)) : i + 1 \in 1 .. Len(rx) /\ Tail(rx)[i] = rx[i + 1]
        /\ \A n : In(n, rx) <=> n = Head(rx) \/ In(n, Tail(rx))
    BY <1>1, TailIs
  <1>3. Head(rx) = Stop => Len(Tail(rx)) = 0
    <2>1. rx[1] = Stop => 1 = Len(rx)
      BY <1>2 DEF OInv, StopIsLast
    <2>2. 1 - 1 = 0
      OBVIOUS
    <2> QED BY <1>2, <2>1, <2>2
  <1>4. \A i \in 1 .. Len(Tail(rx)) : Tail(rx)[i] = Stop => leaving /\ i = Len(Tail(rx))
    <2> SUFFICES ASSUME NEW i \in 1 .. Len(Tail(rx)), Tail(rx)[i] = Stop
                 PROVE  leaving /\ i = Len(Tail(rx))
      OBVIOUS
    <2>1. i + 1 \in 1 .. Len(rx) /\ rx[i + 1] = Stop
      BY <1>2
    <2>2. leaving /\ i + 1 = Len(rx)
      BY <2>1 DEF OInv, StopIsLast
    <2> QED BY <2>2, <1>2
  <1> QED BY <1>1, <1>2, <1>3, <1>4

\* What the thread receives was the first of what waited.
LEMMA ReceivedIs ==
    ASSUME OInv, Received
    PROVE  /\ Command \in Nat /\ pending' \in Seq(Nat) /\ rx' \in Seq(Nat)
           /\ Chain(heard, pending', rx')
           /\ Command # Stop => Chain(Append(heard, Command), pending', rx')
           /\ \A i \in 1 .. Len(rx') : rx'[i] = Stop => leaving /\ i = Len(rx')
           /\ ~In(Stop, pending')
           /\ \A n : In(n, pending) \/ In(n, rx) <=> n = Command \/ In(n, pending') \/ In(n, rx')
  <1>0. /\ heard \in Seq(Nat) /\ pending \in Seq(Nat) /\ rx \in Seq(Nat)
        /\ Chain(heard, pending, rx) /\ ~In(Stop, pending)
        /\ \A i \in 1 .. Len(rx) : rx[i] = Stop => leaving /\ i = Len(rx)
    BY DEF OInv, TypeOK, OnlyTexts, StopIsLast
  <1>1. CASE pending # <<>>
    <2>1. Command = Head(pending) /\ pending' = Tail(pending) /\ rx' = rx
      BY <1>1 DEF Received, Command
    <2>2. /\ Tail(pending) \in Seq(Nat) /\ Head(pending) \in Nat
          /\ \A n : In(n, pending) <=> n = Head(pending) \/ In(n, Tail(pending))
      BY <1>0, <1>1, TailIs
    <2>3. Head(pending) # Stop /\ ~In(Stop, Tail(pending))
      BY <2>2, <1>0
    <2>4. Chain(heard, Tail(pending), rx) /\ Chain(Append(heard, Head(pending)), Tail(pending), rx)
      BY <1>0, <1>1, <2>3, ChainTake
    <2> QED BY <1>0, <2>1, <2>2, <2>3, <2>4
  <1>2. CASE pending = <<>>
    <2>1. Command = Head(rx) /\ pending' = <<>> /\ rx' = Tail(rx) /\ rx # <<>>
      BY <1>2 DEF Received, Command
    <2>2. /\ Tail(rx) \in Seq(Nat) /\ Head(rx) \in Nat
          /\ \A i \in 1 .. Len(Tail(rx)) : Tail(rx)[i] = Stop => leaving /\ i = Len(Tail(rx))
          /\ \A n : In(n, rx) <=> n = Head(rx) \/ In(n, Tail(rx))
      BY <2>1, HeadIsStop
    <2>3. Chain(heard, <<>>, rx)
      BY <1>0, <1>2
    <2>4. /\ Chain(heard, <<>>, Tail(rx))
          /\ Head(rx) # Stop => Chain(Append(heard, Head(rx)), <<>>, Tail(rx))
      BY <1>0, <2>1, <2>3, ChainTakeLast
    <2> QED BY <1>2, <2>1, <2>2, <2>4, EmptyIs
  <1> QED BY <1>1, <1>2

LEMMA OrderStep == OInv /\ [Next]_vars => OInv'
  <1> SUFFICES ASSUME OInv, [Next]_vars PROVE OInv'
    OBVIOUS
  <1>0. TypeOK'
    BY TypeStep DEF OInv
  <1>00. /\ heard \in Seq(Nat) /\ pending \in Seq(Nat) /\ rx \in Seq(Nat) /\ next \in Nat
         /\ thrown \subseteq Nat /\ next >= 1
         /\ Chain(heard, pending, rx) /\ ~In(Stop, pending) /\ ~In(Stop, heard) /\ Stop \notin thrown
    BY DEF OInv, TypeOK, OnlyTexts
  <1>a. ASSUME UNCHANGED <<heard, pending, rx, thrown, next, leaving>> PROVE OInv'
    BY <1>0, <1>a DEF OInv, StopIsLast, OnlyTexts, Accounted, Held
  <1>1. CASE UNCHANGED vars
    BY <1>1, <1>a DEF vars, threadVars, otherVars
  <1>2. CASE ThreadStep
    <2>1. CASE CheckHealth
      BY <2>1, <1>a DEF CheckHealth, otherVars
    <2>2. CASE Timeout
      BY <2>2, <1>a DEF Timeout, otherVars
    <2>3. CASE Discard
      <3>1. /\ Received /\ Command # Stop /\ thrown' = thrown \union {Command}
            /\ UNCHANGED <<heard, next, leaving>>
        BY <2>3 DEF Discard, otherVars
      <3>2. StopIsLast' /\ OnlyTexts' /\ Chain(heard', pending', rx')
        BY <1>00, <3>1, ReceivedIs DEF StopIsLast, OnlyTexts
      <3>3. ~In(Command, heard) /\ ~In(Command, pending') /\ ~In(Command, rx')
        BY <1>00, <3>1, ReceivedIs, ChainOnce
      <3>4. Accounted'
        <4> SUFFICES ASSUME NEW n \in Nat, n # Stop
                     PROVE  /\ n < next' <=> Held(n)' \/ n \in thrown'
                            /\ ~(Held(n)' /\ n \in thrown')
          BY DEF Accounted
        <4>1. /\ n < next <=> Held(n) \/ n \in thrown
              /\ ~(Held(n) /\ n \in thrown)
          BY DEF OInv, Accounted
        <4>2. In(n, pending) \/ In(n, rx) <=> n = Command \/ In(n, pending') \/ In(n, rx')
          BY <3>1, ReceivedIs
        <4> QED BY <3>1, <3>3, <4>1, <4>2 DEF Held
      <3> QED BY <1>0, <1>00, <3>1, <3>2, <3>4 DEF OInv
    <2>4. CASE Begin
      <3>1. /\ Received /\ Command # Stop /\ heard' = Append(heard, Command)
            /\ UNCHANGED <<thrown, next, leaving>>
        BY <2>4 DEF Begin, otherVars
      <3>2. \A n : In(n, heard') <=> n = Command \/ In(n, heard)
        BY <1>00, <3>1, ReceivedIs, AppendIs
      <3>3. StopIsLast' /\ OnlyTexts' /\ Chain(heard', pending', rx')
        BY <1>00, <3>1, <3>2, ReceivedIs DEF StopIsLast, OnlyTexts
      <3>4. Accounted'
        <4> SUFFICES ASSUME NEW n \in Nat, n # Stop
                     PROVE  /\ n < next' <=> Held(n)' \/ n \in thrown'
                            /\ ~(Held(n)' /\ n \in thrown')
          BY DEF Accounted
        <4>1. /\ n < next <=> Held(n) \/ n \in thrown
              /\ ~(Held(n) /\ n \in thrown)
          BY DEF OInv, Accounted
        <4>2. In(n, pending) \/ In(n, rx) <=> n = Command \/ In(n, pending') \/ In(n, rx')
          BY <3>1, ReceivedIs
        <4> QED BY <3>1, <3>2, <4>1, <4>2 DEF Held
      <3> QED BY <1>0, <1>00, <3>1, <3>3, <3>4 DEF OInv
    <2>5. CASE Complete
      BY <2>5, <1>a DEF Complete, otherVars
    <2>6. CASE Interrupt
      BY <2>6, <1>a DEF Interrupt, otherVars
    <2>7. CASE PollText
      <3>1. /\ rx # <<>> /\ Head(rx) # Stop /\ pending' = Append(pending, Head(rx)) /\ rx' = Tail(rx)
            /\ UNCHANGED <<heard, thrown, next, leaving>>
        BY <2>7 DEF PollText, otherVars
      <3>2. Chain(heard', pending', rx')
        BY <1>00, <3>1, ChainPoll
      <3>3. \A n : In(n, pending') <=> n = Head(rx) \/ In(n, pending)
        BY <1>00, <3>1, HeadIsStop, AppendIs
      <3>4. StopIsLast' /\ OnlyTexts'
        BY <1>00, <3>1, <3>3, HeadIsStop DEF StopIsLast, OnlyTexts
      <3>5. \A n : Held(n)' <=> Held(n)
        BY <3>1, <3>3, HeadIsStop DEF Held
      <3> QED BY <1>0, <1>00, <3>1, <3>2, <3>4, <3>5 DEF OInv, Accounted
    <2>8. CASE PollStop
      <3>1. /\ rx # <<>> /\ Head(rx) = Stop /\ rx' = Tail(rx)
            /\ UNCHANGED <<heard, pending, thrown, next, leaving>>
        BY <2>8 DEF PollStop, otherVars
      <3>2. Chain(heard', pending', rx')
        BY <1>00, <3>1, HeadIsStop, ChainDrop
      <3>3. StopIsLast' /\ OnlyTexts'
        BY <1>00, <3>1, HeadIsStop DEF StopIsLast, OnlyTexts
      <3>4. \A n : n # Stop => (Held(n)' <=> Held(n))
        BY <3>1, HeadIsStop DEF Held
      <3> QED BY <1>0, <1>00, <3>1, <3>2, <3>3, <3>4 DEF OInv, Accounted
    <2>9. CASE End
      <3>1. Received /\ Command = Stop /\ UNCHANGED <<heard, thrown, next, leaving>>
        BY <2>9 DEF End, otherVars
      <3>2. StopIsLast' /\ OnlyTexts' /\ Chain(heard', pending', rx')
        BY <1>00, <3>1, ReceivedIs DEF StopIsLast, OnlyTexts
      <3>3. \A n : n # Stop => (Held(n)' <=> Held(n))
        BY <3>1, ReceivedIs DEF Held
      <3> QED BY <1>0, <1>00, <3>1, <3>2, <3>3 DEF OInv, Accounted
    <2> QED BY <1>2, <2>1, <2>2, <2>3, <2>4, <2>5, <2>6, <2>7, <2>8, <2>9 DEF ThreadStep
  <1>3. CASE Synthesise \/ DeviceEvent
    BY <1>3, <1>a DEF Synthesise, DeviceEvent, threadVars, otherVars
  <1>4. CASE Play
    <2>1. /\ ~leaving /\ next' = next + 1 /\ UNCHANGED <<pending, heard, leaving>>
      BY <1>4 DEF Play
    <2>2. \A n \in Nat : Held(n) => n < next
      <3> SUFFICES ASSUME NEW n \in Nat, Held(n) PROVE n < next
        OBVIOUS
      <3>1. CASE n = Stop
        BY <3>1, <1>00 DEF Stop
      <3>2. CASE n # Stop
        BY <3>2 DEF OInv, Accounted
      <3> QED BY <3>1, <3>2
    <2>3. next # Stop /\ ~Held(next) /\ next \notin thrown
      BY <1>00, <2>2 DEF Stop, OInv, Accounted
    <2>4. CASE rx' = Append(rx, next) /\ thrown' = thrown
      <3>1. Chain(heard, pending, rx')
        BY <1>00, <2>2, <2>4, ChainSend DEF Held
      <3>2. \A n : In(n, rx') <=> n = next \/ In(n, rx)
        BY <1>00, <2>4, AppendIs
      <3>3. StopIsLast'
        <4> SUFFICES ASSUME NEW i \in 1 .. Len(rx'), rx'[i] = Stop PROVE FALSE
          BY DEF StopIsLast
        <4>1. \/ i \in 1 .. Len(rx) /\ rx'[i] = rx[i]
              \/ rx'[i] = next
          BY <1>00, <2>4, AppendIs
        <4> QED BY <2>1, <2>3, <4>1 DEF OInv, StopIsLast
      <3>4. OnlyTexts'
        BY <1>00, <2>1, <2>4 DEF OnlyTexts
      <3>5. Accounted'
        <4> SUFFICES ASSUME NEW n \in Nat, n # Stop
                     PROVE  /\ n < next' <=> Held(n)' \/ n \in thrown'
                            /\ ~(Held(n)' /\ n \in thrown')
          BY DEF Accounted
        <4>1. /\ n < next <=> Held(n) \/ n \in thrown
              /\ ~(Held(n) /\ n \in thrown)
          BY DEF OInv, Accounted
        <4>2. Held(n)' <=> Held(n) \/ n = next
          BY <2>1, <3>2 DEF Held
        <4>3. n < next' <=> n < next \/ n = next
          BY <1>00, <2>1
        <4> QED BY <2>3, <2>4, <4>1, <4>2, <4>3
      <3> QED BY <1>0, <1>00, <2>1, <3>1, <3>3, <3>4, <3>5 DEF OInv
    <2>5. CASE rx' = rx /\ thrown' = thrown \union {next}
      <3>1. Chain(heard', pending', rx')
        BY <1>00, <2>1, <2>5
      <3>2. StopIsLast'
        BY <2>1, <2>5 DEF OInv, StopIsLast
      <3>3. OnlyTexts'
        BY <1>00, <2>1, <2>3, <2>5 DEF OnlyTexts
      <3>4. Accounted'
        <4> SUFFICES ASSUME NEW n \in Nat, n # Stop
                     PROVE  /\ n < next' <=> Held(n)' \/ n \in thrown'
                            /\ ~(Held(n)' /\ n \in thrown')
          BY DEF Accounted
        <4>1. /\ n < next <=> Held(n) \/ n \in thrown
              /\ ~(Held(n) /\ n \in thrown)
          BY DEF OInv, Accounted
        <4>2. Held(n)' <=> Held(n)
          BY <2>1, <2>5 DEF Held
        <4>3. n < next' <=> n < next \/ n = next
          BY <1>00, <2>1
        <4> QED BY <2>3, <2>5, <4>1, <4>2, <4>3
      <3> QED BY <1>0, <1>00, <2>1, <3>1, <3>2, <3>3, <3>4 DEF OInv
    <2> QED BY <1>4, <2>4, <2>5 DEF Play
  <1>5. CASE Leave
    <2>1. ~leaving /\ leaving' = TRUE /\ UNCHANGED <<pending, heard, thrown, next>>
      BY <1>5 DEF Leave, otherVars
    <2>2. CASE rx' = rx
      BY <1>0, <1>00, <2>1, <2>2 DEF OInv, StopIsLast, OnlyTexts, Accounted, Held
    <2>3. CASE rx' = Append(rx, Stop)
      <3>0. Stop \in Nat
        BY DEF Stop
      <3>1. Chain(heard, pending, rx')
        BY <1>00, <2>3, <3>0, ChainSend
      <3>2. \A n : In(n, rx') <=> n = Stop \/ In(n, rx)
        BY <1>00, <2>3, <3>0, AppendIs
      <3>3. StopIsLast'
        <4> SUFFICES ASSUME NEW i \in 1 .. Len(rx'), rx'[i] = Stop PROVE i = Len(rx')
          BY <2>1 DEF StopIsLast
        <4>1. /\ \/ i \in 1 .. Len(rx) /\ rx'[i] = rx[i]
                 \/ i = Len(rx) + 1
              /\ Len(rx') = Len(rx) + 1
          BY <1>00, <2>3, <3>0, AppendIs
        <4> QED BY <2>1, <4>1 DEF OInv, StopIsLast
      <3>4. \A n : n # Stop => (Held(n)' <=> Held(n))
        BY <2>1, <3>2 DEF Held
      <3> QED BY <1>0, <1>00, <2>1, <3>1, <3>3, <3>4 DEF OInv, OnlyTexts, Accounted
    <2> QED BY <1>5, <2>2, <2>3 DEF Leave
  <1>6. CASE \E t \in Threads : Switch(t) \/ SwitchStep(t)
    BY <1>6, <1>a DEF Switch, SwitchStep, Sync, Create, Created, NotCreated, Store, threadVars, otherVars
  <1> QED BY <1>1, <1>2, <1>3, <1>4, <1>5, <1>6 DEF Next

\* The text of Playback about the order and the whereabouts of texts follows.
LEMMA OrderSuffices == OInv => SpokenInOrder
  <1> SUFFICES ASSUME OInv PROVE SpokenInOrder
    OBVIOUS
  <1>0. /\ heard \in Seq(Nat) /\ pending \in Seq(Nat) /\ rx \in Seq(Nat) /\ next \in Nat /\ next >= 1
        /\ thrown \subseteq Nat
        /\ Chain(heard, pending, rx) /\ ~In(Stop, pending) /\ ~In(Stop, heard) /\ Stop \notin thrown
    BY DEF OInv, TypeOK, OnlyTexts
  <1>1. /\ Texts \in Seq(Nat) /\ Len(Texts) \in Nat
        /\ \A i \in 1 .. Len(Texts) : i \in 1 .. Len(rx) /\ Texts[i] = rx[i] /\ Texts[i] # Stop
        /\ \A i \in 1 .. Len(rx) : rx[i] # Stop => i \in 1 .. Len(Texts)
    <2>1. CASE rx # <<>> /\ rx[Len(rx)] = Stop
      <3>1. Texts = SubSeq(rx, 1, Len(rx) - 1)
        BY <2>1 DEF Texts
      <3>2. /\ Texts \in Seq(Nat) /\ Len(Texts) = Len(rx) - 1 /\ Len(rx) \in Nat /\ Len(rx) >= 1
            /\ \A i \in 1 .. Len(Texts) : i \in 1 .. Len(rx) /\ Texts[i] = rx[i]
        BY <1>0, <2>1, <3>1, FrontIs
      <3>3. \A i \in 1 .. Len(Texts) : Texts[i] # Stop
        BY <3>2 DEF OInv, StopIsLast
      <3>4. \A i \in 1 .. Len(rx) : rx[i] # Stop => i \in 1 .. Len(Texts)
        BY <2>1, <3>2
      <3> QED BY <3>2, <3>3, <3>4
    <2>2. CASE ~(rx # <<>> /\ rx[Len(rx)] = Stop)
      <3>1. Texts = rx
        BY <2>2 DEF Texts
      <3>2. \A i \in 1 .. Len(rx) : rx[i] # Stop
        BY <1>0, <2>2 DEF OInv, StopIsLast
      <3> QED BY <1>0, <3>1, <3>2
    <2> QED BY <2>1, <2>2
  <1> DEFINE all == heard \o Queued
             h == Len(heard)
             p == Len(pending)
             q == Len(Texts)
  <1>2. /\ h \in Nat /\ p \in Nat /\ q \in Nat /\ Queued \in Seq(Nat) /\ Len(Queued) = p + q
        /\ all \in Seq(Nat) /\ Len(all) = h + p + q
        /\ \A i \in 1 .. h : all[i] = heard[i]
        /\ \A i \in 1 .. p : all[h + i] = pending[i]
        /\ \A i \in 1 .. q : all[h + p + i] = Texts[i]
    <2>1. /\ h \in Nat /\ p \in Nat /\ q \in Nat /\ Queued \in Seq(Nat) /\ Len(Queued) = p + q
          /\ \A i \in 1 .. p : Queued[i] = pending[i]
          /\ \A i \in 1 .. q : Queued[p + i] = Texts[i]
      BY <1>0, <1>1, ConcatIs DEF Queued
    <2>2. /\ all \in Seq(Nat) /\ Len(all) = h + p + q
          /\ \A i \in 1 .. h : all[i] = heard[i]
          /\ \A i \in 1 .. p + q : all[h + i] = Queued[i]
      <3>1. /\ all \in Seq(Nat) /\ Len(all) = h + Len(Queued)
            /\ \A i \in 1 .. h : all[i] = heard[i]
            /\ \A i \in 1 .. Len(Queued) : all[h + i] = Queued[i]
        BY <1>0, <2>1, ConcatIs
      <3>2. h + (p + q) = h + p + q
        BY <2>1
      <3> HIDE DEF all, h, p, q
      <3> QED BY <2>1, <3>1, <3>2
    <2>3. \A i \in 1 .. p : all[h + i] = pending[i]
      BY <2>1, <2>2
    <2>4. \A i \in 1 .. q : all[h + p + i] = Texts[i]
      <3> SUFFICES ASSUME NEW i \in 1 .. q PROVE all[h + p + i] = Texts[i]
        OBVIOUS
      <3>1. p + i \in 1 .. p + q /\ h + (p + i) = h + p + i
        BY <2>1
      <3> QED BY <2>1, <2>2, <3>1
    <2> HIDE DEF all, h, p, q
    <2> QED BY <2>1, <2>2, <2>3, <2>4
  <1> HIDE DEF all, h, p, q
  <1>3. \A i \in 1 .. Len(all) :
          \/ i \in 1 .. h
          \/ \E k \in 1 .. p : i = h + k
          \/ \E k \in 1 .. q : i = h + p + k
    <2> SUFFICES ASSUME NEW i \in 1 .. Len(all), i \notin 1 .. h
                 PROVE  \/ \E k \in 1 .. p : i = h + k
                        \/ \E k \in 1 .. q : i = h + p + k
      OBVIOUS
    <2>0. i > h
      BY <1>2
    <2>1. CASE i <= h + p
      <3>1. i - h \in 1 .. p /\ i = h + (i - h)
        BY <1>2, <2>0, <2>1
      <3> QED BY <3>1
    <2>2. CASE i > h + p
      <3>1. i - (h + p) \in 1 .. q /\ i = h + p + (i - (h + p))
        BY <1>2, <2>2
      <3> QED BY <3>1
    <2> QED BY <1>2, <2>1, <2>2
  <1>4. /\ \A i, j \in 1 .. h : i < j => heard[i] < heard[j]
        /\ \A i, j \in 1 .. p : i < j => pending[i] < pending[j]
        /\ \A i, j \in 1 .. q : i < j => Texts[i] < Texts[j]
        /\ \A i \in 1 .. h, j \in 1 .. p : heard[i] < pending[j]
        /\ \A i \in 1 .. h, j \in 1 .. q : heard[i] < Texts[j]
        /\ \A i \in 1 .. p, j \in 1 .. q : pending[i] < Texts[j]
    <2>1. /\ \A j \in 1 .. h : heard[j] # Stop
          /\ \A j \in 1 .. p : pending[j] # Stop
      BY <1>0 DEF In, h, p
    <2> QED BY <1>0, <1>1, <2>1 DEF Chain, Rising, Before, h, p, q
  <1>5. \A i, j \in 1 .. Len(all) : i < j => all[i] < all[j]
    <2> SUFFICES ASSUME NEW i \in 1 .. Len(all), NEW j \in 1 .. Len(all), i < j
                 PROVE  all[i] < all[j]
      OBVIOUS
    <2>1. CASE i \in 1 .. h
      BY ZenonT(60), <1>2, <1>3, <1>4, <2>1
    <2>2. CASE \E k \in 1 .. p : i = h + k
      <3>1. PICK k \in 1 .. p : i = h + k
        BY <2>2
      <3>2. CASE \E l \in 1 .. p : j = h + l
        <4>1. PICK l \in 1 .. p : j = h + l
          BY <3>2
        <4>2. k < l
          BY <1>2, <3>1, <4>1
        <4>3. pending[k] < pending[l]
          BY <1>4, <4>2
        <4>4. all[i] = pending[k] /\ all[j] = pending[l]
          BY <1>2, <3>1, <4>1
        <4> QED BY <4>3, <4>4
      <3>3. CASE \E l \in 1 .. q : j = h + p + l
        BY ZenonT(60), <1>2, <1>4, <3>1, <3>3
      <3>4. j \notin 1 .. h
        BY <1>2, <3>1
      <3> QED BY <1>3, <3>2, <3>3, <3>4
    <2>3. CASE \E k \in 1 .. q : i = h + p + k
      <3>1. PICK k \in 1 .. q : i = h + p + k
        BY <2>3
      <3>2. j \notin 1 .. h /\ ~ \E l \in 1 .. p : j = h + l
        BY <1>2, <3>1
      <3>3. PICK l \in 1 .. q : j = h + p + l
        BY <1>3, <3>2
      <3>4. k < l
        BY <1>2, <3>1, <3>3
      <3> QED BY <1>2, <1>4, <3>1, <3>3, <3>4
    <2> QED BY <1>3, <2>1, <2>2, <2>3
  <1>6. \A n : n \in SetOf(all) <=> n # Stop /\ Held(n)
    <2>1. ASSUME NEW n, n \in SetOf(all) PROVE n # Stop /\ Held(n)
      <3>1. PICK i \in 1 .. Len(all) : all[i] = n
        BY <2>1 DEF SetOf
      <3>2. CASE i \in 1 .. h
        <4>1. heard[i] = n
          BY <1>2, <3>1, <3>2
        <4>2. In(n, heard)
          BY <3>2, <4>1 DEF In, h
        <4> QED BY <1>0, <4>2 DEF Held
      <3>3. CASE \E k \in 1 .. p : i = h + k
        <4>1. PICK k \in 1 .. p : i = h + k
          BY <3>3
        <4>2. pending[k] = n
          BY <1>2, <3>1, <4>1
        <4>3. In(n, pending)
          BY <4>2 DEF In, p
        <4> QED BY <1>0, <4>3 DEF Held
      <3>4. CASE \E k \in 1 .. q : i = h + p + k
        <4>1. PICK k \in 1 .. q : i = h + p + k
          BY <3>4
        <4>2. Texts[k] = n
          BY <1>2, <3>1, <4>1
        <4>3. k \in 1 .. Len(rx) /\ rx[k] = n /\ n # Stop
          BY <1>1, <4>2 DEF q
        <4> QED BY <4>3 DEF Held, In
      <3> QED BY <1>3, <3>2, <3>3, <3>4
    <2>2. ASSUME NEW n, n # Stop, Held(n) PROVE n \in SetOf(all)
      <3>1. CASE In(n, heard)
        <4>1. PICK i \in 1 .. h : heard[i] = n
          BY <3>1 DEF In, h
        <4>2. i \in 1 .. Len(all) /\ all[i] = n
          BY <1>2, <4>1
        <4> QED BY <4>2 DEF SetOf
      <3>2. CASE In(n, pending)
        <4>1. PICK i \in 1 .. p : pending[i] = n
          BY <3>2 DEF In, p
        <4>2. h + i \in 1 .. Len(all)
          BY <1>2
        <4>3. all[h + i] = n
          BY <1>2, <4>1
        <4> QED BY <4>2, <4>3 DEF SetOf
      <3>3. CASE In(n, rx)
        <4>1. PICK i \in 1 .. Len(rx) : rx[i] = n
          BY <3>3 DEF In
        <4>2. i \in 1 .. q /\ Texts[i] = n
          BY <1>1, <2>2, <4>1 DEF q
        <4>3. h + p + i \in 1 .. Len(all) /\ all[h + p + i] = n
          BY SMTT(60), <1>2, <4>2
        <4> QED BY <4>3 DEF SetOf
      <3> QED BY <2>2, <3>1, <3>2, <3>3 DEF Held
    <2> QED BY <2>1, <2>2
  <1>7. \A n : Held(n) => n \in Nat
    BY <1>0 DEF Held, In
  <1>8. SetOf(all) \union thrown = 1 .. next - 1
    <2>1. ASSUME NEW n, n \in SetOf(all) \union thrown PROVE n \in 1 .. next - 1
      <3>1. n \in Nat /\ n # Stop /\ (Held(n) \/ n \in thrown)
        BY <1>0, <1>6, <1>7, <2>1
      <3>2. n < next
        BY <3>1 DEF OInv, Accounted
      <3> QED BY <1>0, <3>1, <3>2 DEF Stop
    <2>2. ASSUME NEW n \in 1 .. next - 1 PROVE n \in SetOf(all) \union thrown
      <3>1. n \in Nat /\ n # Stop /\ n < next
        BY <1>0 DEF Stop
      <3>2. Held(n) \/ n \in thrown
        BY <3>1 DEF OInv, Accounted
      <3> QED BY <1>6, <3>1, <3>2
    <2> QED BY <2>1, <2>2
  <1>9. SetOf(all) \intersect thrown = {}
    <2> SUFFICES ASSUME NEW n, n \in SetOf(all), n \in thrown PROVE FALSE
      OBVIOUS
    <2>1. n \in Nat /\ n # Stop /\ Held(n)
      BY <1>0, <1>6
    <2> QED BY <2>1 DEF OInv, Accounted
  <1> QED BY <1>5, <1>8, <1>9 DEF SpokenInOrder, all

\* For any number of texts, and whatever the switch and the devices do: texts are played
\* in their order and none twice, and none is lost without a reason.
THEOREM Spoken == Spec => []SpokenInOrder
  <1> QED BY OrderInit, OrderStep, OrderSuffices, PTL DEF Spec
-----------------------------------------------------------------------------
Below == {ss \in Nat \X Nat : ss[1] < ss[2]}

\* A nonempty set of numbers has a least member.
LEMMA Least ==
  ASSUME NEW T, T \subseteq Nat, T # {}
  PROVE  \E n \in T : \A m \in T : n <= m
<1>1. IsWellFoundedOn(Below, Nat)
  BY NatLessThanWellFounded DEF OpToRel, Below
<1>2. PICK x \in T : \A y \in T : ~ (<<y, x>> \in Below)
  BY <1>1, WFMin
<1>3. ASSUME NEW y \in T PROVE x <= y
  <2>1. ~(y < x)
    BY <1>2, <1>3 DEF Below
  <2> QED BY <2>1
<1> QED BY <1>3

\* Induction up to a bound, as a fact about a set of numbers.
LEMMA Induct ==
  ASSUME NEW T, 0 \in T, \A n \in Nat : n \in T => n + 1 \in T
  PROVE  \A n \in Nat : n \in T
<1> SUFFICES ASSUME NEW m \in Nat, m \notin T PROVE FALSE
  OBVIOUS
<1> DEFINE U == {n \in Nat : n \notin T}
<1>1. U # {} /\ U \subseteq Nat
  OBVIOUS
<1>2. PICK n \in U : \A k \in U : n <= k
  BY <1>1, Least
<1>3. n # 0 /\ n - 1 \in Nat
  OBVIOUS
<1>4. n - 1 \in T
  BY <1>2, <1>3
<1>5. (n - 1) + 1 \in T
  BY <1>3, <1>4
<1> QED BY <1>5, <1>3

\* The functions that start with v and whose i-th value comes from the one
\* before by the i-th step.
Traces(V, v, n, step) ==
  {f \in [0 .. n -> V] : f[0] = v /\ \A i \in 1 .. n : f[i] = step[i][f[i - 1]]}

\* A function defined by what it is at the place before exists.
LEMMA Recursion ==
  ASSUME NEW V, NEW v \in V, NEW n \in Nat, NEW step \in [1 .. n -> [V -> V]]
  PROVE  Traces(V, v, n, step) # {}
<1> SUFFICES \E f \in [0 .. n -> V] : f[0] = v /\ \A i \in 1 .. n : f[i] = step[i][f[i - 1]]
  BY DEF Traces
<1> DEFINE Good(m, f) == f[0] = v /\ \A i \in 1 .. m : f[i] = step[i][f[i - 1]]
           T == {m \in Nat : m <= n => \E f \in [0 .. m -> V] : Good(m, f)}
<1>1. 0 \in T
  <2> DEFINE f == [i \in 0 .. 0 |-> v]
  <2>1. f \in [0 .. 0 -> V] /\ Good(0, f)
    OBVIOUS
  <2> QED BY <2>1
<1>2. ASSUME NEW m \in Nat, m \in T PROVE m + 1 \in T
  <2> SUFFICES ASSUME m + 1 <= n PROVE \E f \in [0 .. m + 1 -> V] : Good(m + 1, f)
    OBVIOUS
  <2>1. PICK g \in [0 .. m -> V] : Good(m, g)
    BY <1>2
  <2> DEFINE f == [i \in 0 .. m + 1 |-> IF i = m + 1 THEN step[m + 1][g[m]] ELSE g[i]]
  <2>2. step[m + 1] \in [V -> V] /\ g[m] \in V
    OBVIOUS
  <2>3. f \in [0 .. m + 1 -> V]
    BY <2>2
  <2>4. f[0] = v
    BY <2>1
  <2>5. ASSUME NEW i \in 1 .. m + 1 PROVE f[i] = step[i][f[i - 1]]
    <3>1. CASE i = m + 1
      BY <3>1
    <3>2. CASE i # m + 1
      <4>1. i \in 1 .. m /\ i - 1 \in 0 .. m /\ i - 1 # m + 1
        BY <3>2
      <4>2. f[i] = g[i] /\ f[i - 1] = g[i - 1]
        BY <4>1
      <4> QED BY <2>1, <4>1, <4>2
    <3> QED BY <3>1, <3>2
  <2> QED BY <2>3, <2>4, <2>5
<1> HIDE DEF T
<1>3. \A m \in Nat : m \in T
  BY <1>1, <1>2, Induct
<1> QED BY <1>3 DEF T


\* A difference grows with its first number.
LEMMA Shift ==
  ASSUME NEW a \in Nat, NEW b \in Nat, NEW d \in Nat
  PROVE  (a + d) - b = (a - b) + d
OBVIOUS
-----------------------------------------------------------------------------
(* The inductive invariant of the voice gate, over what was received.      *)

Receipt == [dur : Durations, loud : BOOLEAN, ignored : BOOLEAN]
Buffer == [n : Nat, dur : Nat]

\* The time of the first chunks, from which every other time is a difference.
Total(r, k) == Time(SubSeq(r, 1, k))

SoundIn(r, i, j) == \A k \in i .. j : r[k].loud /\ ~r[k].ignored
SilentIn(r, i, j) == \A k \in i .. j : ~r[k].loud /\ ~r[k].ignored
OnsetAt(r, j) == j = 1 \/ ~SoundIn(r, j - 1, j - 1)

\* Bridged.
Joined(c, r, i, j) ==
  /\ SilentIn(r, i + 1, j - 1)
  /\ \/ i + 1 = j
     \/ \E p \in i + 1 .. j - 1 :
          /\ p <= i + 2 \/ Total(r, p - 1) - Total(r, i) < c.speech_pad
          /\ Total(r, j - 1) - Total(r, p) < c.min_silence

\* Why the i-th chunk is in a window, when the ones of f were.
Lasting(c, r, j, i) ==
  \E k \in i .. Len(r) : SoundIn(r, i, k) /\ Total(r, k) - Total(r, j - 1) >= c.min_speech
Following(c, r, f, j) == \E l \in f : l < j /\ r[l].loud /\ Joined(c, r, l, j)
Padding(c, r, l, i) ==
  /\ l < i /\ SilentIn(r, l + 1, i)
  /\ l + 1 = i \/ Total(r, i) - Total(r, l) < c.speech_pad
Reason(c, r, f, i) ==
  IF r[i].loud THEN \E j \in 1 .. i : SoundIn(r, j, i)
      /\ (Lasting(c, r, j, i) \/ Following(c, r, f, j))
  ELSE \E l \in f : r[l].loud /\ Padding(c, r, l, i)

\* Of the sound from j to o, what the pre-roll reaches is in f.
Reached(c, r, f, j, o) ==
  \A i \in j .. o : i = o \/ Total(r, o - 1) - Total(r, i) < c.pre_roll => i \in f
SoundIsKept(c, r, f, o) ==
  \A j \in 1 .. o : SoundIn(r, j, o) /\ OnsetAt(r, j)
      /\ Total(r, o) - Total(r, j - 1) >= c.min_speech =>
                      Reached(c, r, f, j, o)

\* The loud places of a window follow closely on one another.
OneSpeech(c, r, places) ==
  \A i, j \in places :
    (/\ r[i].loud /\ r[j].loud /\ i < j
     /\ \A k \in places : i < k /\ k < j => ~r[k].loud) => Joined(c, r, i, j)

\* Nobody paused since the first chunk of a window.
Unpaused(r, chunks, n) == \A i \in chunks[1].n .. n : ~r[i].ignored

WindowIs(c, r, window) ==
  /\ window.chunks # <<>> /\ window.at <= Len(r) /\ Places(window.chunks) \subseteq 1 .. Len(r)
  /\ Unpaused(r, window.chunks, window.at)
  /\ c.early_flush => OneSpeech(c, r, Places(window.chunks))

\* The windows one after the other.
Increasing(chunks) == \A i, j \in 1 .. Len(chunks) : i < j => chunks[i].n < chunks[j].n
Earlier(s, t) == \A i \in s, j \in t : i < j
InSent(windows) == UNION {Places(windows[w].chunks) : w \in 1 .. Len(windows)}
SentInOrder(windows) ==
  /\ \A w \in 1 .. Len(windows) : Increasing(windows[w].chunks)
  /\ \A v, w \in 1 .. Len(windows) :
       v < w => Earlier(Places(windows[v].chunks), Places(windows[w].chunks))

\* What is held while the sound is confirmed: the last chunks, from the x-th.
HeldFrom(chunks, r, x) ==
  /\ Len(chunks) = Len(r) + 1 - x
  /\ \A k \in 1 .. Len(chunks) : chunks[k] = [n |-> x + k - 1, dur |-> r[x + k - 1].dur]

\* What the states of the gate mean: the sound since a, or the silence since the loud e.
Confirming(c, r, f, ms, chunks, a, x) ==
  /\ OnsetAt(r, a) /\ SoundIn(r, a, Len(r))
  /\ ms = Total(r, Len(r)) - Total(r, a - 1) /\ ms < c.min_speech
  /\ \A i \in f : i < a
  /\ HeldFrom(chunks, r, x)
  /\ \A i \in a .. Len(r) : x <= i <=> Total(r, Len(r)) - Total(r, i) < c.pre_roll

Talking(c, r, f) ==
  /\ r # <<>> /\ SoundIn(r, Len(r), Len(r)) /\ Len(r) \in f
  /\ \A j \in 1 .. Len(r) : SoundIn(r, j, Len(r)) /\ OnsetAt(r, j) => Reached(c, r, f, j, Len(r))

PadOpen(c, r, f, ms, e) ==
  /\ e \in f /\ r[e].loud /\ SilentIn(r, e + 1, Len(r))
  /\ ms = Total(r, Len(r)) - Total(r, e)
  /\ e + 1 = Len(r) \/ ms < c.speech_pad

PadClosed(c, r, f, ms, e, p) ==
  /\ e \in f /\ r[e].loud /\ SilentIn(r, e + 1, Len(r))
  /\ p <= e + 2 \/ Total(r, p - 1) - Total(r, e) < c.speech_pad
  /\ ms = Total(r, Len(r)) - Total(r, p) /\ ms < c.min_silence

GateIs(c, r, f, g, ms, chunks) ==
  /\ g # "confirming" => chunks = <<>>
  /\ g = "silence" => OnsetAt(r, Len(r) + 1)
  /\ g = "confirming" =>
       \E a \in 1 .. Len(r) : \E x \in a .. Len(r) + 1 : Confirming(c, r, f, ms, chunks, a, x)
  /\ g = "speech" => Talking(c, r, f) /\ ms = 0
  /\ g = "pad-open" => \E e \in 1 .. Len(r) - 1 : PadOpen(c, r, f, ms, e)
  /\ g = "pad-closed"
      => \E e \in 1 .. Len(r) - 1 : \E p \in e + 1 .. Len(r) : PadClosed(c, r, f, ms, e, p)

-----------------------------------------------------------------------------
Taken == Forwarded \union lost
Gone == InSent(sent) \union lost

GateTypeOK ==
  /\ config \in Configs
  /\ received \in Seq(Receipt)
  /\ gate \in {"silence", "confirming", "speech", "pad-open", "pad-closed"} /\ state_ms \in Nat
  /\ confirming \in Seq(Buffer) /\ pending_speech \in Seq(Buffer)
  /\ {idle, paused, halted, last} \subseteq BOOLEAN
  /\ presses \in 0 .. MaxPauses
  /\ pc \in {"select", "flush", "done"}
  /\ sent \in Seq([chunks : Seq(Buffer), at : Nat])
  /\ lost \subseteq Nat

GrowingWindow(c, r, gone, chunks) ==
  /\ Increasing(chunks) /\ Earlier(gone, Places(chunks))
  /\ chunks # <<>> => Unpaused(r, chunks, Len(r))
  /\ c.early_flush => OneSpeech(c, r, Places(chunks))

Placed(c, r, taken, forwarded) ==
  /\ taken \subseteq 1 .. Len(r)
  /\ \A i \in forwarded : ~r[i].ignored /\ Reason(c, r, taken, i)
  /\ \A o \in 1 .. Len(r) : SoundIsKept(c, r, taken, o)

WindowsAre(c, r, windows) == \A w \in 1 .. Len(windows) : WindowIs(c, r, windows[w])

\* Where utterances are sent when they end, nothing is left of one.
EndIsSent(c, g, at_pc, chunks) ==
  c.early_flush /\ g \in {"silence", "confirming"} /\ at_pc # "flush" => chunks = <<>>

GInv ==
  /\ GateTypeOK
  /\ Placed(config, received, Taken, Forwarded)
  /\ SentInOrder(sent) /\ WindowsAre(config, received, sent)
  /\ GrowingWindow(config, received, Gone, pending_speech)
  /\ EndIsSent(config, gate, pc, pending_speech)
  /\ GateIs(config, received, Taken, gate, state_ms, confirming)
-----------------------------------------------------------------------------
(* The time of some chunks.                                                *)

\* Sequences, for the provers.
LEMMA ChunksAre ==
  ASSUME NEW R, NEW s \in Seq(R)
  PROVE  /\ Len(s) \in Nat /\ DOMAIN s = 1 .. Len(s) /\ \A i \in 1 .. Len(s) : s[i] \in R
         /\ \A x \in R : /\ Append(s, x) \in Seq(R) /\ Len(Append(s, x)) = Len(s) + 1
                         /\ Append(s, x)[Len(s) + 1] = x
                         /\ \A i \in 1 .. Len(s) : Append(s, x)[i] = s[i]
  OBVIOUS

\* A part of a sequence.
LEMMA PartIs ==
  ASSUME NEW R, NEW s \in Seq(R), NEW i \in 1 .. Len(s) + 1, NEW j \in i - 1 .. Len(s)
  PROVE  /\ SubSeq(s, i, j) \in Seq(R) /\ Len(SubSeq(s, i, j)) = j - i + 1
         /\ \A k \in 1 .. j - i + 1 : SubSeq(s, i, j)[k] = s[i + k - 1] /\ i + k - 1 \in 1 .. Len(s)
<1>1. Len(s) \in Nat /\ \A k \in 1 .. Len(s) : s[k] \in R
  OBVIOUS
<1>2. \A k \in i .. j : s[k] \in R
  BY <1>1
<1>3. SubSeq(s, i, j) = [k \in 1 .. j - i + 1 |-> s[i + k - 1]]
  OBVIOUS
<1>4. \A k \in 1 .. j - i + 1 : i + k - 1 \in i .. j
  BY <1>1
<1>5. \A k \in 1 .. j - i + 1 : s[i + k - 1] \in R
  BY <1>2, <1>4
<1>6. j - i + 1 \in Nat
  BY <1>1
<1>7. SubSeq(s, i, j) \in [1 .. j - i + 1 -> R]
  BY <1>3, <1>5
<1> DEFINE m == j - i + 1
           f == [k \in 1 .. m |-> s[i + k - 1]]
<1>8. m \in Nat /\ f \in [1 .. m -> R]
  BY <1>3, <1>6, <1>7
<1>13. \A k \in 1 .. m : f[k] = s[i + k - 1]
  OBVIOUS
<1> HIDE DEF m, f
<1>9. f \in Seq(R) /\ Len(f) = m /\ \A k \in 1 .. m : f[k] = s[i + k - 1]
  BY <1>8, <1>13
<1>10. SubSeq(s, i, j) = f
  BY <1>3 DEF m, f
<1>11. \A k \in 1 .. m : i + k - 1 \in 1 .. Len(s)
  BY <1>1, <1>4 DEF m
<1>12. /\ SubSeq(s, i, j) \in Seq(R) /\ Len(SubSeq(s, i, j)) = m
       /\ \A k \in 1 .. m : SubSeq(s, i, j)[k] = s[i + k - 1] /\ i + k - 1 \in 1 .. Len(s)
  BY <1>9, <1>10, <1>11
<1> QED BY <1>12 DEF m

\* The times of the first chunks.
Clock(s) ==
  {g \in [0 .. Len(s) -> Nat] : g[0] = 0 /\ \A i \in 1 .. Len(s) : g[i] = g[i - 1] + s[i].dur}

\* The time of some chunks is the last of them.
LEMMA TimeOf ==
  ASSUME NEW R, \A x \in R : x.dur \in Nat, NEW s \in Seq(R), NEW g \in Clock(s)
  PROVE  Time(s) = g[Len(s)]
<1> DEFINE N == Len(s)
           Body(h) == [i \in 0 .. N |-> IF i = 0 THEN 0 ELSE h[i - 1] + s[i].dur]
           sum == CHOOSE h : h = Body(h)
<1>1. N \in Nat /\ g \in [0 .. N -> Nat] /\ g[0] = 0 /\ \A i \in 1 .. N : g[i] = g[i - 1] + s[i].dur
  BY DEF Clock
<1>2. Time(s) = sum[N]
  BY DEF Time
<1> HIDE DEF N
<1>3. g = Body(g)
  <2>1. ASSUME NEW i \in 0 .. N PROVE g[i] = IF i = 0 THEN 0 ELSE g[i - 1] + s[i].dur
    BY <1>1
  <2>2. g = [i \in 0 .. N |-> g[i]]
    BY <1>1
  <2> QED BY <2>1, <2>2
<1>4. sum = Body(sum)
  <2> HIDE DEF Body
  <2> QED BY <1>3
<1> HIDE DEF sum
<1>5. sum[0] = 0 /\ \A i \in 1 .. N : sum[i] = sum[i - 1] + s[i].dur
  <2>1. \A i \in 0 .. N : sum[i] = IF i = 0 THEN 0 ELSE sum[i - 1] + s[i].dur
    BY <1>4
  <2>2. 0 \in 0 .. N /\ \A i \in 1 .. N : i \in 0 .. N /\ i # 0
    BY <1>1
  <2> HIDE DEF Body
  <2> QED BY <2>1, <2>2
<1> HIDE DEF Body
<1> DEFINE T == {i \in Nat : i <= N => sum[i] = g[i]}
<1>6. 0 \in T
  BY <1>1, <1>5
<1>7. ASSUME NEW i \in Nat, i \in T PROVE i + 1 \in T
  <2> SUFFICES ASSUME i + 1 <= N PROVE sum[i + 1] = g[i + 1]
    OBVIOUS
  <2>1. i + 1 \in 1 .. N /\ (i + 1) - 1 = i /\ sum[i] = g[i]
    BY <1>1, <1>7
  <2>2. sum[i + 1] = sum[i] + s[i + 1].dur /\ g[i + 1] = g[i] + s[i + 1].dur
    BY <1>1, <1>5, <2>1
  <2> QED BY <2>1, <2>2
<1> HIDE DEF T
<1>8. \A i \in Nat : i \in T
  BY <1>6, <1>7, Induct
<1>9. sum[N] = g[N]
  BY <1>1, <1>8 DEF T
<1> QED BY <1>2, <1>9 DEF N

\* There is such a function, and it grows.
LEMMA ClockRuns ==
  ASSUME NEW R, \A x \in R : x.dur \in Nat, NEW s \in Seq(R)
  PROVE  \E g \in Clock(s) : \A i, j \in 0 .. Len(s) : i <= j => g[i] <= g[j]
<1> DEFINE N == Len(s)
           step == [i \in 1 .. N |-> [v \in Nat |-> v + s[i].dur]]
<1>1. N \in Nat /\ \A i \in 1 .. N : s[i].dur \in Nat
  BY ChunksAre
<1> HIDE DEF N
<1>2. step \in [1 .. N -> [Nat -> Nat]] /\ \A i \in 1 .. N, v \in Nat : step[i][v] = v + s[i].dur
  BY <1>1
<1> HIDE DEF step
<1>3. PICK g \in [0 .. N -> Nat] : g[0] = 0 /\ \A i \in 1 .. N : g[i] = step[i][g[i - 1]]
  <2>1. Traces(Nat, 0, N, step) # {}
    BY <1>1, <1>2, Recursion
  <2> QED BY <2>1 DEF Traces
<1>4. \A i \in 1 .. N : i - 1 \in 0 .. N /\ g[i - 1] \in Nat /\ g[i] = g[i - 1] + s[i].dur
  <2> SUFFICES ASSUME NEW i \in 1 .. N
               PROVE  i - 1 \in 0 .. N /\ g[i - 1] \in Nat /\ g[i] = g[i - 1] + s[i].dur
    OBVIOUS
  <2>1. i - 1 \in 0 .. N
    BY <1>1
  <2>2. g[i - 1] \in Nat
    BY <2>1
  <2> QED BY <2>1, <2>2, <1>2, <1>3
<1>5. g \in Clock(s)
  BY <1>3, <1>4 DEF Clock, N
<1> DEFINE T == {j \in Nat : j <= N => \A i \in 0 .. j : g[i] <= g[j]}
<1>6. 0 \in T
  BY <1>1, <1>3
<1>7. ASSUME NEW j \in Nat, j \in T PROVE j + 1 \in T
  <2> SUFFICES ASSUME j + 1 <= N, NEW i \in 0 .. j + 1 PROVE g[i] <= g[j + 1]
    OBVIOUS
  <2>1. j + 1 \in 1 .. N /\ (j + 1) - 1 = j /\ j <= N /\ i \in 0 .. N /\ j \in 0 .. N
        /\ j + 1 \in 0 .. N
    BY <1>1
  <2>2. g[j + 1] = g[j] + s[j + 1].dur /\ s[j + 1].dur \in Nat
    BY <1>1, <1>4, <2>1
  <2>3. g[i] \in Nat /\ g[j] \in Nat /\ g[j + 1] \in Nat
    BY <1>3, <2>1
  <2>4. CASE i = j + 1
    BY <2>3, <2>4
  <2>5. CASE i # j + 1
    <3>1. i \in 0 .. j
      BY <2>5
    <3>2. g[i] <= g[j]
      BY <1>7, <2>1, <3>1
    <3> QED BY <2>2, <2>3, <3>2
  <2> QED BY <2>4, <2>5
<1> HIDE DEF T
<1>8. \A j \in Nat : j \in T
  BY <1>6, <1>7, Induct
<1>9. \A i, j \in 0 .. N : i <= j => g[i] <= g[j]
  <2> SUFFICES ASSUME NEW i \in 0 .. N, NEW j \in 0 .. N, i <= j PROVE g[i] <= g[j]
    OBVIOUS
  <2>1. j \in Nat /\ j <= N /\ i \in 0 .. j
    BY <1>1
  <2> QED BY <2>1, <1>8 DEF T
<1> QED BY <1>5, <1>9 DEF N

\* The time of any part, from one clock.
LEMMA PartTime ==
  ASSUME NEW R, \A x \in R : x.dur \in Nat, NEW s \in Seq(R), NEW g \in Clock(s),
         \A i, j \in 0 .. Len(s) : i <= j => g[i] <= g[j],
         NEW i \in 1 .. Len(s) + 1, NEW j \in i - 1 .. Len(s)
  PROVE  Time(SubSeq(s, i, j)) = g[j] - g[i - 1]
<1> DEFINE N == Len(s)
           t == SubSeq(s, i, j)
           L == j - i + 1
           h == [k \in 0 .. L |-> g[i - 1 + k] - g[i - 1]]
<1>1. N \in Nat /\ g \in [0 .. N -> Nat] /\ g[0] = 0 /\ \A k \in 1 .. N : g[k] = g[k - 1] + s[k].dur
  BY DEF Clock
<1>2. t \in Seq(R) /\ Len(t) = L /\ \A k \in 1 .. L : t[k] = s[i + k - 1] /\ i + k - 1 \in 1 .. N
  BY PartIs
<1>3. i \in 1 .. N + 1 /\ j \in i - 1 .. N /\ \A k, l \in 0 .. N : k <= l => g[k] <= g[l]
  OBVIOUS
<1> HIDE DEF N, t
<1>4. L \in Nat /\ i - 1 \in 0 .. N /\ \A k \in 0 .. L : i - 1 + k \in 0 .. N /\ i - 1 <= i - 1 + k
  BY <1>1, <1>3
<1>5. i - 1 + L = j /\ i - 1 + 0 = i - 1
  BY <1>1, <1>3
<1> HIDE DEF L
<1>6. \A k \in 0 .. L : g[i - 1 + k] - g[i - 1] \in Nat
  <2> SUFFICES ASSUME NEW k \in 0 .. L PROVE g[i - 1 + k] - g[i - 1] \in Nat
    OBVIOUS
  <2>1. g[i - 1 + k] \in Nat /\ g[i - 1] \in Nat /\ g[i - 1] <= g[i - 1 + k]
    BY <1>1, <1>3, <1>4
  <2> QED BY <2>1
<1>7. h \in [0 .. L -> Nat]
  BY <1>6
<1>8. h[0] = 0
  <2>1. 0 \in 0 .. L /\ g[i - 1] \in Nat
    BY <1>1, <1>4
  <2> QED BY <2>1, <1>5
<1>9. ASSUME NEW k \in 1 .. L PROVE h[k] = h[k - 1] + t[k].dur
  <2>1. k \in 0 .. L /\ k - 1 \in 0 .. L /\ i + k - 1 \in 1 .. N /\ t[k] = s[i + k - 1]
    BY <1>2, <1>4
  <2> DEFINE m == i + k - 1
  <2>2. m \in 0 .. N /\ m - 1 \in 0 .. N /\ i - 1 + k = m /\ i - 1 + (k - 1) = m - 1 /\ m \in 1 .. N
    BY <1>1, <1>3, <2>1
  <2>3. h[k] = g[m] - g[i - 1] /\ h[k - 1] = g[m - 1] - g[i - 1]
    BY <2>1, <2>2
  <2>4. g[m] = g[m - 1] + s[m].dur
    BY <1>1, <2>2
  <2>5. g[m] \in Nat /\ g[m - 1] \in Nat /\ g[i - 1] \in Nat /\ s[m].dur \in Nat
    <3>1. s[m] \in R
      BY <2>2, ChunksAre DEF N
    <3> QED BY <3>1, <1>1, <1>4, <2>2
  <2>6. t[k] = s[m]
    BY <2>1
  <2>7. (g[m - 1] + s[m].dur) - g[i - 1] = (g[m - 1] - g[i - 1]) + s[m].dur
    BY <2>5, Shift
  <2> HIDE DEF m, h
  <2> QED BY <2>3, <2>4, <2>6, <2>7
<1>10. L \in 0 .. L /\ h[L] = g[j] - g[i - 1]
  <2>1. L \in 0 .. L
    BY <1>4
  <2>2. h[L] = g[i - 1 + L] - g[i - 1]
    BY <2>1
  <2> HIDE DEF h
  <2> QED BY <2>1, <2>2, <1>5
<1> HIDE DEF h
<1>11. h \in Clock(t)
  BY <1>2, <1>7, <1>8, <1>9 DEF Clock
<1>12. Time(t) = h[L]
  BY <1>2, <1>11, TimeOf
<1> QED BY <1>10, <1>12 DEF t

\* Time as differences of totals.
LEMMA TotalsAre ==
  ASSUME NEW R, \A x \in R : x.dur \in Nat, NEW s \in Seq(R)
  PROVE  /\ Total(s, 0) = 0 /\ \A k \in 0 .. Len(s) : Total(s, k) \in Nat
         /\ \A k \in 1 .. Len(s) : Total(s, k) = Total(s, k - 1) + s[k].dur
         /\ \A i, j \in 0 .. Len(s) : i <= j => Total(s, i) <= Total(s, j)
         /\ \A i \in 1 .. Len(s) + 1 : \A j \in i - 1 .. Len(s) :
              Time(SubSeq(s, i, j)) = Total(s, j) - Total(s, i - 1)
<1> DEFINE N == Len(s)
<1>1. PICK g \in Clock(s) : \A i, j \in 0 .. N : i <= j => g[i] <= g[j]
  BY ClockRuns
<1>2. \A i \in 1 .. N + 1 : \A j \in i - 1 .. N : Time(SubSeq(s, i, j)) = g[j] - g[i - 1]
  BY <1>1, PartTime
<1>3. N \in Nat /\ g \in [0 .. N -> Nat] /\ g[0] = 0 /\ \A k \in 1 .. N : g[k] = g[k - 1] + s[k].dur
  BY DEF Clock
<1> HIDE DEF N
<1>4. ASSUME NEW k \in 0 .. N PROVE Total(s, k) = g[k]
  <2>1. 1 \in 1 .. N + 1 /\ k \in 1 - 1 .. N /\ 1 - 1 = 0
    BY <1>3
  <2>2. Time(SubSeq(s, 1, k)) = g[k] - g[0]
    BY <1>2, <2>1
  <2>3. g[k] \in Nat
    BY <1>3
  <2> QED BY <1>3, <2>2, <2>3 DEF Total
<1>5. \A i \in 1 .. N + 1 : i - 1 \in 0 .. N /\ \A j \in i - 1 .. N : j \in 0 .. N
  BY <1>3
<1>6. 0 \in 0 .. N /\ \A k \in 1 .. N : k \in 0 .. N /\ k - 1 \in 0 .. N
  BY <1>3
<1>7. Total(s, 0) = 0 /\ \A k \in 0 .. N : Total(s, k) \in Nat
  BY <1>3, <1>4, <1>6
<1>8. \A k \in 1 .. N : Total(s, k) = Total(s, k - 1) + s[k].dur
  BY <1>3, <1>4, <1>6
<1>9. \A i, j \in 0 .. N : i <= j => Total(s, i) <= Total(s, j)
  BY <1>1, <1>4
<1>10. \A i \in 1 .. N + 1 : \A j \in i - 1 .. N : Time(SubSeq(s,
       i, j)) = Total(s, j) - Total(s, i - 1)
  BY <1>2, <1>4, <1>5
<1> QED BY <1>7, <1>8, <1>9, <1>10 DEF N

\* The totals after one more chunk.
LEMMA TotalsGrow ==
  ASSUME NEW R, \A x \in R : x.dur \in Nat, NEW s \in Seq(R), NEW x \in R
  PROVE  /\ \A k \in 0 .. Len(s) : Total(Append(s, x), k) = Total(s, k)
         /\ Total(Append(s, x), Len(s) + 1) = Total(s, Len(s)) + x.dur
<1> DEFINE N == Len(s)
           t == Append(s, x)
<1>1. N \in Nat /\ t \in Seq(R) /\ Len(t) = N + 1 /\ t[N + 1] = x /\ \A i \in 1 .. N : t[i] = s[i]
  BY ChunksAre
<1> HIDE DEF t
<1>2. ASSUME NEW k \in 0 .. N PROVE Total(t, k) = Total(s, k)
  <2>1. 1 \in 1 .. N + 1 /\ 1 \in 1 .. (N + 1) + 1 /\ k \in 1 - 1 .. N /\ k \in 1 - 1 .. N + 1
        /\ k - 1 + 1 = k
    BY <1>1
  <2>2. /\ SubSeq(s, 1, k) \in Seq(R) /\ Len(SubSeq(s, 1, k)) = k
        /\ \A i \in 1 .. k : SubSeq(s, 1, k)[i] = s[1 + i - 1] /\ 1 + i - 1 \in 1 .. N
    BY <2>1, PartIs
  <2>3. /\ SubSeq(t, 1, k) \in Seq(R) /\ Len(SubSeq(t, 1, k)) = k
        /\ \A i \in 1 .. k : SubSeq(t, 1, k)[i] = t[1 + i - 1]
    BY <1>1, <2>1, PartIs
  <2>4. \A i \in 1 .. k : SubSeq(t, 1, k)[i] = SubSeq(s, 1, k)[i]
    BY <1>1, <2>2, <2>3
  <2> DEFINE a == SubSeq(s, 1, k)
             b == SubSeq(t, 1, k)
  <2> HIDE DEF a, b
  <2>5. a = b
    BY <2>2, <2>3, <2>4 DEF a, b
  <2> QED BY <2>5 DEF Total, a, b
<1>3. Total(t, N + 1) = Total(t, (N + 1) - 1) + t[N + 1].dur
  <2>1. N + 1 \in 1 .. N + 1
    BY <1>1
  <2> QED BY <1>1, <2>1, TotalsAre
<1>4. N \in 0 .. N /\ (N + 1) - 1 = N
  BY <1>1
<1> QED BY <1>1, <1>2, <1>3, <1>4 DEF t
-----------------------------------------------------------------------------
(* What was said of the chunks received stays true when one more is.       *)

Later(r, t) ==
  /\ Len(r) \in Nat /\ Len(t) \in Nat /\ Len(r) <= Len(t)
  /\ \A k \in 1 .. Len(r) : t[k] = r[k]
  /\ \A k \in 0 .. Len(r) : Total(t, k) = Total(r, k)

\* What is between two places stays so when more is received.
LEMMA SoundLater ==
  ASSUME NEW r, NEW t, Later(r, t), NEW i \in Nat \ {0}, NEW j \in Int, j <= Len(r)
  PROVE  (SoundIn(t, i, j) <=> SoundIn(r, i, j)) /\ (SilentIn(t, i, j) <=> SilentIn(r, i, j))
<1>1. \A k \in i .. j : k \in 1 .. Len(r)
  BY DEF Later
<1> QED BY <1>1 DEF Later, SoundIn, SilentIn

\* So does an onset.
LEMMA OnsetLater ==
  ASSUME NEW r, NEW t, Later(r, t), NEW j \in 1 .. Len(r) + 1
  PROVE  OnsetAt(t, j) <=> OnsetAt(r, j)
<1>1. CASE j = 1
  BY <1>1 DEF OnsetAt
<1>2. CASE j # 1
  <2>1. j - 1 \in Nat \ {0} /\ j - 1 \in Int /\ j - 1 <= Len(r)
    BY <1>2 DEF Later
  <2> QED BY <2>1, <1>2, SoundLater DEF OnsetAt
<1> QED BY <1>1, <1>2

\* So is the loud that follows closely.
LEMMA JoinedLater ==
  ASSUME NEW c, NEW r, NEW t, Later(r, t), NEW i \in 1 .. Len(r), NEW j \in 1 .. Len(r) + 1, i < j
  PROVE  Joined(c, t, i, j) <=> Joined(c, r, i, j)
<1>1. i + 1 \in Nat \ {0} /\ j - 1 \in Int /\ j - 1 <= Len(r)
  BY DEF Later
<1>2. SilentIn(t, i + 1, j - 1) <=> SilentIn(r, i + 1, j - 1)
  BY <1>1, SoundLater
<1>3. ASSUME NEW p \in i + 1 .. j - 1
      PROVE  Total(t, p - 1) = Total(r, p - 1) /\ Total(t, p) = Total(r, p)
  <2>1. p - 1 \in 0 .. Len(r) /\ p \in 0 .. Len(r)
    BY DEF Later
  <2> QED BY <2>1 DEF Later
<1>4. Total(t, i) = Total(r, i) /\ Total(t, j - 1) = Total(r, j - 1)
  <2>1. i \in 0 .. Len(r) /\ j - 1 \in 0 .. Len(r)
    BY DEF Later
  <2> QED BY <2>1 DEF Later
<1> QED BY <1>2, <1>3, <1>4 DEF Joined

\* A chunk keeps its reason to be in a window.
LEMMA ReasonLater ==
  ASSUME NEW c, NEW r, NEW t, Later(r, t), NEW f, f \subseteq 1 .. Len(r), NEW u, f \subseteq u,
         NEW i \in 1 .. Len(r), Reason(c, r, f, i)
  PROVE  Reason(c, t, u, i)
<1>1. t[i] = r[i] /\ Len(r) \in Nat /\ Len(t) \in Nat /\ Len(r) <= Len(t)
  BY DEF Later
<1>2. ASSUME NEW l \in f PROVE t[l] = r[l] /\ l \in u /\ l \in 1 .. Len(r)
  BY DEF Later
<1>3. ASSUME NEW j \in 1 .. i, SoundIn(r, j, i) PROVE SoundIn(t, j, i)
  <2>1. j \in Nat \ {0} /\ i \in Int /\ i <= Len(r)
    BY <1>1
  <2> QED BY <2>1, <1>3, SoundLater
<1>4. ASSUME NEW j \in 1 .. i, Lasting(c, r, j, i) PROVE Lasting(c, t, j, i)
  <2>1. PICK k \in i .. Len(r) : SoundIn(r, i, k) /\ Total(r, k) - Total(r, j - 1) >= c.min_speech
    BY <1>4 DEF Lasting
  <2>2. i \in Nat \ {0} /\ k \in Int /\ k <= Len(r) /\ k \in i .. Len(t)
    BY <1>1
  <2>3. SoundIn(t, i, k)
    BY <2>1, <2>2, SoundLater
  <2>4. k \in 0 .. Len(r) /\ j - 1 \in 0 .. Len(r)
    BY <1>1
  <2>5. Total(t, k) = Total(r, k) /\ Total(t, j - 1) = Total(r, j - 1)
    BY <2>4 DEF Later
  <2> QED BY <2>1, <2>2, <2>3, <2>5 DEF Lasting
<1>5. ASSUME NEW j \in 1 .. i, Following(c, r, f, j) PROVE Following(c, t, u, j)
  <2>1. PICK l \in f : l < j /\ r[l].loud /\ Joined(c, r, l, j)
    BY <1>5 DEF Following
  <2>2. l \in 1 .. Len(r) /\ j \in 1 .. Len(r) + 1 /\ t[l] = r[l] /\ l \in u
    BY <1>1, <1>2
  <2>3. Joined(c, t, l, j)
    BY <2>1, <2>2, JoinedLater
  <2> QED BY <2>1, <2>2, <2>3 DEF Following
<1>6. ASSUME NEW l \in f, Padding(c, r, l, i) PROVE Padding(c, t, l, i)
  <2>1. l + 1 \in Nat \ {0} /\ i \in Int /\ i <= Len(r) /\ i \in 0 .. Len(r) /\ l \in 0 .. Len(r)
    BY <1>1, <1>2
  <2>2. SilentIn(t, l + 1, i) <=> SilentIn(r, l + 1, i)
    BY <2>1, SoundLater
  <2>3. Total(t, i) = Total(r, i) /\ Total(t, l) = Total(r, l)
    BY <2>1 DEF Later
  <2> QED BY <1>6, <2>2, <2>3 DEF Padding
<1>7. CASE r[i].loud
  BY <1>1, <1>3, <1>4, <1>5, <1>7 DEF Reason
<1>8. CASE ~r[i].loud
  BY <1>1, <1>2, <1>6, <1>8 DEF Reason
<1> QED BY <1>7, <1>8

\* Sound that was kept stays kept.
LEMMA KeptLater ==
  ASSUME NEW c, NEW r, NEW t, Later(r, t), NEW f, NEW u, f \subseteq u,
         NEW o \in 1 .. Len(r), SoundIsKept(c, r, f, o)
  PROVE  SoundIsKept(c, t, u, o)
<1> SUFFICES ASSUME NEW j \in 1 .. o, SoundIn(t, j, o), OnsetAt(t, j),
                    Total(t, o) - Total(t, j - 1) >= c.min_speech
             PROVE  Reached(c, t, u, j, o)
  BY DEF SoundIsKept
<1>1. Len(r) \in Nat
  BY DEF Later
<1>2. j \in Nat \ {0} /\ o \in Int /\ o <= Len(r) /\ j \in 1 .. Len(r) + 1
      /\ j - 1 \in 0 .. Len(r) /\ o \in 0 .. Len(r)
  BY <1>1
<1>3. SoundIn(r, j, o) /\ OnsetAt(r, j)
  BY <1>2, SoundLater, OnsetLater
<1>4. Total(r, o) - Total(r, j - 1) >= c.min_speech
  BY <1>2 DEF Later
<1>5. Reached(c, r, f, j, o)
  BY <1>3, <1>4 DEF SoundIsKept
<1>6. ASSUME NEW i \in j .. o, i = o \/ Total(t, o - 1) - Total(t, i) < c.pre_roll PROVE i \in u
  <2>1. i \in 0 .. Len(r) /\ o - 1 \in 0 .. Len(r)
    BY <1>1, <1>2
  <2>2. Total(t, i) = Total(r, i) /\ Total(t, o - 1) = Total(r, o - 1)
    BY <2>1 DEF Later
  <2>3. i \in f
    BY <1>5, <1>6, <2>2 DEF Reached
  <2> QED BY <2>3
<1> QED BY <1>6 DEF Reached

\* One utterance stays one.
LEMMA OneSpeechLater ==
  ASSUME NEW c, NEW r, NEW t, Later(r, t), NEW places, places \subseteq 1 .. Len(r),
      OneSpeech(c, r, places)
  PROVE  OneSpeech(c, t, places)
<1> SUFFICES ASSUME NEW i \in places, NEW j \in places, t[i].loud, t[j].loud, i < j,
                    \A k \in places : i < k /\ k < j => ~t[k].loud
             PROVE  Joined(c, t, i, j)
  BY DEF OneSpeech
<1>1. \A k \in places : t[k] = r[k] /\ k \in 1 .. Len(r)
  BY DEF Later
<1>2. Joined(c, r, i, j)
  BY <1>1 DEF OneSpeech
<1>3. i \in 1 .. Len(r) /\ j \in 1 .. Len(r) + 1
  BY <1>1 DEF Later
<1> QED BY <1>2, <1>3, JoinedLater

\* So do the windows that were sent.
LEMMA WindowLater ==
  ASSUME NEW c, NEW r, NEW t, Later(r, t), NEW w, w.chunks \in Seq(Buffer), w.at \in Nat,
      WindowIs(c, r, w)
  PROVE  WindowIs(c, t, w)
<1>1. w.chunks # <<>> /\ w.at <= Len(t) /\ Places(w.chunks) \subseteq 1 .. Len(t)
  BY DEF WindowIs, Later
<1>2. Unpaused(t, w.chunks, w.at)
  <2>1. w.chunks[1].n \in 1 .. Len(r)
    <3>1. 1 \in 1 .. Len(w.chunks)
      BY DEF WindowIs
    <3> QED BY <3>1 DEF WindowIs, Places
  <2>2. \A i \in w.chunks[1].n .. w.at : i \in 1 .. Len(r)
    BY <2>1 DEF WindowIs, Later
  <2> QED BY <2>2 DEF WindowIs, Unpaused, Later
<1>3. c.early_flush => OneSpeech(c, t, Places(w.chunks))
  BY OneSpeechLater DEF WindowIs
<1> QED BY <1>1, <1>2, <1>3 DEF WindowIs

\* One more chunk: t is r and x, the n-th.
Grown(r, x, t, n) ==
  /\ t \in Seq(Receipt) /\ Len(r) \in Nat /\ n = Len(r) + 1 /\ Len(t) = n /\ t[n] = x
  /\ x \in Receipt /\ x.dur \in Nat \ {0} /\ Later(r, t)
  /\ Total(t, 0) = 0 /\ \A k \in 0 .. n : Total(t, k) \in Nat
  /\ Total(t, n) = Total(t, Len(r)) + x.dur
  /\ \A i, j \in 0 .. n : i <= j => Total(t, i) <= Total(t, j)

\* One chunk more.
LEMMA OneMore ==
  ASSUME NEW r \in Seq(Receipt), NEW x \in Receipt
  PROVE  Grown(r, x, Append(r, x), Len(r) + 1)
<1> DEFINE t == Append(r, x)
           n == Len(r) + 1
<1>1. x.dur \in Nat \ {0} /\ \A y \in Receipt : y.dur \in Nat
  BY SpeechGateAssumption DEF Receipt
<1>2. /\ Len(r) \in Nat /\ t \in Seq(Receipt) /\ Len(t) = n /\ t[n] = x
      /\ \A i \in 1 .. Len(r) : t[i] = r[i]
  BY ChunksAre
<1>3. \A k \in 0 .. Len(r) : Total(t, k) = Total(r, k)
  BY <1>1, TotalsGrow
<1>4. Total(t, n) = Total(r, Len(r)) + x.dur /\ Total(t, Len(r)) = Total(r, Len(r))
  BY <1>1, <1>2, <1>3, TotalsGrow
<1> HIDE DEF t
<1>5. /\ Total(t, 0) = 0 /\ \A k \in 0 .. Len(t) : Total(t, k) \in Nat
      /\ \A i, j \in 0 .. Len(t) : i <= j => Total(t, i) <= Total(t, j)
  BY <1>1, <1>2, TotalsAre
<1>6. Later(r, t)
  BY <1>2, <1>3 DEF Later
<1> QED BY <1>1, <1>2, <1>4, <1>5, <1>6 DEF t, Grown

\* The lengths when a chunk is received.
LEMMA GrownIs ==
  ASSUME NEW r, NEW x, NEW t, NEW n, Grown(r, x, t, n)
  PROVE  /\ Len(r) \in Nat /\ n = Len(r) + 1 /\ Len(t) = n /\ t[n] = x /\ n \in Nat \ {0}
            /\ n - 1 = Len(r)
         /\ Later(r, t) /\ Total(t, n) = Total(t, Len(r)) + x.dur /\ x.dur \in Nat
         /\ \A k \in 1 .. Len(r) : t[k] = r[k]
         /\ \A k \in 0 .. Len(r) : Total(r, k) \in Nat
         /\ \A k \in 0 .. Len(r) : Total(t, k) = Total(r, k)
         /\ \A i, j \in 0 .. Len(r) : i <= j => Total(r, i) <= Total(r, j)
<1>1. /\ Len(r) \in Nat /\ n = Len(r) + 1 /\ Len(t) = n /\ t[n] = x
      /\ Later(r, t) /\ Total(t, n) = Total(t, Len(r)) + x.dur /\ x.dur \in Nat
  BY DEF Grown
<1>2. n \in Nat \ {0} /\ n - 1 = Len(r) /\ \A k \in 0 .. Len(r) : k \in 0 .. n
  BY <1>1
<1>3. /\ \A k \in 0 .. n : Total(t, k) \in Nat
      /\ \A i, j \in 0 .. n : i <= j => Total(t, i) <= Total(t, j)
  BY DEF Grown
<1>4. /\ \A k \in 1 .. Len(r) : t[k] = r[k]
      /\ \A k \in 0 .. Len(r) : Total(t, k) = Total(r, k)
  BY <1>1 DEF Later
<1>5. \A k \in 0 .. Len(r) : Total(r, k) \in Nat
  BY <1>2, <1>3, <1>4
<1>6. \A i, j \in 0 .. Len(r) : i <= j => Total(r, i) <= Total(r, j)
  <2> SUFFICES ASSUME NEW i \in 0 .. Len(r), NEW j \in 0 .. Len(r), i <= j
               PROVE Total(r, i) <= Total(r, j)
    OBVIOUS
  <2>1. Total(t, i) <= Total(t, j)
    BY <1>2, <1>3
  <2> QED BY <2>1, <1>4
<1> QED BY <1>1, <1>2, <1>4, <1>5, <1>6
-----------------------------------------------------------------------------
(* What the gate makes of one more chunk.                                  *)

\* The configuration has its type.
LEMMA ConfigIs ==
  ASSUME NEW c \in Configs
  PROVE  /\ c.min_speech \in Nat \ {0} /\ c.speech_pad \in Nat \ {0} /\ c.min_silence \in Nat \ {0}
         /\ c.pre_roll \in Nat /\ c.early_flush \in BOOLEAN
  BY SpeechGateAssumption

\* Speech at the last chunk is kept; no other sound ends there.
LEMMA TalkingKept ==
  ASSUME NEW c, NEW t, NEW u, Talking(c, t, u)
  PROVE  SoundIsKept(c, t, u, Len(t))
  BY DEF Talking, SoundIsKept

\* A quiet chunk leaves nothing to keep.
LEMMA QuietKept ==
  ASSUME NEW c, NEW t, NEW u, NEW n \in Nat \ {0}, ~t[n].loud \/ t[n].ignored
  PROVE  SoundIsKept(c, t, u, n)
<1>1. \A j \in 1 .. n : ~SoundIn(t, j, n)
  <2>1. \A j \in 1 .. n : n \in j .. n
    OBVIOUS
  <2> QED BY <2>1 DEF SoundIn
<1> QED BY <1>1 DEF SoundIsKept

\* After anything but sound there is an onset.
LEMMA OnsetAfter ==
  ASSUME NEW t, NEW n \in Nat, n = 0 \/ ~t[n].loud \/ t[n].ignored
  PROVE  OnsetAt(t, n + 1)
<1>1. CASE n = 0
  BY <1>1 DEF OnsetAt
<1>2. CASE n # 0
  <2>1. (n + 1) - 1 = n /\ n \in n .. n
    OBVIOUS
  <2>2. ~SoundIn(t, n, n)
    BY <1>2, <2>1 DEF SoundIn
  <2> QED BY <2>1, <2>2 DEF OnsetAt
<1> QED BY <1>1, <1>2

\* Sound up to n has one onset.
LEMMA OneOnset ==
  ASSUME NEW t, NEW n \in Nat, NEW i \in 1 .. n, NEW j \in 1 .. n, OnsetAt(t, i), OnsetAt(t, j),
         SoundIn(t, i, n), SoundIn(t, j, n)
  PROVE  i = j
<1>1. ASSUME NEW k \in 1 .. n, NEW l \in 1 .. n, k < l, OnsetAt(t, l), SoundIn(t, k, n) PROVE FALSE
  <2>1. l # 1 /\ l - 1 \in k .. n
    BY <1>1
  <2>2. t[l - 1].loud /\ ~t[l - 1].ignored
    BY <1>1, <2>1 DEF SoundIn
  <2>3. \A m \in l - 1 .. l - 1 : m = l - 1
    OBVIOUS
  <2>4. SoundIn(t, l - 1, l - 1)
    BY <2>2, <2>3 DEF SoundIn
  <2> QED BY <1>1, <2>1, <2>4 DEF OnsetAt
<1>2. ~(i < j)
  BY <1>1
<1>3. ~(j < i)
  BY <1>1
<1> QED BY <1>2, <1>3

\* An onset that is forwarded.
LEMMA TalkingAnew ==
  ASSUME NEW c, NEW t, Len(t) \in Nat \ {0}, NEW u, Len(t) \in u, t[Len(t)].loud,
      ~t[Len(t)].ignored,
         OnsetAt(t, Len(t))
  PROVE  Talking(c, t, u)
<1> DEFINE n == Len(t)
<1>1. \A k \in n .. n : k = n
  OBVIOUS
<1>2. SoundIn(t, n, n)
  BY <1>1 DEF SoundIn
<1>3. ASSUME NEW j \in 1 .. n, SoundIn(t, j, n), OnsetAt(t, j) PROVE Reached(c, t, u, j, n)
  <2>1. n \in 1 .. n
    OBVIOUS
  <2>2. j = n
    BY <1>2, <1>3, <2>1, OneOnset
  <2> QED BY <1>1, <2>2 DEF Reached
<1>4. t # <<>>
  OBVIOUS
<1> QED BY <1>2, <1>3, <1>4 DEF Talking

\* The reason of sound just after an open gate, and of the silence of the padding.
LEMMA FollowsOn ==
  ASSUME NEW c, NEW t, NEW n \in Nat \ {0}, NEW u, NEW e \in u, e < n, t[e].loud,
      Joined(c, t, e, n),
         t[n].loud, ~t[n].ignored
  PROVE  Reason(c, t, u, n)
<1>1. \A k \in n .. n : k = n
  OBVIOUS
<1>2. SoundIn(t, n, n) /\ n \in 1 .. n
  BY <1>1 DEF SoundIn
<1>3. Following(c, t, u, n)
  BY DEF Following
<1> QED BY <1>2, <1>3 DEF Reason

\* While the gate is open there is sound, in a window, on which the next follows.
LEMMA OpenFollows ==
  ASSUME NEW r, NEW x, NEW t, NEW n, Grown(r, x, t, n), NEW c \in Configs,
         NEW f, f \subseteq 1 .. Len(r), NEW g \in {"speech", "pad-open", "pad-closed"},
         NEW ms \in Nat, NEW chunks, GateIs(c, r, f, g, ms, chunks)
  PROVE  \E e \in f : e < n /\ t[e].loud /\ Joined(c, t, e, n)
<1>1. /\ Len(r) \in Nat /\ n = Len(r) + 1 /\ n \in 1 .. Len(r) + 1
      /\ \A k \in 1 .. Len(r) : t[k] = r[k]
      /\ Later(r, t)
  BY DEF Grown, Later
<1>2. /\ \A k \in 0 .. Len(r) : Total(r, k) \in Nat
      /\ \A i, j \in 0 .. Len(r) : i <= j => Total(r, i) <= Total(r, j)
  BY DEF Grown, Later
<1>3. SUFFICES \E e \in 1 .. Len(r) : e \in f /\ r[e].loud /\ Joined(c, r, e, n)
  <2> SUFFICES ASSUME NEW e \in 1 .. Len(r), e \in f, r[e].loud, Joined(c, r, e, n)
               PROVE  e < n /\ t[e].loud /\ Joined(c, t, e, n)
    BY <1>3
  <2>1. e < n /\ t[e].loud
    BY <1>1
  <2> QED BY <1>1, <2>1, JoinedLater
<1>4. c.speech_pad \in Nat \ {0} /\ c.min_silence \in Nat \ {0}
  BY ConfigIs
<1>5. CASE g = "speech"
  <2> DEFINE e == Len(r)
  <2>1. Talking(c, r, f)
    BY <1>5 DEF GateIs
  <2>2. e \in f /\ e \in 1 .. Len(r) /\ r[e].loud
    BY <2>1 DEF Talking, SoundIn
  <2>3. Joined(c, r, e, n)
    BY <1>1 DEF Joined, SilentIn
  <2> QED BY <2>2, <2>3
<1>6. CASE g = "pad-open"
  <2>1. PICK e \in 1 .. Len(r) - 1 : PadOpen(c, r, f, ms, e)
    BY <1>6 DEF GateIs
  <2>2. e \in 1 .. Len(r) /\ e \in f /\ r[e].loud /\ SilentIn(r, e + 1, n - 1)
    BY <1>1, <2>1 DEF PadOpen
  <2>3. Joined(c, r, e, n)
    <3> DEFINE p == Len(r)
    <3>1. p \in e + 1 .. n - 1 /\ p = n - 1 /\ p \in 0 .. Len(r) /\ p - 1 \in 0 .. Len(r)
          /\ e \in 0 .. Len(r)
      BY <1>1
    <3>2. Total(r, n - 1) - Total(r, p) < c.min_silence
      BY <1>2, <1>4, <3>1
    <3>3. p <= e + 2 \/ Total(r, p - 1) - Total(r, e) < c.speech_pad
      <4>1. CASE e + 1 = Len(r)
        BY <1>1, <4>1
      <4>2. CASE e + 1 # Len(r)
        <5>1. Total(r, p) - Total(r, e) < c.speech_pad
          BY <2>1, <4>2 DEF PadOpen
        <5>2. Total(r, p - 1) <= Total(r, p) /\ Total(r, p - 1) \in Nat /\ Total(r, p) \in Nat
              /\ Total(r, e) \in Nat
          BY <1>1, <1>2, <3>1
        <5> HIDE DEF p
        <5> QED BY <1>4, <5>1, <5>2
      <4> QED BY <4>1, <4>2
    <3> QED BY <2>2, <3>1, <3>2, <3>3 DEF Joined
  <2> QED BY <2>2, <2>3
<1>7. CASE g = "pad-closed"
  <2>3. PICK e \in 1 .. Len(r) - 1 : \E p \in e + 1 .. Len(r) : PadClosed(c, r, f, ms, e, p)
    BY <1>7 DEF GateIs
  <2>1. PICK p \in e + 1 .. Len(r) : PadClosed(c, r, f, ms, e, p)
    BY <2>3
  <2>2. e \in 1 .. Len(r) /\ e \in f /\ r[e].loud /\ SilentIn(r, e + 1, n - 1) /\ n - 1 = Len(r)
    BY <1>1, <2>1 DEF PadClosed
  <2>4. Joined(c, r, e, n)
    BY <2>1, <2>2 DEF Joined, PadClosed
  <2> QED BY <2>2, <2>4
<1> QED BY <1>5, <1>6, <1>7
-----------------------------------------------------------------------------
(* The decisions of the gate, state by state.                              *)

SpeechStep(c, g, ms, x, h, m) ==
  \/ g = "silence" /\ x.loud /\ x.dur >= c.min_speech /\ h = "speech" /\ m = 0
  \/ g = "confirming" /\ x.loud /\ ms + x.dur >= c.min_speech /\ h = "speech" /\ m = 0
  \/ g \in {"speech", "pad-open", "pad-closed"} /\ x.loud /\ h = "speech" /\ m = 0
  \/ g = "speech" /\ ~x.loud /\ h = "pad-open" /\ m = x.dur
  \/ g = "pad-open" /\ ~x.loud /\ ms + x.dur < c.speech_pad /\ h = "pad-open" /\ m = ms + x.dur

SilenceStep(c, g, ms, x, h, m) ==
  \/ g \in {"silence", "confirming"} /\ ~x.loud /\ h = "silence"
  \/ g = "silence" /\ x.loud /\ x.dur < c.min_speech /\ h = "confirming" /\ m = x.dur
  \/ g = "confirming" /\ x.loud /\ ms + x.dur < c.min_speech /\ h = "confirming" /\ m = ms + x.dur
  \/ g = "pad-open" /\ ~x.loud /\ h = "pad-closed" /\ m = 0
  \/ g = "pad-closed" /\ ~x.loud /\ ms + x.dur < c.min_silence /\ h = "pad-closed" /\ m = ms + x.dur

\* What VadGate::process decides, by its states.
LEMMA DecisionIs ==
  ASSUME GateTypeOK, NEW chunk \in Chunk, NEW x, x.dur = chunk.dur, x.loud = chunk.loud, NEW d,
      Decided(chunk, d)
  PROVE  /\ d = "speech" => SpeechStep(config, gate, state_ms, x, gate', state_ms')
         /\ d = "silence" => SilenceStep(config, gate, state_ms, x, gate', state_ms')
         /\ d = "end" => gate = "pad-closed" /\ ~x.loud /\ gate' = "silence"
         /\ gate' \in {"silence", "confirming", "speech", "pad-open", "pad-closed"}
             /\ state_ms' \in Nat
<1>1. /\ chunk.dur \in Nat \ {0} /\ chunk.loud \in BOOLEAN /\ state_ms \in Nat
      /\ config.min_speech \in Nat \ {0} /\ config.speech_pad \in Nat \ {0}
          /\ config.min_silence \in Nat \ {0}
  BY ConfigIs, SpeechGateAssumption DEF Chunk, GateTypeOK
<1>2. Process(chunk).decision = d /\ gate' = Process(chunk).gate /\ state_ms' = Process(chunk).ms
  BY DEF Decided
<1>3. CASE gate = "silence"
  BY <1>1, <1>2, <1>3 DEF Process, FromSilence, Step, SpeechStep, SilenceStep
<1>4. CASE gate = "confirming"
  BY <1>1, <1>2, <1>4 DEF Process, FromConfirming, Step, SpeechStep, SilenceStep
<1>5. CASE gate = "speech"
  BY <1>1, <1>2, <1>5 DEF Process, WhileOpen, Step, SpeechStep, SilenceStep
<1>6. CASE gate = "pad-open"
  BY <1>1, <1>2, <1>6 DEF Process, WhileOpen, Step, SpeechStep, SilenceStep
<1>7. CASE gate = "pad-closed"
  BY <1>1, <1>2, <1>7 DEF Process, FromPadClosed, Step, SpeechStep, SilenceStep
<1> QED BY <1>3, <1>4, <1>5, <1>6, <1>7 DEF GateTypeOK

-----------------------------------------------------------------------------
(* The window that grows.                                                  *)

\* By sound on which its last sound is joined.
LEMMA WindowGrows ==
  ASSUME NEW c, NEW t, NEW n \in Nat \ {0}, NEW a \in 1 .. n, NEW p, p \subseteq 1 .. a - 1,
         OneSpeech(c, t, p), SoundIn(t, a, n),
         \A i \in p : t[i].loud /\ (\A k \in p : i < k => ~t[k].loud) => Joined(c, t, i, a)
  PROVE  OneSpeech(c, t, p \union a .. n)
<1> SUFFICES ASSUME NEW i \in p \union a .. n, NEW j \in p \union a .. n, t[i].loud, t[j].loud,
             i < j,
                    \A k \in p \union a .. n : i < k /\ k < j => ~t[k].loud
             PROVE  Joined(c, t, i, j)
  BY DEF OneSpeech
<1>1. CASE i \in p /\ j \in p
  BY <1>1 DEF OneSpeech
<1>2. CASE i \in p /\ j \in a .. n
  <2>1. a \in a .. n /\ t[a].loud /\ i < a
    BY <1>2 DEF SoundIn
  <2>2. j = a
    BY <1>2, <2>1
  <2>3. \A k \in p : i < k => ~t[k].loud
    <3>1. \A k \in p : k < a
      OBVIOUS
    <3> QED BY <2>2, <3>1
  <2> QED BY <1>2, <2>2, <2>3
<1>3. CASE i \in a .. n /\ j \in p
  BY <1>3
<1>4. CASE i \in a .. n /\ j \in a .. n
  <2>1. j = i + 1
    <3> SUFFICES ASSUME j # i + 1 PROVE FALSE
      OBVIOUS
    <3>1. i + 1 \in a .. n /\ i < i + 1 /\ i + 1 < j
      BY <1>4
    <3> QED BY <3>1 DEF SoundIn
  <2> QED BY <1>4, <2>1 DEF Joined, SilentIn
<1> QED BY <1>1, <1>2, <1>3, <1>4

\* By silence.
LEMMA WindowWaits ==
  ASSUME NEW c, NEW t, NEW n \in Nat \ {0}, NEW p, p \subseteq 1 .. n - 1, OneSpeech(c, t, p),
      ~t[n].loud
  PROVE  OneSpeech(c, t, p \union n .. n)
<1>1. \A k \in n .. n : k = n
  OBVIOUS
<1> QED BY <1>1 DEF OneSpeech

\* The last sound of a window is the last sound forwarded.
LEMMA LastSound ==
  ASSUME NEW c, NEW t, NEW n \in Nat \ {0}, NEW f, f \subseteq 1 .. n - 1, NEW p, p \subseteq f,
      Earlier(f \ p, p),
         NEW e \in f, t[e].loud, Joined(c, t, e, n),
         NEW i \in p, t[i].loud, \A k \in p : i < k => ~t[k].loud
  PROVE  Joined(c, t, i, n)
<1>1. \A k \in e + 1 .. n - 1 : ~t[k].loud
  BY DEF Joined, SilentIn
<1>2. i \in 1 .. n - 1 /\ e \in 1 .. n - 1
  OBVIOUS
<1>3. ~(e < i)
  <2>1. e < i => i \in e + 1 .. n - 1
    BY <1>2
  <2> QED BY <1>1, <2>1
<1>4. e \in p
  BY <1>3 DEF Earlier
<1>5. ~(i < e)
  BY <1>4
<1>6. i = e
  BY <1>2, <1>3, <1>5
<1> QED BY <1>6

-----------------------------------------------------------------------------
(* What speech adds to the window: the places from a to n.                 *)

Adds(c, r, t, f, g, h, m, chunks, n, a) ==
  /\ Len(chunks) = n - a /\ \A k \in 1 .. Len(chunks) : chunks[k].n = a + k - 1
  /\ \A i \in f : i < a
  /\ \A i \in a .. n : ~t[i].ignored /\ Reason(c, t, f \union a .. n, i)
  /\ SoundIsKept(c, t, f \union a .. n, n)
  /\ GateIs(c, t, f \union a .. n, h, m, <<>>)
  /\ \A p \in SUBSET f :
       Earlier(f \ p, p) /\ OneSpeech(c, r, p) /\ (g \in {"silence", "confirming"} => p = {}) =>
         OneSpeech(c, t, p \union a .. n)

\* Speech at once, after silence.
LEMMA AddsAtOnce ==
  ASSUME NEW r, NEW x, NEW t, NEW n, Grown(r, x, t, n), NEW c \in Configs,
         NEW f, f \subseteq 1 .. Len(r), NEW ms \in Nat, NEW chunks,
             GateIs(c, r, f, "silence", ms, chunks),
         x.loud, ~x.ignored, x.dur >= c.min_speech
  PROVE  Adds(c, r, t, f, "silence", "speech", 0, chunks, n, n)
<1> DEFINE u == f \union n .. n
<1>1. /\ Len(r) \in Nat /\ n = Len(r) + 1 /\ Len(t) = n /\ t[n] = x /\ n \in Nat \ {0}
         /\ n - 1 = Len(r)
      /\ Later(r, t) /\ Total(t, n) = Total(t, Len(r)) + x.dur /\ x.dur \in Nat
      /\ \A k \in 0 .. n : Total(t, k) \in Nat
  BY DEF Grown
<1>2. chunks = <<>> /\ OnsetAt(r, n)
  BY <1>1 DEF GateIs
<1>3. \A i \in f : i < n
  BY <1>1
<1>4. \A k \in n .. n : k = n
  BY <1>1
<1>5. n \in u
  BY <1>1
<1> HIDE DEF u
<1>6. SoundIn(t, n, n)
  BY <1>1, <1>4 DEF SoundIn
<1>7. Reason(c, t, u, n)
  <2>1. n \in n .. Len(t) /\ n \in 1 .. n
    BY <1>1
  <2>2. Total(t, n) - Total(t, n - 1) >= c.min_speech
    <3>1. Total(t, Len(r)) \in Nat /\ c.min_speech \in Nat
      BY <1>1, ConfigIs
    <3> QED BY <1>1, <3>1
  <2>3. Lasting(c, t, n, n)
    BY <1>6, <2>1, <2>2 DEF Lasting
  <2> QED BY <1>1, <1>6, <2>1, <2>3 DEF Reason
<1>8. Talking(c, t, u)
  <2>1. OnsetAt(t, n)
    BY <1>1, <1>2, OnsetLater
  <2> QED BY <1>1, <1>5, <2>1, TalkingAnew
<1>9. SoundIsKept(c, t, u, n)
  BY <1>1, <1>8, TalkingKept
<1>10. GateIs(c, t, u, "speech", 0, <<>>)
  BY <1>8 DEF GateIs
<1>11. OneSpeech(c, t, {} \union n .. n)
  BY <1>4 DEF OneSpeech
<1>12. \A i \in n .. n : ~t[i].ignored /\ Reason(c, t, u, i)
  BY <1>1, <1>4, <1>7
<1>13. Len(chunks) = n - n /\ \A k \in 1 .. Len(chunks) : chunks[k].n = n + k - 1
  BY <1>1, <1>2
<1> QED BY <1>3, <1>9, <1>10, <1>11, <1>12, <1>13 DEF Adds, u

\* Sound in an open gate.
LEMMA AddsSound ==
  ASSUME NEW r, NEW x, NEW t, NEW n, Grown(r, x, t, n), NEW c \in Configs,
         NEW f, f \subseteq 1 .. Len(r), NEW g \in {"speech", "pad-open", "pad-closed"},
         NEW ms \in Nat, NEW chunks, GateIs(c, r, f, g, ms, chunks), x.loud, ~x.ignored
  PROVE  Adds(c, r, t, f, g, "speech", 0, chunks, n, n)
<1> DEFINE u == f \union n .. n
<1>1. /\ Len(r) \in Nat /\ n = Len(r) + 1 /\ Len(t) = n /\ t[n] = x /\ n \in Nat \ {0}
         /\ n - 1 = Len(r)
      /\ Later(r, t) /\ \A k \in 1 .. Len(r) : t[k] = r[k]
      /\ \A k \in 0 .. Len(r) : Total(r, k) \in Nat
      /\ \A i, j \in 0 .. Len(r) : i <= j => Total(r, i) <= Total(r, j)
      /\ \A k \in 0 .. Len(r) : Total(t, k) = Total(r, k)
  BY DEF Grown, Later
<1>2. chunks = <<>>
  BY DEF GateIs
<1>3. PICK e \in f : e < n /\ t[e].loud /\ Joined(c, t, e, n)
  BY OpenFollows
<1>4. \A k \in n .. n : k = n
  BY <1>1
<1>5. n \in u /\ e \in u /\ f \subseteq u
  BY <1>1
<1> HIDE DEF u
<1>6. Reason(c, t, u, n)
  BY <1>1, <1>3, <1>5, FollowsOn
<1>7. SoundIn(t, n, n)
  BY <1>1, <1>4 DEF SoundIn
<1>8. Talking(c, t, u)
  <2>1. CASE g = "speech"
    <3>1. Talking(c, r, f)
      BY <2>1 DEF GateIs
    <3>2. ASSUME NEW j \in 1 .. n, SoundIn(t, j, n), OnsetAt(t, j) PROVE Reached(c, t, u, j, n)
      <4> SUFFICES ASSUME NEW i \in j .. n, i = n \/ Total(t, n - 1) - Total(t, i) < c.pre_roll
                   PROVE i \in u
        BY DEF Reached
      <4>1. CASE i = n
        BY <4>1, <1>5
      <4>2. CASE i # n
        <5>1. /\ i \in j .. Len(r) /\ j \in 1 .. Len(r) /\ j \in Nat \ {0} /\ Len(r) \in Int
                 /\ Len(r) <= Len(r)
              /\ j \in 1 .. Len(r) + 1 /\ Len(r) \in 1 .. Len(r)
          BY <1>1, <4>2
        <5>2. SoundIn(t, j, Len(r))
          BY <1>1, <3>2 DEF SoundIn
        <5>3. SoundIn(r, j, Len(r)) /\ OnsetAt(r, j)
          BY <1>1, <3>2, <5>1, <5>2, SoundLater, OnsetLater
        <5>4. Reached(c, r, f, j, Len(r))
          BY <3>1, <5>1, <5>3 DEF Talking
        <5>5. Total(r, Len(r)) - Total(r, i) < c.pre_roll
          <6>1. Len(r) \in 0 .. Len(r) /\ i \in 0 .. Len(r)
            BY <1>1, <5>1
          <6> QED BY <1>1, <4>2, <6>1
        <5>6. CASE i = Len(r)
          BY <5>6, <1>5, <3>1 DEF Talking
        <5>7. CASE i # Len(r)
          <6>1. Total(r, Len(r) - 1) - Total(r, i) < c.pre_roll
            <7>1. Len(r) - 1 \in 0 .. Len(r) /\ Len(r) \in 0 .. Len(r) /\ i \in 0 .. Len(r)
              BY <1>1, <5>1
            <7>2. /\ Total(r, Len(r) - 1) \in Nat /\ Total(r, Len(r)) \in Nat /\ Total(r, i) \in Nat
                  /\ Total(r, Len(r) - 1) <= Total(r, Len(r)) /\ c.pre_roll \in Nat
              BY <1>1, <7>1, ConfigIs
            <7> QED BY <5>5, <7>2
          <6> QED BY <5>1, <5>4, <6>1, <1>5 DEF Reached
        <5> QED BY <5>6, <5>7
      <4> QED BY <4>1, <4>2
    <3>3. t # <<>>
      BY <1>1
    <3> QED BY <1>1, <1>5, <1>7, <3>2, <3>3 DEF Talking
  <2>2. CASE g # "speech"
    <3>1. Len(r) # 0 /\ ~r[Len(r)].loud
      <4>1. CASE g = "pad-open"
        <5>1. PICK d \in 1 .. Len(r) - 1 : SilentIn(r, d + 1, Len(r))
          BY <4>1 DEF GateIs, PadOpen
        <5>2. Len(r) \in d + 1 .. Len(r)
          BY <1>1
        <5> QED BY <1>1, <5>1, <5>2 DEF SilentIn
      <4>2. CASE g = "pad-closed"
        <5>1. PICK d \in 1 .. Len(r) - 1 : SilentIn(r, d + 1, Len(r))
          BY <4>2 DEF GateIs, PadClosed
        <5>2. Len(r) \in d + 1 .. Len(r)
          BY <1>1
        <5> QED BY <1>1, <5>1, <5>2 DEF SilentIn
      <4> QED BY <2>2, <4>1, <4>2
    <3>2. OnsetAt(r, n)
      BY <1>1, <3>1, OnsetAfter
    <3>3. OnsetAt(t, n)
      BY <1>1, <3>2, OnsetLater
    <3> QED BY <1>1, <1>5, <3>3, TalkingAnew
  <2> QED BY <2>1, <2>2
<1>9. SoundIsKept(c, t, u, n)
  BY <1>1, <1>8, TalkingKept
<1>10. GateIs(c, t, u, "speech", 0, <<>>)
  BY <1>8 DEF GateIs
<1>11. ASSUME NEW p \in SUBSET f, Earlier(f \ p, p), OneSpeech(c, r, p)
       PROVE  OneSpeech(c, t, p \union n .. n)
  <2>1. f \subseteq 1 .. n - 1 /\ p \subseteq 1 .. n - 1 /\ p \subseteq 1 .. Len(r) /\ p \subseteq f
    BY <1>1
  <2>2. ASSUME NEW i \in p, t[i].loud, \A k \in p : i < k => ~t[k].loud PROVE Joined(c, t, i, n)
    <3>1. t[e].loud /\ Joined(c, t, e, n) /\ n \in Nat \ {0}
      BY <1>1, <1>3
    <3> QED BY <1>11, <2>1, <2>2, <3>1, LastSound
  <2>3. OneSpeech(c, t, p)
    BY <1>1, <1>11, <2>1, OneSpeechLater
  <2>4. n \in 1 .. n
    BY <1>1
  <2> QED BY <1>1, <1>7, <2>1, <2>2, <2>3, <2>4, WindowGrows
<1>12. \A i \in n .. n : ~t[i].ignored /\ Reason(c, t, u, i)
  BY <1>1, <1>4, <1>6
<1>13. Len(chunks) = n - n /\ \A k \in 1 .. Len(chunks) : chunks[k].n = n + k - 1
  BY <1>1, <1>2
<1>14. \A i \in f : i < n
  BY <1>1
<1> QED BY <1>9, <1>10, <1>11, <1>12, <1>13, <1>14 DEF Adds, u

\* Sound that lasts long enough, with what was held of it.
LEMMA AddsConfirmed ==
  ASSUME NEW r, NEW x, NEW t, NEW n, Grown(r, x, t, n), NEW c \in Configs,
         NEW f, f \subseteq 1 .. Len(r), NEW ms \in Nat, NEW chunks,
             GateIs(c, r, f, "confirming", ms, chunks),
         x.loud, ~x.ignored, ms + x.dur >= c.min_speech
  PROVE  \E a \in 1 .. n : Adds(c, r, t, f, "confirming", "speech", 0, chunks, n, a)
<1>1. PICK b \in 1 .. Len(r) : \E a \in b .. Len(r) + 1 : Confirming(c, r, f, ms, chunks, b, a)
  BY DEF GateIs
<1>2. PICK a \in b .. Len(r) + 1 : Confirming(c, r, f, ms, chunks, b, a)
  BY <1>1
<1> DEFINE u == f \union a .. n
<1>3. /\ Len(r) \in Nat /\ n = Len(r) + 1 /\ Len(t) = n /\ t[n] = x /\ n \in Nat \ {0}
         /\ n - 1 = Len(r)
      /\ Later(r, t) /\ Total(t, n) = Total(t, Len(r)) + x.dur /\ x.dur \in Nat
      /\ \A k \in 0 .. Len(r) : Total(r, k) \in Nat
      /\ \A k \in 0 .. Len(r) : Total(t, k) = Total(r, k)
      /\ \A i, j \in 0 .. Len(r) : i <= j => Total(r, i) <= Total(r, j)
  BY SMTT(60), GrownIs
<1>4. a \in 1 .. n /\ b \in 1 .. n /\ b <= a /\ b \in Nat \ {0} /\ b - 1 \in 0 .. Len(r)
      /\ b \in 1 .. Len(r) + 1
  BY <1>3
<1>5. n \in u /\ a .. n \subseteq u
  BY <1>3, <1>4
<1>6. SoundIn(t, b, n)
  <2>1. SoundIn(t, b, Len(r))
    BY <1>2, <1>3, <1>4, SoundLater DEF Confirming
  <2>2. \A k \in b .. n : k = n \/ k \in b .. Len(r)
    BY <1>3, <1>4
  <2> QED BY <1>3, <2>1, <2>2 DEF SoundIn
<1>7. OnsetAt(t, b)
  BY <1>2, <1>3, <1>4, OnsetLater DEF Confirming
<1>8. Total(t, n) - Total(t, b - 1) >= c.min_speech
  <2>3. Len(r) \in 0 .. Len(r) /\ Total(t, Len(r)) = Total(r, Len(r))
        /\ Total(t, b - 1) = Total(r, b - 1)
    BY <1>3, <1>4
  <2>1. ms = Total(t, Len(r)) - Total(t, b - 1) /\ Len(r) \in 0 .. Len(r)
    BY <1>2, <2>3 DEF Confirming
  <2>2. Total(t, Len(r)) \in Nat /\ Total(t, b - 1) \in Nat /\ c.min_speech \in Nat
    BY <1>3, <1>4, <2>1, ConfigIs
  <2> QED BY <1>3, <2>1, <2>2
<1> HIDE DEF u
<1>9. ASSUME NEW i \in a .. n PROVE ~t[i].ignored /\ Reason(c, t, u, i)
  <2>1. i \in b .. n /\ b \in 1 .. i /\ n \in i .. Len(t)
    BY <1>3, <1>4
  <2>2. SoundIn(t, b, i) /\ SoundIn(t, i, n) /\ t[i].loud /\ ~t[i].ignored
    BY <1>6, <2>1 DEF SoundIn
  <2>3. Lasting(c, t, b, i)
    BY <1>8, <2>1, <2>2 DEF Lasting
  <2> QED BY <2>1, <2>2, <2>3 DEF Reason
<1>10. Talking(c, t, u)
  <2>1. ASSUME NEW j \in 1 .. n, SoundIn(t, j, n), OnsetAt(t, j) PROVE Reached(c, t, u, j, n)
    <3>1. j = b
      BY <1>3, <1>4, <1>6, <1>7, <2>1, OneOnset
    <3>2. ASSUME NEW i \in b .. n, i = n \/ Total(t, n - 1) - Total(t, i) < c.pre_roll PROVE i \in u
      <4>1. CASE i = n
        BY <4>1, <1>5
      <4>2. CASE i # n
        <5>1. i \in b .. Len(r) /\ i \in 0 .. Len(r) /\ Len(r) \in 0 .. Len(r)
          BY <1>3, <1>4, <4>2
        <5>2. Total(r, Len(r)) - Total(r, i) < c.pre_roll
          BY <1>3, <3>2, <4>2, <5>1
        <5>3. a <= i
          BY <1>2, <5>1, <5>2 DEF Confirming
        <5>4. i \in a .. n
          BY <1>4, <5>3
        <5> QED BY <1>5, <5>4
      <4> QED BY <4>1, <4>2
    <3> QED BY <3>1, <3>2 DEF Reached
  <2>2. SoundIn(t, n, n)
    <3>1. \A k \in n .. n : k \in b .. n
      BY <1>4
    <3> QED BY <1>6, <3>1 DEF SoundIn
  <2>3. t # <<>>
    BY <1>3
  <2> QED BY <1>3, <1>5, <2>1, <2>2, <2>3 DEF Talking
<1>11. SoundIsKept(c, t, u, n)
  BY <1>3, <1>10, TalkingKept
<1>12. GateIs(c, t, u, "speech", 0, <<>>)
  BY <1>10 DEF GateIs
<1>13. OneSpeech(c, t, {} \union a .. n)
  <2>1. SoundIn(t, a, n)
    <3>1. \A k \in a .. n : k \in b .. n
      BY <1>4
    <3> QED BY <1>6, <3>1 DEF SoundIn
  <2>2. OneSpeech(c, t, {})
    BY DEF OneSpeech
  <2> QED BY <1>3, <1>4, <2>1, <2>2, WindowGrows
<1>14. Len(chunks) = n - a /\ \A k \in 1 .. Len(chunks) : chunks[k].n = a + k - 1
  <2>1. HeldFrom(chunks, r, a)
    BY <1>2 DEF Confirming
  <2>2. Len(chunks) = n - a
    BY <1>3, <2>1 DEF HeldFrom
  <2>3. \A k \in 1 .. Len(chunks) : chunks[k].n = a + k - 1
    BY <2>1 DEF HeldFrom
  <2> QED BY <2>2, <2>3
<1>15. \A i \in f : i < a
  <2>1. \A i \in f : i < b /\ i \in Nat
    BY <1>2 DEF Confirming
  <2> QED BY <1>4, <2>1
<1>16. Adds(c, r, t, f, "confirming", "speech", 0, chunks, n, a)
  BY <1>9, <1>11, <1>12, <1>13, <1>14, <1>15 DEF Adds, u
<1> QED BY <1>4, <1>16

\* The silence of the padding.
LEMMA AddsPadding ==
  ASSUME NEW r, NEW x, NEW t, NEW n, Grown(r, x, t, n), NEW c \in Configs,
         NEW f, f \subseteq 1 .. Len(r), NEW g, NEW ms \in Nat, NEW chunks,
             GateIs(c, r, f, g, ms, chunks),
         ~x.loud, ~x.ignored, NEW m \in Nat,
         \/ g = "speech" /\ m = x.dur
         \/ g = "pad-open" /\ ms + x.dur < c.speech_pad /\ m = ms + x.dur
  PROVE  Adds(c, r, t, f, g, "pad-open", m, chunks, n, n)
<1> DEFINE u == f \union n .. n
<1>1. /\ Len(r) \in Nat /\ n = Len(r) + 1 /\ Len(t) = n /\ t[n] = x /\ n \in Nat \ {0}
         /\ n - 1 = Len(r)
      /\ Later(r, t) /\ Total(t, n) = Total(t, Len(r)) + x.dur /\ x.dur \in Nat
      /\ \A k \in 1 .. Len(r) : t[k] = r[k]
      /\ \A k \in 0 .. Len(r) : Total(r, k) \in Nat
      /\ \A k \in 0 .. Len(r) : Total(t, k) = Total(r, k)
  BY SMTT(60), GrownIs
<1>2. chunks = <<>>
  BY DEF GateIs
<1>3. \A k \in n .. n : k = n
  BY <1>1
<1>4. f \subseteq u
  OBVIOUS
<1> HIDE DEF u
<1>5. \E e \in 1 .. n - 1 : PadOpen(c, t, u, m, e)
  <2>1. CASE g = "speech"
    <3> DEFINE e == Len(r)
    <3>1. e \in 1 .. n - 1 /\ e \in u /\ t[e].loud
      BY <1>1, <1>4, <2>1 DEF GateIs, Talking, SoundIn
    <3>2. SilentIn(t, e + 1, n)
      BY <1>1, <1>3 DEF SilentIn
    <3>3. m = Total(t, n) - Total(t, e) /\ e + 1 = n
      <4>1. Total(t, e) \in Nat
        BY <1>1
      <4> QED BY <1>1, <2>1, <4>1
    <3> QED BY <1>1, <3>1, <3>2, <3>3 DEF PadOpen
  <2>2. CASE g = "pad-open"
    <3>1. PICK e \in 1 .. Len(r) - 1 : PadOpen(c, r, f, ms, e)
      BY <2>2 DEF GateIs
    <3>a. e \in f /\ r[e].loud
      BY <3>1 DEF PadOpen
    <3>b. e \in 1 .. n - 1 /\ e \in 1 .. Len(r) /\ e \in 0 .. Len(r) /\ e + 1 \in Nat \ {0}
      BY <1>1, <3>1
    <3>c. t[e] = r[e]
      BY <1>1, <3>b
    <3>2. e \in 1 .. n - 1 /\ e \in u /\ t[e].loud /\ e \in 0 .. Len(r) /\ e + 1 \in Nat \ {0}
      BY <1>4, <3>a, <3>b, <3>c
    <3>3. SilentIn(t, e + 1, n)
      <4>3. SilentIn(r, e + 1, Len(r))
        BY <3>1 DEF PadOpen
      <4>4. Len(r) \in Int /\ Len(r) <= Len(r)
        BY <1>1
      <4>1. SilentIn(t, e + 1, Len(r))
        BY <1>1, <3>2, <4>3, <4>4, SoundLater
      <4>2. \A k \in e + 1 .. n : k = n \/ k \in e + 1 .. Len(r)
        BY <1>1, <3>2
      <4> QED BY <1>1, <4>1, <4>2 DEF SilentIn
    <3>4. m = Total(t, n) - Total(t, e) /\ m < c.speech_pad
      <4>3. ms = Total(r, Len(r)) - Total(r, e)
        BY <3>1 DEF PadOpen
      <4>4. Len(r) \in 0 .. Len(r)
        BY <1>1
      <4>1. ms = Total(t, Len(r)) - Total(t, e)
        BY <1>1, <3>2, <4>3, <4>4
      <4>2. Total(t, e) \in Nat /\ Total(t, Len(r)) \in Nat
        BY <1>1, <3>2
      <4>5. Total(t, n) = Total(t, Len(r)) + x.dur /\ x.dur \in Nat
        BY <1>1
      <4>6. (Total(t, Len(r)) + x.dur) - Total(t, e) = (Total(t, Len(r)) - Total(t, e)) + x.dur
        BY <4>2, <4>5, Shift
      <4>7. m = ms + x.dur /\ m < c.speech_pad
        BY <2>2
      <4> QED BY <4>1, <4>5, <4>6, <4>7
    <3> QED BY <1>1, <3>2, <3>3, <3>4 DEF PadOpen
  <2> QED BY <2>1, <2>2
<1>6. PICK e \in 1 .. n - 1 : PadOpen(c, t, u, m, e)
  BY <1>5
<1>7. Reason(c, t, u, n)
  <2>1. Padding(c, t, e, n)
    BY <1>1, <1>6 DEF PadOpen, Padding
  <2> QED BY <1>1, <1>6, <2>1 DEF Reason, PadOpen
<1>8. SoundIsKept(c, t, u, n)
  BY <1>1, QuietKept
<1>9. GateIs(c, t, u, "pad-open", m, <<>>)
  BY <1>1, <1>5 DEF GateIs
<1>10. ASSUME NEW p \in SUBSET f, OneSpeech(c, r, p)
       PROVE  OneSpeech(c, t, p \union n .. n)
  <2>1. p \subseteq 1 .. n - 1 /\ p \subseteq 1 .. Len(r)
    BY <1>1
  <2>2. OneSpeech(c, t, p)
    BY <1>1, <1>10, <2>1, OneSpeechLater
  <2> QED BY <1>1, <2>1, <2>2, WindowWaits
<1>11. \A i \in n .. n : ~t[i].ignored /\ Reason(c, t, u, i)
  BY <1>1, <1>3, <1>7
<1>12. Len(chunks) = n - n /\ \A k \in 1 .. Len(chunks) : chunks[k].n = n + k - 1
  BY <1>1, <1>2
<1>13. \A i \in f : i < n
  BY <1>1
<1> QED BY <1>8, <1>9, <1>10, <1>11, <1>12, <1>13 DEF Adds, u

\* Whatever speech is.
LEMMA SpeechAdds ==
  ASSUME NEW r, NEW x, NEW t, NEW n, Grown(r, x, t, n), NEW c \in Configs,
         NEW f, f \subseteq 1 .. Len(r), NEW g, NEW ms \in Nat, NEW chunks,
             GateIs(c, r, f, g, ms, chunks),
         ~x.ignored, NEW h, NEW m \in Nat, SpeechStep(c, g, ms, x, h, m)
  PROVE  \E a \in 1 .. n : Adds(c, r, t, f, g, h, m, chunks, n, a)
<1>1. n \in 1 .. n /\ x.loud \in BOOLEAN
  BY DEF Grown, Receipt
<1>2. CASE g = "silence"
  BY <1>1, <1>2, AddsAtOnce DEF SpeechStep
<1>3. CASE g = "confirming"
  <2>1. x.loud /\ ms + x.dur >= c.min_speech /\ h = "speech" /\ m = 0
    BY <1>3 DEF SpeechStep
  <2>2. GateIs(c, r, f, "confirming", ms, chunks)
    BY <1>3
  <2>3. \E a \in 1 .. n : Adds(c, r, t, f, "confirming", "speech", 0, chunks, n, a)
    BY <2>1, <2>2, AddsConfirmed
  <2> QED BY <1>3, <2>1, <2>3
<1>4. CASE g \in {"speech", "pad-open", "pad-closed"} /\ x.loud
  <2>1. h = "speech" /\ m = 0
    BY <1>4 DEF SpeechStep
  <2> QED BY <1>1, <1>4, <2>1, AddsSound
<1>5. CASE g \in {"speech", "pad-open", "pad-closed"} /\ ~x.loud
  <2>1. h = "pad-open" /\ \/ g = "speech" /\ m = x.dur
                          \/ g = "pad-open" /\ ms + x.dur < c.speech_pad /\ m = ms + x.dur
    BY <1>5 DEF SpeechStep
  <2> QED BY <1>1, <1>5, <2>1, AddsPadding
<1> QED BY <1>2, <1>3, <1>4, <1>5 DEF SpeechStep

-----------------------------------------------------------------------------
(* What is held is the last chunks, and after trimming too.                *)

\* The durations are numbers.
LEMMA ReceiptsAre == (\A x \in Receipt : x.dur \in Nat) /\ (\A x \in Buffer : x.dur \in Nat)
  BY SpeechGateAssumption DEF Receipt, Buffer

\* The totals of what is held are those of what was received.
LEMMA HeldTotals ==
  ASSUME NEW t \in Seq(Receipt), NEW chunks \in Seq(Buffer), NEW x \in 1 .. Len(t) + 1,
      HeldFrom(chunks, t, x)
  PROVE  \A i \in 0 .. Len(chunks) : Total(chunks, i) = Total(t, x + i - 1) - Total(t, x - 1)
<1> DEFINE N == Len(t)
           L == Len(chunks)
           T == {i \in Nat : i <= L => Total(chunks, i) = Total(t, x + i - 1) - Total(t, x - 1)}
<1>1. N \in Nat /\ L \in Nat /\ L = N + 1 - x /\ x \in 1 .. N + 1
  BY ChunksAre DEF HeldFrom
<1>2. Total(chunks, 0) = 0
      /\ \A i \in 1 .. L : Total(chunks, i) = Total(chunks, i - 1) + chunks[i].dur
  BY ReceiptsAre, TotalsAre
<1>3. /\ \A k \in 0 .. N : Total(t, k) \in Nat
      /\ \A k \in 1 .. N : Total(t, k) = Total(t, k - 1) + t[k].dur
  BY ReceiptsAre, TotalsAre
<1>4. \A i \in 1 .. L : chunks[i].dur = t[x + i - 1].dur
  <2> SUFFICES ASSUME NEW i \in 1 .. L PROVE chunks[i].dur = t[x + i - 1].dur
    OBVIOUS
  <2>1. chunks[i] = [n |-> x + i - 1, dur |-> t[x + i - 1].dur]
    BY DEF HeldFrom
  <2> QED BY <2>1
<1>5. \A k \in 1 .. N : t[k].dur \in Nat
  BY ReceiptsAre, ChunksAre
<1> HIDE DEF N, L
<1>6. 0 \in T
  <2>1. x + 0 - 1 = x - 1 /\ x - 1 \in 0 .. N
    BY <1>1
  <2> QED BY <1>2, <1>3, <2>1
<1>7. ASSUME NEW i \in Nat, i \in T PROVE i + 1 \in T
  <2> SUFFICES ASSUME i + 1 <= L
               PROVE Total(chunks, i + 1) = Total(t, x + (i + 1) - 1) - Total(t, x - 1)
    OBVIOUS
  <2> DEFINE k == x + i
  <2>1. /\ i + 1 \in 1 .. L /\ (i + 1) - 1 = i /\ i <= L /\ x + (i + 1) - 1 = k /\ x + i - 1 = k - 1
        /\ k \in 1 .. N /\ k \in 0 .. N /\ k - 1 \in 0 .. N /\ x - 1 \in 0 .. N
    BY <1>1
  <2>2. Total(chunks, i) = Total(t, k - 1) - Total(t, x - 1)
    BY <1>7, <2>1
  <2>3. Total(chunks, i + 1) = Total(chunks, i) + t[k].dur
    BY <1>2, <1>4, <2>1
  <2>4. Total(t, k) = Total(t, k - 1) + t[k].dur
    BY <1>3, <2>1
  <2>5. Total(t, k) \in Nat /\ Total(t, k - 1) \in Nat /\ Total(t, x - 1) \in Nat
        /\ t[k].dur \in Nat
    BY <1>3, <1>5, <2>1
  <2>6. Total(t, x + (i + 1) - 1) = Total(t, k)
    BY <2>1
  <2>7. (Total(t,
        k - 1) + t[k].dur) - Total(t, x - 1) = (Total(t, k - 1) - Total(t, x - 1)) + t[k].dur
    BY <2>5, Shift
  <2> HIDE DEF k
  <2> QED BY <2>2, <2>3, <2>4, <2>6, <2>7
<1> HIDE DEF T
<1>8. \A i \in Nat : i \in T
  BY <1>6, <1>7, Induct
<1>9. \A i \in 0 .. L : Total(chunks, i) = Total(t, x + i - 1) - Total(t, x - 1)
  BY <1>1, <1>8 DEF T
<1> QED BY <1>9 DEF L

\* The time held after one of the chunks.
LEMMA HeldTime ==
  ASSUME NEW t \in Seq(Receipt), NEW chunks \in Seq(Buffer), NEW x \in 1 .. Len(t) + 1,
      HeldFrom(chunks, t, x),
         NEW i \in 1 .. Len(chunks)
  PROVE  Time(SubSeq(chunks, i + 1, Len(chunks))) = Total(t, Len(t)) - Total(t, x + i - 1)
<1> DEFINE N == Len(t)
           L == Len(chunks)
<1>1. N \in Nat /\ L \in Nat /\ L = N + 1 - x /\ x \in 1 .. N + 1 /\ i \in 1 .. L
  BY ChunksAre DEF HeldFrom
<1>2. \A j \in 1 .. L + 1 : \A k \in j - 1 .. L : Time(SubSeq(chunks,
      j, k)) = Total(chunks, k) - Total(chunks, j - 1)
  BY ReceiptsAre, TotalsAre
<1>3. \A k \in 0 .. N : Total(t, k) \in Nat
  BY ReceiptsAre, TotalsAre
<1>4. \A k \in 0 .. L : Total(chunks, k) = Total(t, x + k - 1) - Total(t, x - 1)
  BY HeldTotals
<1> HIDE DEF N, L
<1>5. /\ i + 1 \in 1 .. L + 1 /\ L \in (i + 1) - 1 .. L /\ (i + 1) - 1 = i /\ i \in 0 .. L
         /\ L \in 0 .. L
      /\ x + L - 1 = N /\ x + i - 1 \in 0 .. N /\ x - 1 \in 0 .. N /\ N \in 0 .. N
  BY <1>1
<1>6. Time(SubSeq(chunks, i + 1, L)) = Total(chunks, L) - Total(chunks, i)
  BY <1>2, <1>5
<1>7. Total(chunks, L) = Total(t, N) - Total(t, x - 1)
      /\ Total(chunks, i) = Total(t, x + i - 1) - Total(t, x - 1)
  BY <1>4, <1>5
<1>8. Total(t, N) \in Nat /\ Total(t, x - 1) \in Nat /\ Total(t, x + i - 1) \in Nat
  BY <1>3, <1>5
<1>9. Time(SubSeq(chunks, i + 1, L)) = Total(t, N) - Total(t, x + i - 1)
  BY <1>6, <1>7, <1>8
<1> QED BY <1>9 DEF N, L

\* What grows along a sequence has a first place.
LEMMA FirstPlace ==
  ASSUME NEW L \in Nat, NEW S, S \subseteq 1 .. L, \A i \in S : \A j \in 1 .. L : i <= j => j \in S
  PROVE  \E k \in 1 .. L + 1 : \A i \in 1 .. L : i >= k <=> i \in S
<1>1. CASE S = {}
  <2>1. L + 1 \in 1 .. L + 1 /\ \A i \in 1 .. L : ~(i >= L + 1)
    OBVIOUS
  <2> QED BY <1>1, <2>1
<1>2. CASE S # {}
  <2>1. S \subseteq Nat
    OBVIOUS
  <2>2. PICK k \in S : \A m \in S : k <= m
    BY <1>2, <2>1, Least
  <2>3. k \in 1 .. L + 1 /\ \A i \in 1 .. L : i >= k <=> i \in S
    BY <2>2
  <2> QED BY <2>3
<1> QED BY <1>1, <1>2

\* Trimming leaves the last chunks that the pre-roll reaches.
LEMMA TrimIs ==
  ASSUME NEW t \in Seq(Receipt), NEW chunks \in Seq(Buffer), NEW x \in 1 .. Len(t) + 1,
      HeldFrom(chunks, t, x),
         config \in Configs
  PROVE  \E y \in x .. Len(t) + 1 :
           /\ Trim(chunks) \in Seq(Buffer) /\ HeldFrom(Trim(chunks), t, y)
           /\ \A i \in x .. Len(t) : y <= i <=> Total(t, Len(t)) - Total(t, i) < config.pre_roll
<1> DEFINE N == Len(t)
           L == Len(chunks)
           Short(i) == Time(SubSeq(chunks, i + 1, L)) < config.pre_roll
           First(k) == \A i \in 1 .. L : i >= k <=> Short(i)
           from == CHOOSE k \in 1 .. L + 1 : First(k)
           S == {i \in 1 .. L : Short(i)}
<1>1. N \in Nat /\ L \in Nat /\ L = N + 1 - x /\ x \in 1 .. N + 1
  BY ChunksAre DEF HeldFrom
<1>2. \A i \in 1 .. L : Time(SubSeq(chunks, i + 1, L)) = Total(t, N) - Total(t, x + i - 1)
  BY HeldTime
<1>3. /\ \A k \in 0 .. N : Total(t, k) \in Nat
      /\ \A k, l \in 0 .. N : k <= l => Total(t, k) <= Total(t, l)
  BY ReceiptsAre, TotalsAre
<1>4. config.pre_roll \in Nat
  BY ConfigIs
<1>5. Trim(chunks) = SubSeq(chunks, from, L)
  BY DEF Trim
<1>6. \A k \in 1 .. L : chunks[k] = [n |-> x + k - 1, dur |-> t[x + k - 1].dur]
  BY DEF HeldFrom
<1>7. \A j \in 1 .. L + 1 : /\ SubSeq(chunks, j, L) \in Seq(Buffer)
                               /\ Len(SubSeq(chunks, j, L)) = L - j + 1
                           /\ \A k \in 1 .. L - j + 1 : SubSeq(chunks, j, L)[k] = chunks[j + k - 1]
  <2> SUFFICES ASSUME NEW j \in 1 .. L + 1
               PROVE  /\ SubSeq(chunks, j, L) \in Seq(Buffer)
                         /\ Len(SubSeq(chunks, j, L)) = L - j + 1
                      /\ \A k \in 1 .. L - j + 1 : SubSeq(chunks, j, L)[k] = chunks[j + k - 1]
    OBVIOUS
  <2>1. L \in j - 1 .. L
    BY <1>1
  <2> QED BY <2>1, PartIs
<1> HIDE DEF N, L
<1>8. ASSUME NEW i \in 1 .. L
      PROVE  /\ x + i - 1 \in 0 .. N /\ x + i - 1 \in x .. N
             /\ Short(i) <=> Total(t, N) - Total(t, x + i - 1) < config.pre_roll
  BY <1>1, <1>2
<1>9. ASSUME NEW i \in S, NEW j \in 1 .. L, i <= j PROVE j \in S
  <2> DEFINE a == x + i - 1
             b == x + j - 1
  <2>1. i \in 1 .. L /\ Short(i)
    OBVIOUS
  <2>2. a \in 0 .. N /\ b \in 0 .. N /\ a <= b /\ N \in 0 .. N
    BY <1>1, <1>8, <1>9
  <2>3. Total(t, N) - Total(t, a) < config.pre_roll
    BY <1>8, <2>1
  <2>4. Total(t, a) <= Total(t, b) /\ Total(t, a) \in Nat /\ Total(t, b) \in Nat
        /\ Total(t, N) \in Nat
    BY <1>3, <2>2
  <2>5. Total(t, N) - Total(t, b) < config.pre_roll
    <3> HIDE DEF a, b
    <3> QED BY <1>4, <2>3, <2>4
  <2>6. Short(j)
    BY <1>8, <2>5
  <2> QED BY <2>6
<1>10. \E k \in 1 .. L + 1 : First(k)
  <2>1. \A i \in S : \A j \in 1 .. L : i <= j => j \in S
    BY <1>9
  <2>2. PICK k \in 1 .. L + 1 : \A i \in 1 .. L : i >= k <=> i \in S
    <3>1. S \subseteq 1 .. L
      OBVIOUS
    <3> HIDE DEF S
    <3> QED BY <1>1, <2>1, <3>1, FirstPlace
  <2> QED BY <2>2
<1> HIDE DEF S
<1>11. from \in 1 .. L + 1 /\ First(from)
  <2> HIDE DEF First
  <2> QED BY <1>10
<1> HIDE DEF from
<1> DEFINE y == x + from - 1
<1>12. y \in x .. N + 1 /\ L - from + 1 = N + 1 - y
  BY <1>1, <1>11
<1>13. HeldFrom(Trim(chunks), t, y) /\ Trim(chunks) \in Seq(Buffer)
  <2>1. /\ Trim(chunks) \in Seq(Buffer) /\ Len(Trim(chunks)) = N + 1 - y
        /\ \A k \in 1 .. L - from + 1 : Trim(chunks)[k] = chunks[from + k - 1]
    BY <1>5, <1>7, <1>11, <1>12
  <2>2. ASSUME NEW k \in 1 .. L - from + 1
        PROVE Trim(chunks)[k] = [n |-> y + k - 1, dur |-> t[y + k - 1].dur]
    <3>1. from + k - 1 \in 1 .. L /\ x + (from + k - 1) - 1 = y + k - 1
      BY <1>1, <1>11
    <3>2. Trim(chunks)[k] = chunks[from + k - 1]
      BY <2>1
    <3>3. chunks[from + k - 1] = [n |-> x + (from + k - 1) - 1,
          dur |-> t[x + (from + k - 1) - 1].dur]
      BY <1>6, <3>1
    <3> QED BY <3>1, <3>2, <3>3
  <2> HIDE DEF y
  <2> QED BY <2>1, <2>2, <1>12 DEF HeldFrom, N
<1>14. ASSUME NEW i \in x .. N PROVE y <= i <=> Total(t, N) - Total(t, i) < config.pre_roll
  <2> DEFINE j == i - x + 1
  <2>1. j \in 1 .. L /\ x + j - 1 = i
    BY <1>1
  <2>2. j >= from <=> Short(j)
    BY <1>11, <2>1
  <2>3. Short(j) <=> Total(t, N) - Total(t, i) < config.pre_roll
    BY <1>8, <2>1
  <2>4. y <= i <=> j >= from
    BY <1>1, <1>11
  <2> QED BY <2>2, <2>3, <2>4
<1> QED BY <1>12, <1>13, <1>14 DEF N

-----------------------------------------------------------------------------
(* What a chunk that is not speech, or not yet, leaves.                    *)

\* The first sound after silence is confirmed from itself on.
LEMMA SoundBegins ==
  ASSUME NEW r, NEW x, NEW t, NEW n, Grown(r, x, t, n), config \in Configs,
         NEW f, f \subseteq 1 .. Len(r), NEW ms \in Nat, NEW chunks,
             GateIs(config, r, f, "silence", ms, chunks),
         x.loud, ~x.ignored, x.dur < config.min_speech,
         NEW held, held = Trim(Append(chunks, [n |-> n, dur |-> x.dur]))
  PROVE  GateIs(config, t, f, "confirming", x.dur, held) /\ held \in Seq(Buffer)
<1>1. /\ Len(r) \in Nat /\ n = Len(r) + 1 /\ Len(t) = n /\ t[n] = x /\ n \in Nat \ {0}
         /\ n - 1 = Len(r)
      /\ Later(r, t) /\ Total(t, n) = Total(t, Len(r)) + x.dur /\ x.dur \in Nat
      /\ \A k \in 0 .. Len(r) : Total(r, k) \in Nat
      /\ \A k \in 0 .. Len(r) : Total(t, k) = Total(r, k)
  BY SMTT(60), GrownIs
<1>2. chunks = <<>> /\ OnsetAt(r, n)
  BY <1>1 DEF GateIs
<1>3. \A k \in n .. n : k = n
  BY <1>1
<1>4. OnsetAt(t, n) /\ SoundIn(t, n, n)
  <2>1. n \in 1 .. Len(r) + 1
    BY <1>1
  <2> QED BY <1>1, <1>2, <1>3, <2>1, OnsetLater DEF SoundIn
<1>5. x.dur = Total(t, n) - Total(t, n - 1)
  <2>1. Total(t, Len(r)) \in Nat
    BY <1>1
  <2> QED BY <1>1, <2>1
<1>6. \A i \in f : i < n
  BY <1>1
<1> DEFINE one == Append(chunks, [n |-> n, dur |-> x.dur])
<1>7. one \in Seq(Buffer) /\ HeldFrom(one, t, n)
  <2> DEFINE b == [n |-> n, dur |-> x.dur]
  <2>1. one = Append(<<>>, b)
    BY <1>2
  <2>2. b \in Buffer
    BY <1>1 DEF Buffer
  <2> HIDE DEF b, one
  <2>6. <<>> \in Seq(Buffer) /\ Len(<<>>) = 0
    OBVIOUS
  <2>5. one \in Seq(Buffer) /\ Len(one) = 1 /\ one[1] = b
    BY <2>1, <2>2, <2>6
  <2>3. one \in Seq(Buffer) /\ Len(one) = 1 /\ one[1] = [n |-> n, dur |-> x.dur]
    BY <2>5 DEF b
  <2>4. n + 1 - 1 = n /\ Len(t) + 1 - n = 1 /\ \A k \in 1 .. 1 : k = 1
    BY <1>1
  <2> HIDE DEF one
  <2> QED BY <1>1, <2>3, <2>4 DEF HeldFrom
<1> HIDE DEF one
<1>8. t \in Seq(Receipt) /\ n \in 1 .. Len(t) + 1
  BY <1>1 DEF Grown
<1>9. PICK y \in n .. Len(t) + 1 :
        /\ Trim(one) \in Seq(Buffer) /\ HeldFrom(Trim(one), t, y)
        /\ \A i \in n .. Len(t) : y <= i <=> Total(t, Len(t)) - Total(t, i) < config.pre_roll
  BY <1>7, <1>8, TrimIs
<1>10. held = Trim(one)
  BY DEF one
<1>11. Confirming(config, t, f, x.dur, held, n, y)
  BY <1>1, <1>4, <1>5, <1>6, <1>9, <1>10 DEF Confirming
<1>12. n \in 1 .. Len(t)
  BY <1>1
<1> QED BY <1>9, <1>10, <1>11, <1>12 DEF GateIs

\* More sound while it is confirmed.
LEMMA SoundGoesOn ==
  ASSUME NEW r, NEW x, NEW t, NEW n, Grown(r, x, t, n), config \in Configs,
         NEW f, f \subseteq 1 .. Len(r), NEW ms \in Nat, NEW chunks \in Seq(Buffer),
         GateIs(config, r, f, "confirming", ms, chunks),
         x.loud, ~x.ignored, ms + x.dur < config.min_speech,
         NEW held, held = Trim(Append(chunks, [n |-> n, dur |-> x.dur]))
  PROVE  GateIs(config, t, f, "confirming", ms + x.dur, held) /\ held \in Seq(Buffer)
<1>1. /\ Len(r) \in Nat /\ n = Len(r) + 1 /\ Len(t) = n /\ t[n] = x /\ n \in Nat \ {0}
         /\ n - 1 = Len(r)
      /\ Later(r, t) /\ Total(t, n) = Total(t, Len(r)) + x.dur /\ x.dur \in Nat
      /\ \A k \in 1 .. Len(r) : t[k] = r[k]
      /\ \A k \in 0 .. Len(r) : Total(r, k) \in Nat
      /\ \A k \in 0 .. Len(r) : Total(t, k) = Total(r, k)
  BY SMTT(60), GrownIs
<1>2. PICK a \in 1 .. Len(r) : \E z \in a .. Len(r) + 1 : Confirming(config, r, f, ms, chunks, a, z)
  BY DEF GateIs
<1>3. PICK z \in a .. Len(r) + 1 : Confirming(config, r, f, ms, chunks, a, z)
  BY <1>2
<1>4. /\ OnsetAt(r, a) /\ SoundIn(r, a, Len(r)) /\ ms = Total(r, Len(r)) - Total(r, a - 1)
      /\ \A i \in f : i < a
      /\ \A i \in a .. Len(r) : z <= i <=> Total(r, Len(r)) - Total(r, i) < config.pre_roll
  BY <1>3 DEF Confirming
<1>5. /\ Len(chunks) = Len(r) + 1 - z
      /\ \A k \in 1 .. Len(chunks) : chunks[k] = [n |-> z + k - 1, dur |-> r[z + k - 1].dur]
  BY <1>3 DEF Confirming, HeldFrom
<1>6. /\ a \in 1 .. Len(r) + 1 /\ a \in Nat \ {0} /\ Len(r) \in Int /\ Len(r) <= Len(r)
         /\ a - 1 \in 0 .. Len(r)
      /\ Len(r) \in 0 .. Len(r) /\ z \in 1 .. n /\ z \in 1 .. Len(t) + 1 /\ a \in 1 .. Len(t)
  BY <1>1
<1>7. OnsetAt(t, a) /\ SoundIn(t, a, n)
  <2>1. SoundIn(t, a, Len(r)) /\ OnsetAt(t, a)
    BY <1>1, <1>4, <1>6, SoundLater, OnsetLater
  <2>2. \A k \in a .. n : k = n \/ k \in a .. Len(r)
    BY <1>1, <1>6
  <2> QED BY <1>1, <2>1, <2>2 DEF SoundIn
<1>8. ms + x.dur = Total(t, n) - Total(t, a - 1)
  <2>1. Total(t, Len(r)) = Total(r, Len(r)) /\ Total(t, a - 1) = Total(r, a - 1)
    BY <1>1, <1>6
  <2>2. Total(t, Len(r)) \in Nat /\ Total(t, a - 1) \in Nat
    BY <1>1, <1>6
  <2> QED BY <1>1, <1>4, <2>1, <2>2
<1> DEFINE b == [n |-> n, dur |-> x.dur]
           more == Append(chunks, b)
<1>9. more \in Seq(Buffer) /\ HeldFrom(more, t, z)
  <2>1. b \in Buffer
    BY <1>1 DEF Buffer
  <2>2. /\ Len(chunks) \in Nat /\ more \in Seq(Buffer) /\ Len(more) = Len(chunks) + 1
           /\ more[Len(chunks) + 1] = b
        /\ \A k \in 1 .. Len(chunks) : more[k] = chunks[k]
    BY <2>1, ChunksAre
  <2> HIDE DEF more
  <2>3. Len(more) = Len(t) + 1 - z
    BY <1>1, <1>5, <1>6, <2>2
  <2>4. ASSUME NEW k \in 1 .. Len(more) PROVE more[k] = [n |-> z + k - 1, dur |-> t[z + k - 1].dur]
    <3>1. CASE k = Len(chunks) + 1
      <4>1. z + k - 1 = n
        BY <1>1, <1>5, <1>6, <3>1
      <4> QED BY <1>1, <2>2, <3>1, <4>1
    <3>2. CASE k # Len(chunks) + 1
      <4> HIDE DEF b
      <4>3. /\ Len(chunks) = Len(r) + 1 - z /\ Len(more) = Len(chunks) + 1 /\ Len(chunks) \in Nat
            /\ Len(r) \in Nat /\ z \in 1 .. Len(r) + 1
        BY <1>1, <1>5, <1>6, <2>2
      <4>1. k \in 1 .. Len(chunks) /\ z + k - 1 \in 1 .. Len(r)
        BY <3>2, <4>3
      <4>2. t[z + k - 1] = r[z + k - 1]
        BY <1>1, <4>1
      <4> QED BY <1>5, <2>2, <4>1, <4>2
    <3> QED BY <3>1, <3>2
  <2> QED BY <2>2, <2>3, <2>4 DEF HeldFrom
<1> HIDE DEF b, more
<1>10. t \in Seq(Receipt)
  BY DEF Grown
<1>11. PICK y \in z .. Len(t) + 1 :
        /\ Trim(more) \in Seq(Buffer) /\ HeldFrom(Trim(more), t, y)
        /\ \A i \in z .. Len(t) : y <= i <=> Total(t, Len(t)) - Total(t, i) < config.pre_roll
  BY <1>6, <1>9, <1>10, TrimIs
<1>12. held = Trim(more)
  BY DEF more, b
<1>13. ASSUME NEW i \in a .. Len(t)
       PROVE y <= i <=> Total(t, Len(t)) - Total(t, i) < config.pre_roll
  <2>1. CASE z <= i
    <3>1. i \in z .. Len(t)
      BY <1>1, <1>6, <2>1
    <3> QED BY <1>11, <3>1
  <2>2. CASE ~(z <= i)
    <3>1. ~(y <= i) /\ i \in a .. Len(r) /\ i \in 0 .. Len(r)
      BY <1>1, <1>6, <2>2
    <3>2. ~(Total(r, Len(r)) - Total(r, i) < config.pre_roll)
      BY <1>4, <2>2, <3>1
    <3>3. /\ Total(t, Len(t)) = Total(r, Len(r)) + x.dur /\ Total(t, i) = Total(r, i)
          /\ Total(r, Len(r)) \in Nat /\ Total(r, i) \in Nat
      BY <1>1, <1>6, <3>1
    <3>4. config.pre_roll \in Nat
      BY ConfigIs
    <3>5. ~(Total(t, Len(t)) - Total(t, i) < config.pre_roll)
      <4>1. x.dur \in Nat
        BY <1>1
      <4> DEFINE late == Total(t, Len(t))
                 now == Total(r, Len(r))
                 then == Total(r, i)
                 same == Total(t, i)
                 more_time == x.dur
                 limit == config.pre_roll
      <4>2. late = now + more_time /\ same = then /\ now \in Nat /\ then \in Nat
            /\ more_time \in Nat /\ limit \in Nat
        BY <4>1, <3>3, <3>4
      <4>3. ~(now - then < limit)
        BY <3>2
      <4> SUFFICES ~(late - same < limit)
        OBVIOUS
      <4> HIDE DEF late, now, then, same, more_time, limit
      <4> QED BY <4>2, <4>3
    <3> QED BY <3>1, <3>5
  <2> QED BY <2>1, <2>2
<1>14. Confirming(config, t, f, ms + x.dur, held, a, y)
  BY <1>1, <1>4, <1>7, <1>8, <1>11, <1>12, <1>13 DEF Confirming
<1>15. y \in a .. Len(t) + 1
  BY <1>1, <1>6
<1> QED BY <1>6, <1>11, <1>12, <1>14, <1>15 DEF GateIs

\* Silence that ends the padding, or lasts.
LEMMA SilenceLasts ==
  ASSUME NEW r, NEW x, NEW t, NEW n, Grown(r, x, t, n), NEW c \in Configs,
         NEW f, f \subseteq 1 .. Len(r), NEW g, NEW ms \in Nat, NEW chunks,
             GateIs(c, r, f, g, ms, chunks),
         ~x.loud, ~x.ignored, NEW m \in Nat,
         \/ g = "pad-open" /\ m = 0
         \/ g = "pad-closed" /\ ms + x.dur < c.min_silence /\ m = ms + x.dur
  PROVE  GateIs(c, t, f, "pad-closed", m, <<>>)
<1>1. /\ Len(r) \in Nat /\ n = Len(r) + 1 /\ Len(t) = n /\ t[n] = x /\ n \in Nat \ {0}
         /\ n - 1 = Len(r)
      /\ Later(r, t) /\ Total(t, n) = Total(t, Len(r)) + x.dur /\ x.dur \in Nat
      /\ \A k \in 1 .. Len(r) : t[k] = r[k]
      /\ \A k \in 0 .. Len(r) : Total(r, k) \in Nat
      /\ \A k \in 0 .. Len(r) : Total(t, k) = Total(r, k)
      /\ \A i, j \in 0 .. Len(r) : i <= j => Total(r, i) <= Total(r, j)
  BY SMTT(60), GrownIs
<1>2. c.speech_pad \in Nat \ {0} /\ c.min_silence \in Nat \ {0}
  BY ConfigIs
<1>3. Len(r) \in Int /\ Len(r) <= Len(r) /\ Len(r) \in 0 .. Len(r)
  BY <1>1
<1>4. ASSUME NEW e \in 1 .. Len(r) - 1, SilentIn(r, e + 1, Len(r)) PROVE SilentIn(t, e + 1, n)
  <2>1. e + 1 \in Nat \ {0}
    OBVIOUS
  <2>2. SilentIn(t, e + 1, Len(r))
    BY <1>1, <1>3, <1>4, <2>1, SoundLater
  <2>3. \A k \in e + 1 .. n : k = n \/ k \in e + 1 .. Len(r)
    BY <1>1
  <2> QED BY <1>1, <2>2, <2>3 DEF SilentIn
<1>5. CASE g = "pad-open" /\ m = 0
  <2>1. PICK e \in 1 .. Len(r) - 1 : PadOpen(c, r, f, ms, e)
    BY <1>5 DEF GateIs
  <2>2. /\ e \in f /\ r[e].loud /\ SilentIn(r, e + 1, Len(r)) /\ ms = Total(r, Len(r)) - Total(r, e)
        /\ e + 1 = Len(r) \/ ms < c.speech_pad
    BY <2>1 DEF PadOpen
  <2>3. e \in 1 .. n - 1 /\ e \in 1 .. Len(r) /\ e \in 0 .. Len(r) /\ n \in e + 1 .. n
    BY <1>1
  <2>4. e \in f /\ t[e].loud /\ SilentIn(t, e + 1, n)
    BY <1>1, <1>4, <2>2, <2>3
  <2>5. n <= e + 2 \/ Total(t, n - 1) - Total(t, e) < c.speech_pad
    <3>1. CASE e + 1 = Len(r)
      BY <1>1, <2>3, <3>1
    <3>2. CASE e + 1 # Len(r)
      BY <1>1, <1>3, <2>2, <2>3, <3>2
    <3> QED BY <3>1, <3>2
  <2>6. m = Total(t, n) - Total(t, n)
    <3>1. Total(t, Len(r)) \in Nat
      BY <1>1, <1>3
    <3> QED BY <1>1, <1>5, <3>1
  <2>7. PadClosed(c, t, f, m, e, n)
    BY <1>1, <1>2, <1>5, <2>4, <2>5, <2>6 DEF PadClosed
  <2> QED BY <1>1, <2>3, <2>7 DEF GateIs
<1>6. CASE g = "pad-closed" /\ ms + x.dur < c.min_silence /\ m = ms + x.dur
  <2>1. PICK e \in 1 .. Len(r) - 1 : \E p \in e + 1 .. Len(r) : PadClosed(c, r, f, ms, e, p)
    BY <1>6 DEF GateIs
  <2>2. PICK p \in e + 1 .. Len(r) : PadClosed(c, r, f, ms, e, p)
    BY <2>1
  <2>3. /\ e \in f /\ r[e].loud /\ SilentIn(r, e + 1, Len(r))
        /\ p <= e + 2 \/ Total(r, p - 1) - Total(r, e) < c.speech_pad
        /\ ms = Total(r, Len(r)) - Total(r, p)
    BY <2>2 DEF PadClosed
  <2>4. /\ e \in 1 .. n - 1 /\ e \in 1 .. Len(r) /\ e \in 0 .. Len(r) /\ p \in e + 1 .. n
        /\ p \in 0 .. Len(r) /\ p - 1 \in 0 .. Len(r)
    BY <1>1
  <2>5. e \in f /\ t[e].loud /\ SilentIn(t, e + 1, n)
    BY <1>1, <1>4, <2>3, <2>4
  <2>6. p <= e + 2 \/ Total(t, p - 1) - Total(t, e) < c.speech_pad
    BY <1>1, <2>3, <2>4
  <2>7. m = Total(t, n) - Total(t, p) /\ m < c.min_silence
    <3>1. Total(t, Len(r)) = Total(r, Len(r)) /\ Total(t, p) = Total(r, p)
      BY <1>1, <1>3, <2>4
    <3>2. Total(t, Len(r)) \in Nat /\ Total(t, p) \in Nat
      BY <1>1, <1>3, <2>4
    <3>3. Total(t, n) = Total(t, Len(r)) + x.dur /\ m = ms + x.dur /\ m < c.min_silence
      BY <1>1, <1>6
    <3>4. ms = Total(t, Len(r)) - Total(t, p)
      BY <2>3, <3>1
    <3>5. (Total(t, Len(r)) + x.dur) - Total(t, p) = (Total(t, Len(r)) - Total(t, p)) + x.dur
      BY <1>1, <3>2, Shift
    <3> QED BY <3>3, <3>4, <3>5
  <2>8. PadClosed(c, t, f, m, e, p)
    BY <1>1, <2>5, <2>6, <2>7 DEF PadClosed
  <2> QED BY <1>1, <2>4, <2>8 DEF GateIs
<1> QED BY <1>5, <1>6

\* After silence, or a pause, the gate is shut.
LEMMA GateShut ==
  ASSUME NEW r, NEW x, NEW t, NEW n, Grown(r, x, t, n), NEW c, NEW f, NEW m, ~x.loud \/ x.ignored
  PROVE  GateIs(c, t, f, "silence", m, <<>>) /\ SoundIsKept(c, t, f, n)
<1>1. n \in Nat \ {0} /\ n \in Nat /\ Len(t) = n /\ t[n] = x
  BY SMTT(60), GrownIs
<1>2. OnsetAt(t, n + 1) /\ SoundIsKept(c, t, f, n)
  BY <1>1, OnsetAfter, QuietKept
<1> QED BY <1>1, <1>2 DEF GateIs

\* What is held after a chunk.
HeldAfter(h, chunks, n, x) == IF h = "confirming"
    THEN Trim(Append(chunks, [n |-> n, dur |-> x.dur])) ELSE <<>>

\* Whatever is not speech.
LEMMA SilenceKeeps ==
  ASSUME NEW r, NEW x, NEW t, NEW n, Grown(r, x, t, n), config \in Configs,
         NEW f, f \subseteq 1 .. Len(r), NEW g, NEW ms \in Nat, NEW chunks \in Seq(Buffer),
         GateIs(config, r, f, g, ms, chunks),
         ~x.ignored, NEW h, NEW m \in Nat, SilenceStep(config, g, ms, x, h, m)
  PROVE  /\ GateIs(config, t, f, h, m, HeldAfter(h, chunks, n, x)) /\ SoundIsKept(config, t, f, n)
         /\ HeldAfter(h, chunks, n, x) \in Seq(Buffer)
<1> DEFINE held == HeldAfter(h, chunks, n, x)
<1>1. /\ Len(r) \in Nat /\ n = Len(r) + 1 /\ Len(t) = n /\ t[n] = x /\ n \in Nat \ {0}
         /\ n - 1 = Len(r)
      /\ x.dur \in Nat /\ <<>> \in Seq(Buffer)
  BY SMTT(60), GrownIs
<1>2. CASE g \in {"silence", "confirming"} /\ ~x.loud /\ h = "silence"
  <2>1. held = <<>>
    BY <1>2 DEF HeldAfter
  <2> QED BY <1>1, <1>2, <2>1, GateShut
<1>3. CASE h = "pad-closed" /\ ~x.loud
  <2>1. held = <<>>
    BY <1>3 DEF HeldAfter
  <2>2. \/ g = "pad-open" /\ m = 0
        \/ g = "pad-closed" /\ ms + x.dur < config.min_silence /\ m = ms + x.dur
    BY <1>3 DEF SilenceStep
  <2>3. GateIs(config, t, f, "pad-closed", m, <<>>)
    BY <1>3, <2>2, SilenceLasts
  <2> QED BY <1>1, <1>3, <2>1, <2>3, QuietKept
<1>4. CASE h = "confirming"
  <2>1. held = Trim(Append(chunks, [n |-> n, dur |-> x.dur])) /\ x.loud
    BY <1>4 DEF SilenceStep, HeldAfter
  <2>2. m < config.min_speech /\ \/ g = "silence" /\ m = x.dur
                                 \/ g = "confirming" /\ m = ms + x.dur
    BY <1>4 DEF SilenceStep
  <2>3. GateIs(config, t, f, "confirming", m, held) /\ held \in Seq(Buffer)
    <3>1. CASE g = "silence"
      BY <2>1, <2>2, <3>1, SoundBegins
    <3>2. CASE g = "confirming"
      <4>1. GateIs(config, r, f, "confirming", ms, chunks) /\ m = ms + x.dur
        BY <2>2, <3>2
      <4> QED BY <2>1, <2>2, <4>1, SoundGoesOn
    <3> QED BY <2>2, <3>1, <3>2
  <2>4. SoundIsKept(config, t, f, n)
    <3>1. PICK a \in 1 .. n : OnsetAt(t, a) /\ SoundIn(t, a, n) /\ m = Total(t, n) - Total(t, a - 1)
      BY <1>1, <2>3 DEF GateIs, Confirming
    <3> SUFFICES ASSUME NEW j \in 1 .. n, SoundIn(t, j, n), OnsetAt(t, j),
                        Total(t, n) - Total(t, j - 1) >= config.min_speech
                 PROVE  FALSE
      BY DEF SoundIsKept
    <3>2. j = a
      BY <1>1, <3>1, OneOnset
    <3>3. config.min_speech \in Nat
      BY ConfigIs
    <3> QED BY <2>2, <3>1, <3>2, <3>3
  <2> QED BY <1>4, <2>3, <2>4
<1> QED BY <1>2, <1>3, <1>4 DEF SilenceStep

-----------------------------------------------------------------------------
(* The invariant, action by action.                                        *)

\* What was taken, in the parts the actions change.
LEMMA TakenIs ==
  Forwarded = InSent(sent) \union Places(pending_speech)
      /\ Taken = Gone \union Places(pending_speech)
<1>1. Forwarded = InSent(sent) \union Places(pending_speech)
  BY DEF Forwarded, InSent
<1>2. Taken = (InSent(sent) \union Places(pending_speech)) \union lost
  BY <1>1 DEF Taken
<1> QED BY <1>1, <1>2 DEF Gone

\* No chunk has no place.
LEMMA NoPlaces == Places(<<>>) = {}
  BY DEF Places

\* The places of a window with more chunks.
LEMMA MorePlaces ==
  ASSUME NEW s \in Seq(Buffer), NEW t \in Seq(Buffer), NEW b \in Buffer
  PROVE  /\ Append(s \o t, b) \in Seq(Buffer) /\ Len(Append(s \o t, b)) = Len(s) + Len(t) + 1
         /\ \A i \in 1 .. Len(s) : Append(s \o t, b)[i] = s[i]
         /\ \A i \in 1 .. Len(t) : Append(s \o t, b)[Len(s) + i] = t[i]
         /\ Append(s \o t, b)[Len(s) + Len(t) + 1] = b
<1> DEFINE j == s \o t
<1>1. /\ Len(s) \in Nat /\ Len(t) \in Nat /\ j \in Seq(Buffer) /\ Len(j) = Len(s) + Len(t)
      /\ \A i \in 1 .. Len(s) : j[i] = s[i]
      /\ \A i \in 1 .. Len(t) : j[Len(s) + i] = t[i]
  OBVIOUS
<1>2. /\ \A i \in 1 .. Len(s) : i \in 1 .. Len(s) + Len(t)
      /\ \A i \in 1 .. Len(t) : Len(s) + i \in 1 .. Len(s) + Len(t)
  BY <1>1
<1> HIDE DEF j
<1>3. /\ Append(j, b) \in Seq(Buffer) /\ Len(Append(j, b)) = Len(j) + 1
         /\ Append(j, b)[Len(j) + 1] = b
      /\ \A i \in 1 .. Len(j) : Append(j, b)[i] = j[i]
  BY <1>1, ChunksAre
<1>4. \A i \in 1 .. Len(s) : Append(j, b)[i] = s[i]
  BY <1>1, <1>2, <1>3
<1>5. \A i \in 1 .. Len(t) : Append(j, b)[Len(s) + i] = t[i]
  BY <1>1, <1>2, <1>3
<1>6. Append(j, b)[Len(s) + Len(t) + 1] = b /\ Len(Append(j, b)) = Len(s) + Len(t) + 1
  BY <1>1, <1>3
<1> QED BY <1>3, <1>4, <1>5, <1>6 DEF j

\* One more window sent.
LEMMA MoreSent ==
  ASSUME NEW s \in Seq([chunks : Seq(Buffer), at : Nat]), NEW w \in [chunks : Seq(Buffer), at : Nat]
  PROVE  /\ Append(s, w) \in Seq([chunks : Seq(Buffer), at : Nat])
         /\ InSent(Append(s, w)) = InSent(s) \union Places(w.chunks)
         /\ SentInOrder(s) /\ Increasing(w.chunks) /\ Earlier(InSent(s), Places(w.chunks)) =>
              SentInOrder(Append(s, w))
<1> DEFINE t == Append(s, w)
           N == Len(s)
<1>1. /\ N \in Nat /\ t \in Seq([chunks : Seq(Buffer), at : Nat]) /\ Len(t) = N + 1 /\ t[N + 1] = w
      /\ \A i \in 1 .. N : t[i] = s[i]
  BY ChunksAre
<1> HIDE DEF t, N
<1>2. N + 1 \in 1 .. N + 1 /\ \A i \in 1 .. N + 1 : i \in 1 .. N \/ i = N + 1
  BY <1>1
<1>3. \A i \in 1 .. N : i \in 1 .. N + 1 /\ i < N + 1
  BY <1>1
<1>4. InSent(t) = InSent(s) \union Places(w.chunks)
  <2>1. ASSUME NEW k \in InSent(t) PROVE k \in InSent(s) \union Places(w.chunks)
    <3>1. PICK i \in 1 .. N + 1 : k \in Places(t[i].chunks)
      BY <1>1, <2>1 DEF InSent
    <3>2. CASE i = N + 1
      BY <1>1, <3>1, <3>2
    <3>3. CASE i \in 1 .. N
      BY <1>1, <3>1, <3>3 DEF InSent, N
    <3> QED BY <1>2, <3>2, <3>3
  <2>2. ASSUME NEW k \in InSent(s) PROVE k \in InSent(t)
    <3>1. PICK i \in 1 .. N : k \in Places(s[i].chunks)
      BY <2>2 DEF InSent, N
    <3> QED BY <1>1, <1>3, <3>1 DEF InSent
  <2>3. ASSUME NEW k \in Places(w.chunks) PROVE k \in InSent(t)
    BY <1>1, <1>2 DEF InSent
  <2> QED BY <2>1, <2>2, <2>3
<1>5. ASSUME SentInOrder(s), Increasing(w.chunks), Earlier(InSent(s), Places(w.chunks))
      PROVE SentInOrder(t)
  <2>1. \A i \in 1 .. N + 1 : Increasing(t[i].chunks)
    BY <1>1, <1>2, <1>5 DEF SentInOrder, N
  <2>2. ASSUME NEW u \in 1 .. N + 1, NEW v \in 1 .. N + 1, u < v
        PROVE  Earlier(Places(t[u].chunks), Places(t[v].chunks))
    <3>4. u \in 1 .. N
      BY <1>1, <2>2
    <3>1. u \in 1 .. N /\ t[u] = s[u]
      BY <1>1, <3>4
    <3>2. CASE v = N + 1
      <4>1. Places(s[u].chunks) \subseteq InSent(s)
        BY <3>1 DEF InSent, N
      <4> QED BY <1>1, <1>5, <3>1, <3>2, <4>1 DEF Earlier
    <3>3. CASE v \in 1 .. N
      BY <1>1, <1>5, <2>2, <3>1, <3>3 DEF SentInOrder, N
    <3> QED BY <1>2, <3>2, <3>3
  <2> QED BY <1>1, <2>1, <2>2 DEF SentInOrder
<1> QED BY <1>1, <1>4, <1>5 DEF t

\* What does not receive and does not send.
LEMMA StillStep ==
  ASSUME GInv, UNCHANGED <<config, received, vadVars, confirming, pending_speech, sent, lost>>,
         GateTypeOK', pc' = "flush" \/ pc' = pc
  PROVE  GInv'
<1>1. Taken' = Taken /\ Forwarded' = Forwarded /\ Gone' = Gone
  BY DEF Taken, Forwarded, Gone, InSent, Places
<1>2. gate' = gate /\ state_ms' = state_ms
  BY DEF vadVars
<1>3. Placed(config, received, Taken, Forwarded)'
  BY <1>1 DEF GInv
<1>4. SentInOrder(sent)' /\ WindowsAre(config, received, sent)'
  BY DEF GInv
<1>5. GrowingWindow(config, received, Gone, pending_speech)'
  BY <1>1 DEF GInv
<1>6. EndIsSent(config, gate, pc, pending_speech)'
  BY <1>2 DEF GInv, EndIsSent
<1>7. GateIs(config, received, Taken, gate, state_ms, confirming)'
  BY <1>1, <1>2 DEF GInv
<1> QED BY <1>3, <1>4, <1>5, <1>6, <1>7 DEF GInv

\* A step that receives nothing keeps the types of what was received and held.
LEMMA StillTypes ==
  ASSUME GateTypeOK, Sleep \/ Close \/ TogglePause
  PROVE  GateTypeOK' /\ UNCHANGED <<config, received, vadVars, confirming, pending_speech, sent,
      lost>>
<1>1. CASE Sleep
  BY <1>1 DEF GateTypeOK, Sleep, vadVars, uiVars
<1>2. CASE Close
  BY <1>2 DEF GateTypeOK, Close, vadVars, uiVars
<1>3. CASE TogglePause
  <2>1. presses' \in 0 .. MaxPauses /\ paused' \in BOOLEAN
    BY <1>3, SpeechGateAssumption DEF GateTypeOK, TogglePause
  <2> QED BY <1>3, <2>1 DEF GateTypeOK, TogglePause, vadVars, uiVars
<1> QED BY <1>1, <1>2, <1>3

\* The window is given up, or sent.
LEMMA FlushStep ==
  ASSUME GInv, FlushNothing \/ FlushWindow
  PROVE  GInv'
<1> DEFINE W == [chunks |-> pending_speech, at |-> Len(received)]
<1>1. UNCHANGED <<config, received, gate, state_ms, confirming, idle, uiVars, last>>
      /\ pending_speech' = <<>>
  BY DEF FlushNothing, FlushWindow, vadVars
<1>2. \/ sent' = sent /\ lost' = lost \union Places(pending_speech) /\ halted' = halted
      \/ sent' = Append(sent, W) /\ lost' = lost /\ halted' \in BOOLEAN /\ pending_speech # <<>>
  BY DEF FlushNothing, FlushWindow
<1>3. pc' \in {"select", "done"}
  BY DEF FlushNothing, FlushWindow, Goes
<1>4. W \in [chunks : Seq(Buffer), at : Nat] /\ W.chunks = pending_speech /\ W.at = Len(received)
  BY ChunksAre DEF GInv, GateTypeOK
<1>5. pending_speech \in Seq(Buffer) /\ sent \in Seq([chunks : Seq(Buffer), at : Nat])
      /\ lost \subseteq Nat
  BY DEF GInv, GateTypeOK
<1> HIDE DEF W
<1>6. /\ Append(sent, W) \in Seq([chunks : Seq(Buffer), at : Nat])
      /\ InSent(Append(sent, W)) = InSent(sent) \union Places(pending_speech)
      /\ SentInOrder(sent) /\ Increasing(pending_speech)
          /\ Earlier(InSent(sent), Places(pending_speech)) =>
           SentInOrder(Append(sent, W))
  BY <1>4, <1>5, MoreSent
<1>7. Places(pending_speech) \subseteq Nat
  <2>1. \A i \in 1 .. Len(pending_speech) : pending_speech[i] \in Buffer
    BY <1>5, ChunksAre
  <2>2. \A b \in Buffer : b.n \in Nat
    BY DEF Buffer
  <2> QED BY <2>1, <2>2 DEF Places
<1>8. GateTypeOK'
  <2>1. sent' \in Seq([chunks : Seq(Buffer), at : Nat]) /\ lost' \subseteq Nat
        /\ halted' \in BOOLEAN
    BY <1>2, <1>5, <1>6, <1>7 DEF GInv, GateTypeOK
  <2>2. <<>> \in Seq(Buffer)
    OBVIOUS
  <2> QED BY <1>1, <1>3, <2>1, <2>2 DEF GInv, GateTypeOK, uiVars
<1>9. Taken' = Taken /\ Forwarded' \subseteq Forwarded /\ Gone' = Taken
  <2>5. Forwarded = InSent(sent) \union Places(pending_speech)
    BY TakenIs
  <2>6. Forwarded' = InSent(sent') \union Places(pending_speech')
    BY DEF Forwarded, InSent
  <2>7. Places(pending_speech') = {}
    BY <1>1, NoPlaces
  <2>1. /\ Forwarded = InSent(sent) \union Places(pending_speech)
        /\ Forwarded' = InSent(sent') \union Places(pending_speech')
        /\ Places(pending_speech') = {}
    BY <2>5, <2>6, <2>7
  <2>2. Taken = Forwarded \union lost /\ Taken' = Forwarded' \union lost'
        /\ Gone' = InSent(sent') \union lost'
    BY DEF Taken, Gone
  <2>3. CASE sent' = sent /\ lost' = lost \union Places(pending_speech)
    BY <2>1, <2>2, <2>3
  <2>4. CASE sent' = Append(sent, W) /\ lost' = lost
    BY <1>6, <2>1, <2>2, <2>4
  <2> QED BY <1>2, <2>3, <2>4
<1>10. Placed(config, received, Taken, Forwarded)'
  <2>1. Placed(config, received, Taken, Forwarded')
    BY <1>9 DEF GInv, Placed
  <2> QED BY <1>1, <1>9, <2>1
<1>11. SentInOrder(sent')
  <2>1. SentInOrder(sent) /\ Increasing(pending_speech) /\ Earlier(Gone, Places(pending_speech))
    BY DEF GInv, GrowingWindow
  <2>2. Earlier(InSent(sent), Places(pending_speech))
    BY <2>1 DEF Gone, Earlier
  <2> QED BY <1>2, <1>6, <2>1, <2>2
<1>12. WindowsAre(config, received, sent')
  <2>1. WindowsAre(config, received, sent)
    BY DEF GInv
  <2>2. ASSUME pending_speech # <<>> PROVE WindowIs(config, received, W)
    <3>1. Places(pending_speech) \subseteq 1 .. Len(received)
      BY TakenIs DEF GInv, Placed
    <3>2. /\ Unpaused(received, pending_speech, Len(received))
          /\ config.early_flush => OneSpeech(config, received, Places(pending_speech))
      BY <2>2 DEF GInv, GrowingWindow
    <3>3. Len(received) <= Len(received)
      BY ChunksAre DEF GInv, GateTypeOK
    <3> QED BY <1>4, <2>2, <3>1, <3>2, <3>3 DEF WindowIs
  <2>3. CASE sent' = sent
    BY <2>1, <2>3
  <2>4. CASE sent' = Append(sent, W) /\ pending_speech # <<>>
    <3>1. /\ Len(sent) \in Nat /\ Len(sent') = Len(sent) + 1 /\ sent'[Len(sent) + 1] = W
          /\ \A i \in 1 .. Len(sent) : sent'[i] = sent[i]
      BY <1>4, <1>5, <2>4, ChunksAre
    <3>2. ASSUME NEW w \in 1 .. Len(sent') PROVE WindowIs(config, received, sent'[w])
      <4>1. CASE w = Len(sent) + 1
        BY <2>2, <2>4, <3>1, <4>1
      <4>2. CASE w # Len(sent) + 1
        <5>1. w \in 1 .. Len(sent)
          BY <3>1, <4>2
        <5> QED BY <2>1, <3>1, <5>1 DEF WindowsAre
      <4> QED BY <4>1, <4>2
    <3> QED BY <3>2 DEF WindowsAre
  <2> QED BY <1>2, <2>3, <2>4
<1>13. GrowingWindow(config, received, Gone, pending_speech)'
  <2>1. GrowingWindow(config, received, Gone', <<>>)
    <3>1. Len(<<>>) = 0
      OBVIOUS
    <3> QED BY <3>1, NoPlaces DEF GrowingWindow, Increasing, Earlier, OneSpeech
  <2> QED BY <1>1, <2>1
<1>14. EndIsSent(config, gate, pc, pending_speech)'
  BY <1>1 DEF EndIsSent
<1>15. GateIs(config, received, Taken, gate, state_ms, confirming)'
  BY <1>1, <1>9 DEF GInv
<1> QED BY <1>1, <1>8, <1>10, <1>11, <1>12, <1>13, <1>14, <1>15 DEF GInv

\* What every received chunk keeps: the windows sent, and what was said of the chunks before.
LEMMA PlacedGrows ==
  ASSUME NEW r, NEW x, NEW t, NEW n, Grown(r, x, t, n), NEW c, NEW f, NEW u, NEW v, NEW w,
         Placed(c, r, f, v), f \subseteq u, u \subseteq 1 .. n, v \subseteq f,
         \A i \in w : i \in v \/ (~t[i].ignored /\ Reason(c, t, u, i)),
         SoundIsKept(c, t, u, n)
  PROVE  Placed(c, t, u, w)
<1>1. /\ Len(r) \in Nat /\ n = Len(r) + 1 /\ Len(t) = n /\ Later(r, t)
      /\ \A k \in 1 .. Len(r) : t[k] = r[k]
  BY GrownIs
<1>2. /\ f \subseteq 1 .. Len(r) /\ \A i \in v : ~r[i].ignored /\ Reason(c, r, f, i)
      /\ \A o \in 1 .. Len(r) : SoundIsKept(c, r, f, o)
  BY DEF Placed
<1>3. ASSUME NEW i \in w PROVE ~t[i].ignored /\ Reason(c, t, u, i)
  <2>1. CASE i \in v
    <3>1. i \in 1 .. Len(r) /\ t[i] = r[i]
      BY <1>1, <1>2, <2>1
    <3>2. Reason(c, t, u, i)
      BY <1>1, <1>2, <2>1, <3>1, ReasonLater
    <3> QED BY <1>2, <2>1, <3>1, <3>2
  <2>2. CASE i \notin v
    BY <2>2
  <2> QED BY <2>1, <2>2
<1>4. ASSUME NEW o \in 1 .. n PROVE SoundIsKept(c, t, u, o)
  <2>1. CASE o = n
    BY <2>1
  <2>2. CASE o # n
    <3>1. o \in 1 .. Len(r)
      BY <1>1, <2>2
    <3> QED BY <1>1, <1>2, <3>1, KeptLater
  <2> QED BY <2>1, <2>2
<1> QED BY <1>1, <1>3, <1>4 DEF Placed

\* The windows sent, when more is received.
LEMMA WindowsLater ==
  ASSUME NEW c, NEW r, NEW t, Later(r, t), NEW s \in Seq([chunks : Seq(Buffer), at : Nat]),
      WindowsAre(c, r, s)
  PROVE  WindowsAre(c, t, s)
<1> SUFFICES ASSUME NEW w \in 1 .. Len(s) PROVE WindowIs(c, t, s[w])
  BY DEF WindowsAre
<1>1. s[w] \in [chunks : Seq(Buffer), at : Nat]
  BY ChunksAre
<1>2. s[w].chunks \in Seq(Buffer) /\ s[w].at \in Nat
  BY <1>1
<1>3. WindowIs(c, r, s[w])
  BY DEF WindowsAre
<1> QED BY <1>2, <1>3, WindowLater

\* A window that nothing is added to.
LEMMA GrowingLater ==
  ASSUME NEW r, NEW x, NEW t, NEW n, Grown(r, x, t, n), NEW c, NEW gone, NEW chunks \in Seq(Buffer),
         Places(chunks) \subseteq 1 .. Len(r), GrowingWindow(c, r, gone, chunks), ~x.ignored
  PROVE  GrowingWindow(c, t, gone, chunks)
<1>1. /\ Len(r) \in Nat /\ n = Len(r) + 1 /\ Len(t) = n /\ t[n] = x /\ Later(r, t)
      /\ \A k \in 1 .. Len(r) : t[k] = r[k]
  BY GrownIs
<1>2. ASSUME chunks # <<>> PROVE Unpaused(t, chunks, Len(t))
  <2>1. 1 \in 1 .. Len(chunks)
    BY <1>2
  <2>2. chunks[1].n \in 1 .. Len(r)
    BY <2>1 DEF Places
  <2>3. Unpaused(r, chunks, Len(r))
    BY <1>2 DEF GrowingWindow
  <2>4. ASSUME NEW i \in chunks[1].n .. n PROVE ~t[i].ignored
    <3>1. CASE i = n
      BY <1>1, <3>1
    <3>2. CASE i # n
      <4>1. i \in chunks[1].n .. Len(r) /\ i \in 1 .. Len(r)
        BY <1>1, <2>2, <3>2
      <4> QED BY <1>1, <2>3, <4>1 DEF Unpaused
    <3> QED BY <3>1, <3>2
  <2> QED BY <1>1, <2>4 DEF Unpaused
<1>3. c.early_flush => OneSpeech(c, t, Places(chunks))
  BY <1>1, OneSpeechLater DEF GrowingWindow
<1> QED BY <1>2, <1>3 DEF GrowingWindow

\* A chunk arrives.
Arrived(chunk, off) == [dur |-> chunk.dur, loud |-> chunk.loud, ignored |-> off]

\* A chunk arrives.
LEMMA ArrivalGrows ==
  ASSUME GateTypeOK, NEW chunk \in Chunk, NEW off \in BOOLEAN, Arrives(chunk, off)
  PROVE  /\ Grown(received, Arrived(chunk, off), received', Len(received) + 1)
         /\ received' \in Seq(Receipt) /\ Buffered(chunk) \in Buffer
         /\ Arrived(chunk, off).ignored = off /\ Arrived(chunk, off).dur = chunk.dur
         /\ Arrived(chunk, off).loud = chunk.loud
<1>1. Arrived(chunk, off) \in Receipt
  BY DEF Arrived, Receipt, Chunk
<1>2. received \in Seq(Receipt) /\ received' = Append(received, Arrived(chunk, off))
  BY DEF GateTypeOK, Arrives, Arrived
<1>3. Len(received) \in Nat /\ received' \in Seq(Receipt)
  BY <1>1, <1>2, ChunksAre
<1>4. Buffered(chunk) \in Buffer
  <2>1. chunk.dur \in Nat
    BY SpeechGateAssumption DEF Chunk
  <2> QED BY <1>3, <2>1 DEF Buffered, Buffer
<1>5. Grown(received, Arrived(chunk, off), received', Len(received) + 1)
  BY <1>1, <1>2, OneMore
<1> QED BY <1>3, <1>4, <1>5 DEF Arrived

\* RecvIgnored keeps the invariant.
LEMMA IgnoredStep ==
  ASSUME GInv, NEW chunk \in Chunk, RecvIgnored(chunk)
  PROVE  GInv'
<1> DEFINE x == Arrived(chunk, TRUE)
           n == Len(received) + 1
<1>1. GateTypeOK /\ Arrives(chunk, TRUE)
  BY DEF GInv, RecvIgnored
<1>2. Grown(received, x, received', n) /\ received' \in Seq(Receipt) /\ x.ignored
  BY <1>1, ArrivalGrows
<1> HIDE DEF x
<1>3. /\ pending_speech' = <<>> /\ lost' = lost \union Places(pending_speech)
      /\ confirming' = <<>> /\ gate' = "silence" /\ state_ms' = 0 /\ idle' = FALSE
      /\ UNCHANGED <<config, paused, presses, halted, pc, last, sent>>
  BY DEF RecvIgnored, uiVars
<1>4. /\ Len(received) \in Nat /\ n = Len(received) + 1 /\ Later(received, received')
         /\ Len(received') = n
  BY <1>2, GrownIs
<1>5. Forwarded = InSent(sent) \union Places(pending_speech)
      /\ Taken = Gone \union Places(pending_speech)
  BY TakenIs
<1>6. Forwarded' = InSent(sent) /\ Gone' = Taken /\ Taken' = Taken
  <2>1. Forwarded' = InSent(sent') \union Places(pending_speech')
    BY DEF Forwarded, InSent
  <2>2. Places(pending_speech') = {}
    BY <1>3, NoPlaces
  <2>3. Forwarded' = InSent(sent)
    BY <1>3, <2>1, <2>2
  <2>4. Taken' = Forwarded' \union lost' /\ Gone' = InSent(sent) \union lost'
    BY <1>3 DEF Taken, Gone, InSent
  <2> QED BY <1>3, <1>5, <2>3, <2>4 DEF Taken
<1> HIDE DEF n
<1>7. Placed(config, received, Taken, Forwarded)
  BY DEF GInv
<1>8. GateIs(config, received', Taken, "silence", 0, <<>>)
      /\ SoundIsKept(config, received', Taken, n)
  BY <1>2, GateShut
<1>9. Placed(config, received', Taken, InSent(sent))
  <2>1. Taken \subseteq 1 .. n /\ Forwarded \subseteq Taken
    <3>1. Taken \subseteq 1 .. Len(received)
      BY <1>7 DEF Placed
    <3>2. \A k \in 1 .. Len(received) : k \in 1 .. n
      BY <1>4
    <3> QED BY <3>1, <3>2 DEF Taken
  <2>2. InSent(sent) \subseteq Forwarded
    BY <1>5
  <2> DEFINE f == Taken
             v == Forwarded
             w == InSent(sent)
             t == received'
  <2>3. Placed(config, received, f, v) /\ f \subseteq 1 .. n /\ v \subseteq f
        /\ SoundIsKept(config, t, f, n)
    BY <1>7, <1>8, <2>1
  <2>4. \A i \in w : i \in v
    BY <2>2
  <2>5. Grown(received, x, t, n)
    BY <1>2
  <2> SUFFICES Placed(config, t, f, w)
    OBVIOUS
  <2> HIDE DEF f, v, w, t
  <2> QED BY <2>3, <2>4, <2>5, PlacedGrows
<1>10. WindowsAre(config, received', sent)
  <2>1. sent \in Seq([chunks : Seq(Buffer), at : Nat]) /\ WindowsAre(config, received, sent)
    BY DEF GInv, GateTypeOK
  <2> QED BY <1>4, <2>1, WindowsLater
<1>11. GrowingWindow(config, received', Taken, <<>>)
  <2>1. Len(<<>>) = 0
    OBVIOUS
  <2> QED BY <2>1, NoPlaces DEF GrowingWindow, Increasing, Earlier, OneSpeech
<1>12. GateTypeOK'
  <2>1. <<>> \in Seq(Buffer) /\ lost' \subseteq Nat
    <3>1. Taken \subseteq Nat
      BY <1>4, <1>7 DEF Placed
    <3> QED BY <1>3, <1>5, <3>1 DEF Taken
  <2> QED BY <1>1, <1>2, <1>3, <2>1 DEF GateTypeOK
<1>13. SentInOrder(sent) /\ EndIsSent(config, "silence", pc', <<>>)
  BY DEF GInv, EndIsSent
<1>14. Placed(config, received, Taken, Forwarded)' /\ WindowsAre(config, received, sent)'
       /\ SentInOrder(sent)'
  BY <1>3, <1>6, <1>9, <1>10, <1>13
<1>15. GrowingWindow(config, received, Gone, pending_speech)'
       /\ EndIsSent(config, gate, pc, pending_speech)'
  BY <1>3, <1>6, <1>11, <1>13
<1>16. GateIs(config, received, Taken, gate, state_ms, confirming)'
  BY <1>3, <1>6, <1>8
<1> QED BY <1>12, <1>14, <1>15, <1>16 DEF GInv

\* A chunk that adds nothing to the window.
LEMMA NothingAdded ==
  ASSUME GInv, NEW chunk \in Chunk, Arrives(chunk, FALSE), UNCHANGED <<config, pending_speech,
      sent, lost>>,
         GateIs(config, received', Taken, gate', state_ms', confirming'),
         SoundIsKept(config, received', Taken, Len(received) + 1),
         EndIsSent(config, gate', pc', pending_speech), GateTypeOK'
  PROVE  GInv'
<1> DEFINE x == Arrived(chunk, FALSE)
           n == Len(received) + 1
<1>1. Grown(received, x, received', n) /\ ~x.ignored
  BY ArrivalGrows DEF GInv
<1> HIDE DEF x
<1>2. /\ Len(received) \in Nat /\ n = Len(received) + 1 /\ Later(received, received')
         /\ Len(received') = n
  BY <1>1, GrownIs
<1>3. Taken' = Taken /\ Forwarded' = Forwarded /\ Gone' = Gone
  BY DEF Taken, Forwarded, Gone, InSent, Places
<1>4. Placed(config, received, Taken, Forwarded)
  BY DEF GInv
<1>5. Taken \subseteq 1 .. Len(received) /\ Forwarded \subseteq Taken
  BY <1>4 DEF Placed, Taken
<1>6. SoundIsKept(config, received', Taken, n)
  OBVIOUS
<1>7. Placed(config, received', Taken, Forwarded)
  <2>1. Taken \subseteq 1 .. n
    <3>1. \A k \in 1 .. Len(received) : k \in 1 .. n
      BY <1>2
    <3> QED BY <1>5, <3>1
  <2> DEFINE f == Taken
             v == Forwarded
             t == received'
  <2>2. Placed(config, received, f, v) /\ f \subseteq 1 .. n /\ v \subseteq f
        /\ SoundIsKept(config, t, f, n)
    BY <1>4, <1>5, <1>6, <2>1
  <2>3. Grown(received, x, t, n)
    BY <1>1
  <2> SUFFICES Placed(config, t, f, v)
    OBVIOUS
  <2> HIDE DEF f, v, t, n
  <2> QED BY <2>2, <2>3, PlacedGrows
<1>8. WindowsAre(config, received', sent)
  <2>1. sent \in Seq([chunks : Seq(Buffer), at : Nat]) /\ WindowsAre(config, received, sent)
    BY DEF GInv, GateTypeOK
  <2> QED BY <1>2, <2>1, WindowsLater
<1>9. GrowingWindow(config, received', Gone, pending_speech)
  <2>1. pending_speech \in Seq(Buffer) /\ GrowingWindow(config, received, Gone, pending_speech)
    BY DEF GInv, GateTypeOK
  <2>2. Places(pending_speech) \subseteq 1 .. Len(received)
    BY <1>5, TakenIs
  <2> QED BY <1>1, <2>1, <2>2, GrowingLater
<1>10. SentInOrder(sent)
  BY DEF GInv
<1>11. Placed(config, received, Taken, Forwarded)' /\ WindowsAre(config, received, sent)'
       /\ SentInOrder(sent)'
  BY <1>3, <1>7, <1>8, <1>10
<1>12. GrowingWindow(config, received, Gone, pending_speech)'
       /\ EndIsSent(config, gate, pc, pending_speech)'
  BY <1>3, <1>9
<1>13. GateIs(config, received, Taken, gate, state_ms, confirming)'
  BY <1>3
<1> QED BY <1>11, <1>12, <1>13 DEF GInv

\* RecvSilence keeps the invariant.
LEMMA SilenceIsKept ==
  ASSUME GInv, NEW chunk \in Chunk, RecvSilence(chunk)
  PROVE  GInv'
<1> DEFINE x == Arrived(chunk, FALSE)
           n == Len(received) + 1
<1>1. GateTypeOK /\ Arrives(chunk, FALSE) /\ Decided(chunk, "silence")
  BY DEF GInv, RecvSilence, Decided
<1>2. /\ Grown(received, x, received', n) /\ received' \in Seq(Receipt) /\ ~x.ignored
      /\ x.dur = chunk.dur /\ x.loud = chunk.loud
  BY <1>1, ArrivalGrows
<1> HIDE DEF x
<1>3. /\ SilenceStep(config, gate, state_ms, x, gate', state_ms')
      /\ gate' \in {"silence", "confirming", "speech", "pad-open", "pad-closed"}
          /\ state_ms' \in Nat
  BY <1>1, <1>2, DecisionIs
<1>4. /\ UNCHANGED <<config, pending_speech, idle, paused, presses, halted, pc, last, sent, lost>>
      /\ confirming' = IF gate' = "confirming" THEN Trim(Append(confirming, Buffered(chunk)))
          ELSE <<>>
  BY DEF RecvSilence, uiVars
<1>5. confirming' = HeldAfter(gate', confirming, n, x)
  BY <1>2, <1>4 DEF Buffered, HeldAfter
<1>6. /\ config \in Configs /\ state_ms \in Nat /\ confirming \in Seq(Buffer)
      /\ Taken \subseteq 1 .. Len(received)
      /\ GateIs(config, received, Taken, gate, state_ms, confirming)
  BY DEF GInv, GateTypeOK, Placed
<1>7. /\ GateIs(config, received', Taken, gate', state_ms', confirming')
      /\ SoundIsKept(config, received', Taken, n) /\ confirming' \in Seq(Buffer)
  <2> DEFINE f == Taken
             t == received'
             h == gate'
             m == state_ms'
             held == confirming'
             r == received
             g == gate
             ms == state_ms
             chunks == confirming
  <2>1. /\ Grown(r, x, t, n) /\ config \in Configs /\ f \subseteq 1 .. Len(r)
        /\ ms \in Nat /\ chunks \in Seq(Buffer) /\ GateIs(config, r, f, g, ms, chunks)
    BY <1>2, <1>6
  <2>2. m \in Nat /\ SilenceStep(config, g, ms, x, h, m) /\ ~x.ignored
    BY <1>2, <1>3
  <2>3. held = HeldAfter(h, chunks, n, x)
    BY <1>5
  <2> SUFFICES GateIs(config, t, f, h, m, held) /\ SoundIsKept(config, t, f, n)
               /\ held \in Seq(Buffer)
    OBVIOUS
  <2> HIDE DEF f, t, h, m, held, n, r, g, ms, chunks
  <2>4. /\ GateIs(config, t, f, h, m, HeldAfter(h, chunks, n, x)) /\ SoundIsKept(config, t, f, n)
        /\ HeldAfter(h, chunks, n, x) \in Seq(Buffer)
    BY <2>1, <2>2, SilenceKeeps
  <2> QED BY <2>3, <2>4
<1>8. EndIsSent(config, gate', pc', pending_speech)
  BY <1>3, <1>4 DEF GInv, EndIsSent, SilenceStep
<1>9. GateTypeOK'
  BY <1>1, <1>2, <1>3, <1>4, <1>7 DEF GateTypeOK
<1> QED BY <1>1, <1>4, <1>7, <1>8, <1>9, NothingAdded

\* RecvEndOfUtterance keeps the invariant.
LEMMA EndStep ==
  ASSUME GInv, NEW chunk \in Chunk, RecvEndOfUtterance(chunk)
  PROVE  GInv'
<1> DEFINE x == Arrived(chunk, FALSE)
           n == Len(received) + 1
<1>1. GateTypeOK /\ Arrives(chunk, FALSE) /\ Decided(chunk, "end")
  BY DEF GInv, RecvEndOfUtterance, Decided
<1>2. /\ Grown(received, x, received', n) /\ received' \in Seq(Receipt) /\ ~x.ignored
      /\ x.dur = chunk.dur /\ x.loud = chunk.loud
  BY <1>1, ArrivalGrows
<1> HIDE DEF x
<1>3. ~x.loud /\ gate' = "silence" /\ state_ms' \in Nat
  BY <1>1, <1>2, DecisionIs
<1>4. /\ UNCHANGED <<config, pending_speech, paused, presses, halted, last, sent, lost>>
         /\ confirming' = <<>>
      /\ idle' \in BOOLEAN /\ pc' \in {"select", "flush", "done"}
      /\ config.early_flush => pc' = "flush"
  BY <1>1 DEF RecvEndOfUtterance, uiVars, GateTypeOK
<1>5. GateIs(config, received', Taken, "silence", state_ms', <<>>)
      /\ SoundIsKept(config, received', Taken, n)
  BY <1>2, <1>3, GateShut
<1>6. EndIsSent(config, gate', pc', pending_speech)
  BY <1>4 DEF EndIsSent
<1>7. GateTypeOK'
  <2>1. <<>> \in Seq(Buffer)
    OBVIOUS
  <2> QED BY <1>1, <1>2, <1>3, <1>4, <2>1 DEF GateTypeOK
<1> QED BY <1>1, <1>3, <1>4, <1>5, <1>6, <1>7, NothingAdded

\* The places of a window with what speech adds.
LEMMA AddedPlaces ==
  ASSUME NEW s \in Seq(Buffer), NEW chunks \in Seq(Buffer), NEW b \in Buffer, NEW n \in Nat \ {0},
      b.n = n,
         NEW a \in 1 .. n, Len(chunks) = n - a, \A k \in 1 .. Len(chunks) : chunks[k].n = a + k - 1
  PROVE  /\ Places(Append(s \o chunks, b)) = Places(s) \union a .. n
         /\ Increasing(s) /\ (\A i \in Places(s) : i < a) => Increasing(Append(s \o chunks, b))
         /\ Append(s \o chunks, b)[1].n = IF s = <<>> THEN a ELSE s[1].n
         /\ Append(s \o chunks, b) \in Seq(Buffer)
<1> DEFINE w == Append(s \o chunks, b)
           L == Len(s)
           M == Len(chunks)
<1>1. L \in Nat /\ M \in Nat /\ M = n - a
  BY ChunksAre
<1>2. /\ w \in Seq(Buffer) /\ Len(w) = L + M + 1
      /\ \A i \in 1 .. L : w[i] = s[i]
      /\ \A i \in 1 .. M : w[L + i] = chunks[i]
      /\ w[L + M + 1] = b
  BY ZenonT(60), MorePlaces
<1>3. \A i \in 1 .. L : s[i] \in Buffer
  BY ChunksAre
<1>4. \A i \in 1 .. L : s[i].n \in Nat
  BY <1>3 DEF Buffer
<1>5. \A i \in 1 .. M : chunks[i].n = a + i - 1
  OBVIOUS
<1> HIDE DEF w, L, M
<1>6. ASSUME NEW i \in 1 .. M + 1 PROVE L + i \in 1 .. Len(w) /\ w[L + i].n = a + i - 1
  <2>1. L + i \in 1 .. Len(w)
    <3>1. Len(w) = L + M + 1
      BY <1>2
    <3>2. L \in Nat /\ M \in Nat
      BY <1>1
    <3>3. L + i \in 1 .. L + M + 1
      BY <3>2
    <3> QED BY <3>1, <3>3
  <2>2. CASE i = M + 1
    <3>1. L + i = L + M + 1 /\ a + i - 1 = n
      BY <1>1, <2>2
    <3> QED BY <1>2, <2>1, <3>1
  <2>3. CASE i # M + 1
    <3>1. i \in 1 .. M
      BY <1>1, <2>3
    <3> QED BY <1>2, <1>5, <2>1, <3>1
  <2> QED BY <2>2, <2>3
<1>7. ASSUME NEW i \in 1 .. Len(w) PROVE i \in 1 .. L \/ (i - L \in 1 .. M + 1 /\ L + (i - L) = i)
  BY <1>1, <1>2
<1>8. Places(w) = Places(s) \union a .. n
  <2>1. ASSUME NEW k \in Places(w) PROVE k \in Places(s) \union a .. n
    <3>1. PICK i \in 1 .. Len(w) : k = w[i].n
      BY <2>1 DEF Places
    <3>2. CASE i \in 1 .. L
      BY <1>2, <3>1, <3>2 DEF Places, L
    <3>3. CASE i - L \in 1 .. M + 1 /\ L + (i - L) = i
      <4>1. k = a + (i - L) - 1
        BY <1>6, <3>1, <3>3
      <4>2. a + (i - L) - 1 \in a .. n
        BY <1>1, <3>3
      <4> QED BY <4>1, <4>2
    <3> QED BY <1>7, <3>2, <3>3
  <2>2. ASSUME NEW k \in Places(s) PROVE k \in Places(w)
    <3>1. PICK i \in 1 .. L : k = s[i].n
      BY <2>2 DEF Places, L
    <3>2. i \in 1 .. Len(w) /\ k = w[i].n
      BY <1>1, <1>2, <3>1
    <3> QED BY <3>2 DEF Places
  <2>3. ASSUME NEW k \in a .. n PROVE k \in Places(w)
    <3> DEFINE i == k - a + 1
    <3>1. i \in 1 .. M + 1 /\ a + i - 1 = k
      BY <1>1
    <3>2. L + i \in 1 .. Len(w) /\ w[L + i].n = k
      BY <1>6, <3>1
    <3> QED BY <3>2 DEF Places
  <2> QED BY <2>1, <2>2, <2>3
<1>9. ASSUME Increasing(s), \A i \in Places(s) : i < a PROVE Increasing(w)
  <2> SUFFICES ASSUME NEW i \in 1 .. Len(w), NEW j \in 1 .. Len(w), i < j PROVE w[i].n < w[j].n
    BY DEF Increasing
  <2>1. CASE i \in 1 .. L /\ j \in 1 .. L
    BY <1>2, <1>9, <2>1 DEF Increasing, L
  <2>2. CASE i \in 1 .. L /\ j - L \in 1 .. M + 1 /\ L + (j - L) = j
    <3>1. w[i].n < a /\ w[i].n \in Nat
      BY <1>2, <1>4, <1>9, <2>2 DEF Places, L
    <3>2. w[j].n = a + (j - L) - 1
      BY <1>6, <2>2
    <3>3. a <= a + (j - L) - 1
      BY <1>1, <2>2
    <3> DEFINE p == a + (j - L) - 1
    <3>4. p \in Nat
      BY <1>1, <2>2
    <3> HIDE DEF p
    <3> QED BY <3>1, <3>2, <3>3, <3>4 DEF p
  <2>3. CASE i - L \in 1 .. M + 1 /\ L + (i - L) = i /\ j - L \in 1 .. M + 1 /\ L + (j - L) = j
    <3>1. w[i].n = a + (i - L) - 1 /\ w[j].n = a + (j - L) - 1
      BY <1>6, <2>3
    <3>2. a + (i - L) - 1 < a + (j - L) - 1
      BY <1>1
    <3> QED BY <3>1, <3>2
  <2>4. ~(i - L \in 1 .. M + 1 /\ j \in 1 .. L)
    BY <1>1
  <2> QED BY <1>7, <2>1, <2>2, <2>3, <2>4
<1>10. w[1].n = IF s = <<>> THEN a ELSE s[1].n
  <2>1. CASE s = <<>>
    <3>1. L = 0 /\ 1 \in 1 .. M + 1 /\ L + 1 = 1 /\ a + 1 - 1 = a
      BY <1>1, <2>1 DEF L
    <3>2. w[L + 1].n = a + 1 - 1
      BY <1>6, <3>1
    <3> QED BY <2>1, <3>1, <3>2
  <2>2. CASE s # <<>>
    <3>1. 1 \in 1 .. L
      BY <2>2 DEF L
    <3> QED BY <1>2, <2>2, <3>1
  <2> QED BY <2>1, <2>2
<1> QED BY <1>2, <1>8, <1>9, <1>10 DEF w

\* RecvSpeech keeps the invariant.
LEMMA SpeechIsAdded ==
  ASSUME GInv, NEW chunk \in Chunk, RecvSpeech(chunk)
  PROVE  GInv'
<1> DEFINE x == Arrived(chunk, FALSE)
           n == Len(received) + 1
           b == Buffered(chunk)
<1>1. GateTypeOK /\ Arrives(chunk, FALSE) /\ Decided(chunk, "speech")
  BY DEF GInv, RecvSpeech, Decided
<1>2. /\ Grown(received, x, received', n) /\ received' \in Seq(Receipt) /\ ~x.ignored
      /\ x.dur = chunk.dur /\ x.loud = chunk.loud /\ b \in Buffer
  BY <1>1, ArrivalGrows
<1>3. b.n = n
  BY DEF Buffered
<1> HIDE DEF x, b
<1>4. /\ SpeechStep(config, gate, state_ms, x, gate', state_ms')
      /\ gate' \in {"silence", "confirming", "speech", "pad-open", "pad-closed"}
          /\ state_ms' \in Nat
  BY <1>1, <1>2, DecisionIs
<1>5. /\ UNCHANGED <<config, paused, presses, halted, last, sent, lost>>
      /\ pending_speech' = Append(pending_speech \o confirming, b)
      /\ confirming' = <<>> /\ idle' \in BOOLEAN /\ pc' \in {"select", "flush", "done"}
  BY <1>1 DEF RecvSpeech, uiVars, GateTypeOK, b
<1>6. /\ config \in Configs /\ state_ms \in Nat /\ confirming \in Seq(Buffer)
         /\ pending_speech \in Seq(Buffer)
      /\ Taken \subseteq 1 .. Len(received)
      /\ GateIs(config, received, Taken, gate, state_ms, confirming)
  BY DEF GInv, GateTypeOK, Placed
<1>7. /\ Len(received) \in Nat /\ n = Len(received) + 1 /\ n \in Nat \ {0}
         /\ Later(received, received') /\ Len(received') = n
      /\ received'[n] = x /\ \A k \in 1 .. Len(received) : received'[k] = received[k]
  BY <1>2, GrownIs
<1> HIDE DEF n
<1> DEFINE f == Taken
           v == Forwarded
           t == received'
           h == gate'
           m == state_ms'
           old == Places(pending_speech)
           gone == Gone
<1>8. /\ Grown(received, x, t, n) /\ f \subseteq 1 .. Len(received)
         /\ GateIs(config, received, f, gate, state_ms, confirming)
      /\ SpeechStep(config, gate, state_ms, x, h, m) /\ m \in Nat /\ ~x.ignored
  BY <1>2, <1>4, <1>6
<1>9. PICK a \in 1 .. n : Adds(config, received, t, f, gate, h, m, confirming, n, a)
  <2> HIDE DEF f, t, h, m
  <2> QED BY <1>6, <1>8, SpeechAdds
<1> DEFINE u == f \union a .. n
<1>10. f = gone \union old /\ v = InSent(sent) \union old /\ gone = InSent(sent) \union lost
  BY TakenIs DEF Gone
<1>11. /\ Earlier(gone, old) /\ Increasing(pending_speech)
       /\ pending_speech # <<>> => Unpaused(received, pending_speech, Len(received))
       /\ config.early_flush => OneSpeech(config, received, old)
  BY DEF GInv, GrowingWindow
<1>12. \A i \in f : i < a
  BY <1>9 DEF Adds
<1>13. /\ Places(pending_speech') = old \union a .. n /\ Increasing(pending_speech')
       /\ pending_speech'[1].n = IF pending_speech = <<>> THEN a ELSE pending_speech[1].n
       /\ pending_speech' \in Seq(Buffer)
  <2>1. /\ Len(confirming) = n - a /\ \A k \in 1 .. Len(confirming) : confirming[k].n = a + k - 1
    BY <1>9 DEF Adds
  <2>2. \A i \in old : i < a
    BY <1>10, <1>12
  <2> DEFINE s == pending_speech
             chunks == confirming
  <2>3. s \in Seq(Buffer) /\ chunks \in Seq(Buffer) /\ b \in Buffer /\ n \in Nat \ {0}
        /\ b.n = n /\ a \in 1 .. n
    BY <1>2, <1>3, <1>6, <1>7
  <2>4. Len(chunks) = n - a /\ \A k \in 1 .. Len(chunks) : chunks[k].n = a + k - 1
    BY <2>1
  <2>5. Increasing(s) /\ \A i \in Places(s) : i < a
    BY <1>11, <2>2
  <2>6. pending_speech' = Append(s \o chunks, b)
    BY <1>5
  <2> HIDE DEF f, v, t, h, m, gone
  <2>7. /\ Places(Append(s \o chunks, b)) = Places(s) \union a .. n
        /\ Increasing(Append(s \o chunks, b))
        /\ Append(s \o chunks, b)[1].n = IF s = <<>> THEN a ELSE s[1].n
        /\ Append(s \o chunks, b) \in Seq(Buffer)
    <3> HIDE DEF s, chunks
    <3> QED BY <2>3, <2>4, <2>5, AddedPlaces
  <2> QED BY <2>6, <2>7
<1>14. Taken' = u /\ Forwarded' = v \union a .. n /\ Gone' = gone
  <2>1. Forwarded' = InSent(sent') \union Places(pending_speech')
    BY DEF Forwarded, InSent
  <2>2. Forwarded' = v \union a .. n
    BY <1>5, <1>10, <1>13, <2>1
  <2>3. Taken' = Forwarded' \union lost
    BY <1>5 DEF Taken
  <2>4. Gone' = Gone
    BY <1>5 DEF Gone, InSent
  <2> QED BY <1>10, <2>2, <2>3, <2>4
<1>15. Placed(config, received, f, v) /\ v \subseteq f /\ f \subseteq u /\ u \subseteq 1 .. n
  <2>1. Placed(config, received, f, v)
    BY DEF GInv
  <2>2. \A k \in 1 .. Len(received) : k \in 1 .. n
    BY <1>7
  <2> QED BY <1>8, <1>10, <2>1, <2>2
<1>16. GateTypeOK'
  <2>1. <<>> \in Seq(Buffer)
    OBVIOUS
  <2> QED BY <1>1, <1>2, <1>4, <1>5, <1>13, <2>1 DEF GateTypeOK
<1>17. WindowsAre(config, t, sent)
  <2>1. sent \in Seq([chunks : Seq(Buffer), at : Nat]) /\ WindowsAre(config, received, sent)
    BY DEF GInv, GateTypeOK
  <2> QED BY <1>7, <2>1, WindowsLater
<1>18. SentInOrder(sent)
  BY DEF GInv
<1>19. EndIsSent(config, h, pc', pending_speech')
  BY <1>4 DEF EndIsSent, SpeechStep
<1> HIDE DEF f, v, t, h, m, gone, old
<1>20. /\ \A i \in a .. n : ~t[i].ignored /\ Reason(config, t, u, i)
       /\ SoundIsKept(config, t, u, n)
       /\ GateIs(config, t, u, h, m, <<>>)
       /\ \A p \in SUBSET f :
            Earlier(f \ p, p) /\ OneSpeech(config, received, p)
                /\ (gate \in {"silence", "confirming"} => p = {}) =>
              OneSpeech(config, t, p \union a .. n)
  BY <1>9 DEF Adds
<1>21. Placed(config, t, u, v \union a .. n)
  <2> DEFINE w == v \union a .. n
  <2>1. \A i \in w : i \in v \/ (~t[i].ignored /\ Reason(config, t, u, i))
    BY <1>20
  <2> HIDE DEF u, w
  <2> QED BY <1>8, <1>15, <1>20, <2>1, PlacedGrows DEF w
<1>22. GrowingWindow(config, t, gone, pending_speech')
  <2>1. Earlier(gone, Places(pending_speech'))
    <3> SUFFICES ASSUME NEW i \in gone, NEW j \in old \union a .. n PROVE i < j
      BY <1>13 DEF Earlier
    <3>1. CASE j \in old
      BY <1>11, <3>1 DEF Earlier
    <3>2. CASE j \in a .. n
      <4>1. i \in f /\ i < a
        BY <1>10, <1>12
      <4>2. i \in Nat
        BY <1>7, <1>8, <4>1
      <4> QED BY <3>2, <4>1, <4>2
    <3> QED BY <3>1, <3>2
  <2>2. Unpaused(t, pending_speech', n)
    <3> SUFFICES ASSUME NEW i \in pending_speech'[1].n .. n PROVE ~t[i].ignored
      BY DEF Unpaused
    <3>1. CASE pending_speech = <<>>
      BY <1>13, <1>20, <3>1
    <3>2. CASE pending_speech # <<>>
      <4>1. 1 \in 1 .. Len(pending_speech)
        BY <1>6, <3>2
      <4>2. pending_speech[1].n \in 1 .. Len(received)
        BY <1>8, <1>10, <4>1 DEF Places, old
      <4>3. Unpaused(received, pending_speech, Len(received)) /\ i \in pending_speech[1].n .. n
        BY <1>11, <1>13, <3>2
      <4>4. CASE i = n
        BY <1>7, <1>8, <4>4 DEF t
      <4>5. CASE i # n
        <5>1. i \in pending_speech[1].n .. Len(received) /\ i \in 1 .. Len(received)
          BY <1>7, <4>2, <4>3, <4>5
        <5> QED BY <1>7, <4>3, <5>1 DEF Unpaused, t
      <4> QED BY <4>4, <4>5
    <3> QED BY <3>1, <3>2
  <2>3. ASSUME config.early_flush PROVE OneSpeech(config, t, Places(pending_speech'))
    <3>1. old \in SUBSET f /\ Earlier(f \ old, old)
      BY <1>10, <1>11 DEF Earlier
    <3>2. OneSpeech(config, received, old)
      BY <1>11, <2>3
    <3>3. gate \in {"silence", "confirming"} => old = {}
      <4> SUFFICES ASSUME gate \in {"silence", "confirming"} PROVE old = {}
        OBVIOUS
      <4>1. pc # "flush"
        BY <1>1 DEF Arrives
      <4>2. EndIsSent(config, gate, pc, pending_speech)
        BY DEF GInv
      <4>3. pending_speech = <<>>
        BY <2>3, <4>1, <4>2 DEF EndIsSent
      <4> QED BY <4>3, NoPlaces DEF old
    <3> QED BY <1>13, <1>20, <3>1, <3>2, <3>3
  <2>4. Len(t) = n
    BY <1>7 DEF t
  <2> QED BY <1>13, <2>1, <2>2, <2>3, <2>4 DEF GrowingWindow
<1>23. Placed(config, received, Taken, Forwarded)' /\ WindowsAre(config, received, sent)'
       /\ SentInOrder(sent)'
  BY <1>5, <1>14, <1>17, <1>18, <1>21 DEF t
<1>24. GrowingWindow(config, received, Gone, pending_speech)'
       /\ EndIsSent(config, gate, pc, pending_speech)'
  BY <1>5, <1>14, <1>19, <1>22 DEF t, h
<1>25. GateIs(config, received, Taken, gate, state_ms, confirming)'
  BY <1>5, <1>14, <1>20 DEF t, h, m
<1> QED BY <1>16, <1>23, <1>24, <1>25 DEF GInv

\* The invariant holds at first.
LEMMA GateStarts == GateInit => GInv
<1> SUFFICES ASSUME GateInit PROVE GInv
  OBVIOUS
<1> USE DEF GateInit
<1>1. <<>> \in Seq(Buffer) /\ <<>> \in Seq(Receipt)
      /\ <<>> \in Seq([chunks : Seq(Buffer), at : Nat]) /\ Len(<<>>) = 0
  OBVIOUS
<1>2. GateTypeOK
  <2>1. config \in Configs /\ state_ms \in Nat /\ lost \subseteq Nat
    OBVIOUS
  <2>2. {idle, paused, halted, last} \subseteq BOOLEAN
    OBVIOUS
  <2>3. presses \in 0 .. MaxPauses
    BY SpeechGateAssumption
  <2> QED BY <1>1, <2>1, <2>2, <2>3 DEF GateTypeOK
<1>3. InSent(<<>>) = {} /\ Places(<<>>) = {}
  BY <1>1 DEF InSent, Places
<1>4. Forwarded = {} /\ Taken = {} /\ Gone = {}
  <2>1. Forwarded = InSent(sent) \union Places(pending_speech)
        /\ Taken = Gone \union Places(pending_speech)
    BY TakenIs
  <2> QED BY <1>3, <2>1 DEF Gone
<1>5. Placed(config, received, Taken, Forwarded) /\ SentInOrder(sent)
      /\ WindowsAre(config, received, sent)
  BY <1>1, <1>4 DEF Placed, SentInOrder, WindowsAre
<1>6. GrowingWindow(config, received, Gone, pending_speech)
      /\ EndIsSent(config, gate, pc, pending_speech)
  BY <1>1, <1>3 DEF GrowingWindow, Increasing, Earlier, OneSpeech, EndIsSent
<1>7. GateIs(config, received, Taken, gate, state_ms, confirming)
  BY <1>1 DEF GateIs, OnsetAt
<1> QED BY <1>2, <1>5, <1>6, <1>7 DEF GInv

\* Every step keeps it.
LEMMA GateStep == GInv /\ [GateNext]_gateVars => GInv'
<1> SUFFICES ASSUME GInv, [GateNext]_gateVars PROVE GInv'
  OBVIOUS
<1>1. ASSUME NEW chunk \in Chunk, Recv(chunk) PROVE GInv'
  BY <1>1, IgnoredStep, SilenceIsKept, SpeechIsAdded, EndStep DEF Recv
<1>2. CASE FlushNothing \/ FlushWindow
  BY <1>2, FlushStep
<1>3. CASE Sleep \/ Close \/ TogglePause
  <2>1. pc' = "flush" \/ pc' = pc
    BY <1>3 DEF Sleep, Close, TogglePause
  <2>2. GateTypeOK
    BY DEF GInv
  <2> QED BY <1>3, <2>1, <2>2, StillTypes, StillStep
<1>4. CASE UNCHANGED gateVars
  <2>1. GateTypeOK'
    BY <1>4 DEF gateVars, vadVars, uiVars, GInv, GateTypeOK
  <2>2. UNCHANGED <<config, received, vadVars, confirming, pending_speech, sent, lost>> /\ pc' = pc
    BY <1>4 DEF gateVars
  <2> QED BY <2>1, <2>2, StillStep
<1> QED BY <1>1, <1>2, <1>3, <1>4 DEF GateNext

-----------------------------------------------------------------------------
(* What the invariant says in the words of the properties.                 *)

\* The words of the properties are those of the invariant: a run of sound and its time.
LEMMA WordsAre ==
  ASSUME GInv
  PROVE  /\ Len(received) \in Nat
         /\ \A i \in 1 .. Len(received) + 1 : \A j \in i - 1 .. Len(received) :
              Heard(i, j) = Total(received, j) - Total(received, i - 1)
         /\ \A i, j : Loud(i, j) <=> SoundIn(received, i, j)
         /\ \A i, j : Quiet(i, j) <=> SilentIn(received, i, j)
         /\ \A j : Onset(j) <=> OnsetAt(received, j)
<1>1. received \in Seq(Receipt)
  BY DEF GInv, GateTypeOK
<1>2. Len(received) \in Nat
  BY <1>1, ChunksAre
<1>3. \A i \in 1 .. Len(received) + 1 : \A j \in i - 1 .. Len(received) :
              Heard(i, j) = Total(received, j) - Total(received, i - 1)
  BY <1>1, ReceiptsAre, TotalsAre DEF Heard
<1>4. \A i, j : Loud(i, j) <=> SoundIn(received, i, j)
  BY DEF Loud, SoundIn
<1>5. \A i, j : Quiet(i, j) <=> SilentIn(received, i, j)
  BY DEF Quiet, SilentIn
<1>6. \A j : Onset(j) <=> OnsetAt(received, j)
  BY <1>4 DEF Onset, OnsetAt
<1> QED BY <1>2, <1>3, <1>4, <1>5, <1>6

\* Likewise for two loud chunks that follow closely.
LEMMA BridgedIs ==
  ASSUME GInv, NEW i \in 1 .. Len(received), NEW j \in 1 .. Len(received), i < j,
      Joined(config, received, i, j)
  PROVE  Bridged(i, j)
<1>1. Len(received) \in Nat
  BY WordsAre
<1>2. Quiet(i + 1, j - 1)
  BY WordsAre DEF Joined
<1>3. CASE i + 1 = j
  BY <1>2, <1>3 DEF Bridged
<1>4. CASE i + 1 # j
  <2>1. PICK p \in i + 1 .. j - 1 :
          /\ p <= i + 2 \/ Total(received, p - 1) - Total(received, i) < config.speech_pad
          /\ Total(received, j - 1) - Total(received, p) < config.min_silence
    BY <1>4 DEF Joined
  <2>2. /\ i + 1 \in 1 .. Len(received) + 1 /\ p - 1 \in (i + 1) - 1 .. Len(received)
           /\ (i + 1) - 1 = i
        /\ p + 1 \in 1 .. Len(received) + 1 /\ j - 1 \in (p + 1) - 1 .. Len(received)
            /\ (p + 1) - 1 = p
    BY <1>1
  <2>3. Heard(i + 1, p - 1) = Total(received, p - 1) - Total(received, i)
    BY <2>2, WordsAre
  <2>4. Heard(p + 1, j - 1) = Total(received, j - 1) - Total(received, p)
    BY <2>2, WordsAre
  <2> QED BY <1>2, <2>1, <2>3, <2>4 DEF Bridged
<1> QED BY <1>3, <1>4

\* Sound is in a window from its onset.
LEMMA KeepsSpeech == GInv => SpeechIsKept
<1> SUFFICES ASSUME GInv PROVE SpeechIsKept
  OBVIOUS
<1> DEFINE N == Len(received)
<1> SUFFICES ASSUME NEW j \in 1 .. N, NEW o \in 1 .. N, j <= o, Loud(j, o), Onset(j),
             Heard(j, o) >= config.min_speech,
                    NEW i \in j .. o, i = o \/ Heard(i + 1, o - 1) < config.pre_roll
             PROVE  i \in Forwarded \union lost
  BY DEF SpeechIsKept
<1>1. N \in Nat
  BY WordsAre
<1>2. j \in 1 .. o /\ j \in 1 .. N + 1 /\ o \in j - 1 .. N
  BY <1>1
<1>3. SoundIn(received, j, o) /\ OnsetAt(received, j)
      /\ Total(received, o) - Total(received, j - 1) >= config.min_speech
  BY <1>2, WordsAre
<1>4. SoundIsKept(config, received, Taken, o)
  BY DEF GInv, Placed
<1>5. Reached(config, received, Taken, j, o)
  BY <1>2, <1>3, <1>4 DEF SoundIsKept
<1>6. i = o \/ Total(received, o - 1) - Total(received, i) < config.pre_roll
  <2> SUFFICES ASSUME i # o PROVE Total(received, o - 1) - Total(received, i) < config.pre_roll
    OBVIOUS
  <2>1. i + 1 \in 1 .. N + 1 /\ o - 1 \in (i + 1) - 1 .. N /\ (i + 1) - 1 = i
    BY <1>1
  <2>2. Heard(i + 1, o - 1) = Total(received, o - 1) - Total(received, i)
    BY <2>1, WordsAre
  <2> QED BY <2>2
<1> QED BY <1>5, <1>6 DEF Reached, Taken

\* Windows hold one utterance.
LEMMA HoldsOne == GInv => WindowIsOneUtterance
<1> SUFFICES ASSUME GInv, NEW w \in 1 .. Len(sent)
             PROVE  LET places == Places(sent[w].chunks)
                    IN  /\ \A i \in Head(sent[w].chunks).n .. sent[w].at : ~received[i].ignored
                        /\ config.early_flush =>
                             \A i, j \in {k \in places : received[k].loud} :
                               (i < j /\ \A k \in places : i < k /\ k < j => ~received[k].loud)
                                   => Bridged(i, j)
  BY DEF WindowIsOneUtterance
<1>1. WindowIs(config, received, sent[w])
  BY DEF GInv, WindowsAre
<1>2. sent[w].chunks \in Seq(Buffer)
  <2>1. sent[w] \in [chunks : Seq(Buffer), at : Nat]
    BY ChunksAre DEF GInv, GateTypeOK
  <2> QED BY <2>1
<1>3. Head(sent[w].chunks) = sent[w].chunks[1]
  BY <1>1, <1>2 DEF WindowIs
<1>4. \A i \in Head(sent[w].chunks).n .. sent[w].at : ~received[i].ignored
  BY <1>1, <1>3 DEF WindowIs, Unpaused
<1> DEFINE places == Places(sent[w].chunks)
<1>5. ASSUME config.early_flush, NEW i \in places, NEW j \in places, received[i].loud,
      received[j].loud, i < j,
             \A k \in places : i < k /\ k < j => ~received[k].loud
      PROVE  Bridged(i, j)
  <2>1. OneSpeech(config, received, places) /\ places \subseteq 1 .. Len(received)
    BY <1>1, <1>5 DEF WindowIs
  <2>2. Joined(config, received, i, j)
    BY <1>5, <2>1 DEF OneSpeech
  <2>3. i \in 1 .. Len(received) /\ j \in 1 .. Len(received)
    BY <2>1
  <2> QED BY <1>5, <2>2, <2>3, BridgedIs
<1> QED BY <1>4, <1>5

\* What is sent is in order.
LEMMA WindowsInOrder ==
  ASSUME GInv
  PROVE  LET windows == Append([w \in 1 .. Len(sent) |-> sent[w].chunks], pending_speech)
         IN  \A v, w \in 1 .. Len(windows) : \A i \in 1 .. Len(windows[v]),
             j \in 1 .. Len(windows[w]) :
               v < w \/ (v = w /\ i < j) => windows[v][i].n < windows[w][j].n
<1> DEFINE N == Len(sent)
           s == [w \in 1 .. N |-> sent[w].chunks]
           windows == Append(s, pending_speech)
<1>1. /\ N \in Nat /\ \A w \in 1 .. N : sent[w] \in [chunks : Seq(Buffer), at : Nat]
      /\ pending_speech \in Seq(Buffer)
  BY ChunksAre DEF GInv, GateTypeOK
<1>2. /\ SentInOrder(sent) /\ Increasing(pending_speech) /\ Earlier(Gone, Places(pending_speech))
  BY DEF GInv, GrowingWindow
<1>3. \A w \in 1 .. N : Increasing(sent[w].chunks)
      /\ Earlier(Places(sent[w].chunks), Places(pending_speech))
  <2> SUFFICES ASSUME NEW w \in 1 .. N
               PROVE  Increasing(sent[w].chunks)
                   /\ Earlier(Places(sent[w].chunks), Places(pending_speech))
    OBVIOUS
  <2>1. Places(sent[w].chunks) \subseteq Gone
    BY DEF Gone, InSent
  <2> QED BY <1>2, <2>1 DEF SentInOrder, Earlier
<1>4. \A v, w \in 1 .. N : v < w => Earlier(Places(sent[v].chunks), Places(sent[w].chunks))
  BY <1>2 DEF SentInOrder
<1> HIDE DEF N
<1>5. s \in Seq(Seq(Buffer)) /\ Len(s) = N /\ \A w \in 1 .. N : s[w] = sent[w].chunks
  <2>1. \A w \in 1 .. N : sent[w].chunks \in Seq(Buffer)
    BY <1>1
  <2>2. s \in [1 .. N -> Seq(Buffer)] /\ \A w \in 1 .. N : s[w] = sent[w].chunks
    BY <2>1
  <2> HIDE DEF s
  <2> QED BY <1>1, <2>2
<1> HIDE DEF s
<1>6. /\ Len(windows) = N + 1 /\ windows[N + 1] = pending_speech
      /\ \A w \in 1 .. N : windows[w] = sent[w].chunks
  BY <1>1, <1>5, ChunksAre
<1> HIDE DEF windows
<1>7. \A w \in 1 .. N + 1 : w \in 1 .. N \/ w = N + 1
  BY <1>1
<1>8. ASSUME NEW v \in 1 .. N + 1, NEW w \in 1 .. N + 1, NEW i \in 1 .. Len(windows[v]),
      NEW j \in 1 .. Len(windows[w]),
             v < w \/ (v = w /\ i < j)
      PROVE  windows[v][i].n < windows[w][j].n
  <2>1. windows[v][i].n \in Places(windows[v]) /\ windows[w][j].n \in Places(windows[w])
    BY DEF Places
  <2>2. CASE v = w /\ i < j
    <3>1. Increasing(windows[v])
      BY <1>2, <1>3, <1>6, <1>7
    <3> QED BY <2>2, <3>1 DEF Increasing
  <2>3. CASE v < w
    <3>1. v \in 1 .. N
      BY <1>1, <2>3
    <3>2. Earlier(Places(windows[v]), Places(windows[w]))
      BY <1>3, <1>4, <1>6, <1>7, <2>3, <3>1
    <3> QED BY <2>1, <3>2 DEF Earlier
  <2> QED BY <1>8, <2>2, <2>3
<1> SUFFICES \A v, w \in 1 .. Len(windows) : \A i \in 1 .. Len(windows[v]),
             j \in 1 .. Len(windows[w]) :
               v < w \/ (v = w /\ i < j) => windows[v][i].n < windows[w][j].n
  BY DEF windows, s, N
<1> QED BY <1>6, <1>8

\* What is sent is speech.
LEMMA SendsSpeech == GInv => OnlySpeechIsSent
<1> SUFFICES ASSUME GInv PROVE OnlySpeechIsSent
  OBVIOUS
<1> DEFINE N == Len(received)
           sounds == {i \in Forwarded \union lost : received[i].loud}
<1>1. N \in Nat
  BY WordsAre
<1>2. Taken \subseteq 1 .. N /\ Taken = Forwarded \union lost
  BY DEF GInv, Placed, Taken
<1>3. ASSUME NEW i \in Forwarded
      PROVE  /\ ~received[i].ignored
             /\ IF received[i].loud
                THEN \E j \in 1 .. i :
                       /\ Loud(j, i)
                       /\ \/ \E k \in i .. N : Loud(i, k) /\ Heard(j, k) >= config.min_speech
                          \/ \E l \in sounds : l < j /\ Bridged(l, j)
                ELSE \E l \in sounds :
                       /\ l < i /\ Quiet(l + 1, i)
                       /\ l + 1 = i \/ Heard(l + 1, i) < config.speech_pad
  <2>1. ~received[i].ignored /\ Reason(config, received, Taken, i) /\ i \in 1 .. N
    BY <1>2 DEF GInv, Placed
  <2>2. CASE received[i].loud
    <3>1. PICK j \in 1 .. i : /\ SoundIn(received, j, i)
                              /\ Lasting(config,
                                  received, j, i) \/ Following(config, received, Taken, j)
      BY <2>1, <2>2 DEF Reason
    <3>2. Loud(j, i)
      BY <3>1, WordsAre
    <3>3. CASE Lasting(config, received, j, i)
      <4>1. PICK k \in i .. N : SoundIn(received, i, k)
            /\ Total(received, k) - Total(received, j - 1) >= config.min_speech
        BY <3>3 DEF Lasting
      <4>2. j \in 1 .. N + 1 /\ k \in j - 1 .. N
        BY <1>1, <2>1
      <4>3. Loud(i, k) /\ Heard(j, k) >= config.min_speech
        BY <4>1, <4>2, WordsAre
      <4> QED BY <2>1, <2>2, <3>2, <4>3
    <3>4. CASE Following(config, received, Taken, j)
      <4>1. PICK l \in Taken : l < j /\ received[l].loud /\ Joined(config, received, l, j)
        BY <3>4 DEF Following
      <4>2. l \in 1 .. N /\ j \in 1 .. N /\ l \in sounds
        BY <1>1, <1>2, <2>1, <4>1
      <4>3. Bridged(l, j)
        BY <4>1, <4>2, BridgedIs
      <4> QED BY <2>1, <2>2, <3>2, <4>1, <4>2, <4>3
    <3> QED BY <3>1, <3>3, <3>4
  <2>3. CASE ~received[i].loud
    <3>1. PICK l \in Taken : received[l].loud /\ Padding(config, received, l, i)
      BY <2>1, <2>3 DEF Reason
    <3>2. /\ l < i /\ SilentIn(received, l + 1, i)
          /\ l + 1 = i \/ Total(received, i) - Total(received, l) < config.speech_pad
      BY <3>1 DEF Padding
    <3>3. l \in sounds /\ l \in 1 .. N
      BY <1>2, <3>1
    <3>4. l + 1 \in 1 .. N + 1 /\ i \in (l + 1) - 1 .. N /\ (l + 1) - 1 = l
      BY <1>1, <2>1, <3>2, <3>3
    <3>5. Quiet(l + 1, i) /\ (l + 1 = i \/ Heard(l + 1, i) < config.speech_pad)
      BY <3>2, <3>4, WordsAre
    <3> QED BY <2>1, <2>3, <3>2, <3>3, <3>5
  <2> QED BY <2>2, <2>3
<1> HIDE DEF sounds
<1>4. \A i \in Forwarded :
             /\ ~received[i].ignored
             /\ IF received[i].loud
                THEN \E j \in 1 .. i :
                       /\ Loud(j, i)
                       /\ \/ \E k \in i .. N : Loud(i, k) /\ Heard(j, k) >= config.min_speech
                          \/ \E l \in sounds : l < j /\ Bridged(l, j)
                ELSE \E l \in sounds :
                       /\ l < i /\ Quiet(l + 1, i)
                       /\ l + 1 = i \/ Heard(l + 1, i) < config.speech_pad
  BY <1>3
<1> QED BY <1>4, WindowsInOrder DEF OnlySpeechIsSent, sounds

\* So it always holds.
LEMMA GateInvariant == GateSpec => []GInv
  BY GateStarts, GateStep, PTL DEF GateSpec

\* In every state the gate, its time and the chunks that are held have their type.
THEOREM GateTypes == GateSpec => []GateTypeOK
<1>1. GInv => GateTypeOK
  BY DEF GInv
<1> QED BY <1>1, GateInvariant, PTL

\* Sound that lasts long enough to be speech is never lost on its way to a window: from its
\* onset, as far back as the pre-roll reaches, its chunks are in a window that was sent, that
\* grows or that was dropped as a whole; for all durations and all pauses.
THEOREM SpeechKept == GateSpec => []SpeechIsKept
  BY GateInvariant, KeepsSpeech, PTL

\* Nothing else is sent: every chunk of a window was received while nobody paused, is sent once
\* and in its order, and is speech, follows closely on speech, or is the padding after it.
THEOREM OnlySpeech == GateSpec => []OnlySpeechIsSent
  BY GateInvariant, SendsSpeech, PTL

\* A window never crosses a pause that the loop noticed, and, where utterances are sent when they
\* end, holds one utterance.
THEOREM OneUtterance == GateSpec => []WindowIsOneUtterance
  BY GateInvariant, HoldsOne, PTL
=============================================================================
