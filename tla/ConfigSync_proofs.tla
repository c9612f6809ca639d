-------------------------- MODULE ConfigSync_proofs --------------------------
(***************************************************************************)
(* What holds of the configuration for all sets of languages, devices,     *)
(* providers and gains, whatever the editor and the user do and however    *)
(* the two threads overlap.                                                *)
(*                                                                         *)
(* The argument of every theorem is the same: a thread that is not stale   *)
(* still sees the memory it compared with, and a thread that is stale says *)
(* so ("crossed") when it overwrites something.                            *)
(***************************************************************************)
EXTENDS ConfigSync, TLAPS

-----------------------------------------------------------------------------
(* Type correctness.                                                       *)

\* Only the two keys set a single field.
Ops == work["ui"].pc = "set" => work["ui"].op \in {"lang", "gain"}

TInv == TypeOK /\ Ops

LEMMA IdleIsWork == Idle \in Work /\ Idle.pc = "idle" /\ Idle.stale = FALSE
                    /\ Idle.next = Boot /\ Idle.failed = FALSE
  BY ConfigSyncAssumption DEF ConfigSyncAssumption, Idle, Work, Config

\* What a step of one thread leaves of the work of the other.
Same(t, changes) ==
  \A u \in Threads \ {t} :
    /\ work'[u].pc = work[u].pc /\ work'[u].next = work[u].next
    /\ work'[u].prev = work[u].prev /\ work'[u].needs = work[u].needs
    /\ work'[u].failed = work[u].failed /\ work'[u].op = work[u].op
    /\ work'[u].stale = (work[u].stale \/ (changes /\ work[u].pc # "idle"))

LEMMA ContinueIs ==
  ASSUME work \in [Threads -> Work], NEW t \in Threads, NEW what \in Work,
         NEW changes \in BOOLEAN, Continue(t, what, changes)
  PROVE  work' \in [Threads -> Work] /\ work'[t] = what /\ Same(t, changes)
<1> DEFINE Left(u) == [work[u] EXCEPT !.stale = @ \/ (changes /\ work[u].pc # "idle")]
<1>1. \A u \in Threads : Left(u) \in Work
  BY DEF Work
<1>2. work' = [u \in Threads |-> IF u = t THEN what ELSE Left(u)]
  BY DEF Continue
<1>3. \A u \in Threads \ {t} :
        /\ Left(u).pc = work[u].pc /\ Left(u).next = work[u].next
        /\ Left(u).prev = work[u].prev /\ Left(u).needs = work[u].needs
        /\ Left(u).failed = work[u].failed /\ Left(u).op = work[u].op
        /\ Left(u).stale = (work[u].stale \/ (changes /\ work[u].pc # "idle"))
  BY DEF Work
<1>4. \A u \in Threads \ {t} : work'[u] = Left(u)
  BY <1>2
<1> HIDE DEF Left
<1>5. work' \in [Threads -> Work] /\ work'[t] = what
  BY <1>1, <1>2
<1>6. Same(t, changes)
  BY <1>3, <1>4 DEF Same
<1> QED BY <1>5, <1>6

\* What the step makes of the work of its own thread.
Classified(t) ==
  LET needs == current.provider # work[t].next.provider
      moved == current.device # work[t].next.device
  IN  [work[t] EXCEPT !.pc = IF moved /\ ~needs THEN "swap" ELSE "install",
                      !.needs = needs, !.prev = current.device]
At(t, place) == [work[t] EXCEPT !.pc = place]
Refused(t) == [work[t] EXCEPT !.pc = "install", !.next.device = work[t].prev, !.failed = TRUE]
Begun(key, place, cfg) == [Idle EXCEPT !.pc = place, !.next = cfg, !.op = key]
Started == [Idle EXCEPT !.pc = "classify", !.next = sent]

LEMMA StartedIs ==
  ASSUME sent \in Config
  PROVE  Started \in Work /\ Started.pc = "classify" /\ Started.next = sent
         /\ Started.failed = FALSE /\ Started.stale = FALSE
  BY ConfigSyncAssumption DEF ConfigSyncAssumption, Started, Idle, Work, Config

LEMMA AtIs ==
  ASSUME work \in [Threads -> Work], NEW t \in Threads,
         NEW place \in {"idle", "classify", "swap", "install", "derive", "write", "set", "restore"}
  PROVE  /\ At(t, place) \in Work /\ At(t, place).pc = place
         /\ At(t, place).next = work[t].next /\ At(t, place).prev = work[t].prev
         /\ At(t, place).needs = work[t].needs /\ At(t, place).failed = work[t].failed
         /\ At(t, place).op = work[t].op /\ At(t, place).stale = work[t].stale
  BY DEF At, Work

LEMMA ClassifiedIs ==
  ASSUME work \in [Threads -> Work], current \in Config, NEW t \in Threads
  PROVE  /\ Classified(t) \in Work
         /\ Classified(t).pc \in {"swap", "install"}
         /\ Classified(t).needs = (current.provider # work[t].next.provider)
         /\ Classified(t).pc = "install" <=>
              (Classified(t).needs \/ current.device = work[t].next.device)
         /\ Classified(t).prev = current.device
         /\ Classified(t).next = work[t].next /\ Classified(t).failed = work[t].failed
         /\ Classified(t).op = work[t].op /\ Classified(t).stale = work[t].stale
  BY ZenonT(60) DEF Classified, Work, Config

LEMMA RefusedIs ==
  ASSUME work \in [Threads -> Work], NEW t \in Threads
  PROVE  /\ Refused(t) \in Work /\ Refused(t).pc = "install" /\ Refused(t).failed = TRUE
         /\ Refused(t).next.device = work[t].prev
         /\ Refused(t).next.provider = work[t].next.provider
         /\ Refused(t).next.lang = work[t].next.lang /\ Refused(t).next.gain = work[t].next.gain
         /\ Refused(t).needs = work[t].needs /\ Refused(t).op = work[t].op
         /\ Refused(t).stale = work[t].stale
<1> DEFINE back == [work[t].next EXCEPT !.device = work[t].prev]
<1>1. work[t] \in Work /\ work[t].next \in Config /\ work[t].prev \in Devices
  BY DEF Work
<1>2. /\ back \in Config /\ back.device = work[t].prev
      /\ back.provider = work[t].next.provider
      /\ back.lang = work[t].next.lang /\ back.gain = work[t].next.gain
  BY <1>1 DEF Config
<1>3. Refused(t) = [work[t] EXCEPT !.pc = "install", !.next = back, !.failed = TRUE]
  BY <1>1 DEF Refused, Work
<1> HIDE DEF back
<1> QED BY <1>1, <1>2, <1>3 DEF Work

LEMMA BegunIs ==
  ASSUME NEW key \in {"save", "reload", "lang", "gain", "model"}, NEW cfg \in Config,
         NEW place \in {"write", "classify", "set", "restore"}
  PROVE  /\ Begun(key, place, cfg) \in Work /\ Begun(key, place, cfg).pc = place
         /\ Begun(key, place, cfg).next = cfg /\ Begun(key, place, cfg).op = key
         /\ Begun(key, place, cfg).stale = FALSE /\ Begun(key, place, cfg).failed = FALSE
  BY ConfigSyncAssumption DEF ConfigSyncAssumption, Begun, Idle, Work, Config

\* One field of a configuration is exchanged.
LEMMA FieldIs ==
  ASSUME NEW cfg \in Config, NEW other \in Config, NEW key \in {"lang", "gain"},
         NEW changed, changed = [cfg EXCEPT ![key] = other[key]]
  PROVE  /\ changed \in Config
         /\ changed.provider = cfg.provider /\ changed.device = cfg.device
         /\ LiveOf(changed) = [LiveOf(cfg) EXCEPT ![key] = other[key]]
<1>1. CASE key = "lang"
  BY <1>1 DEF Config, LiveOf
<1>2. CASE key = "gain"
  BY <1>2 DEF Config, LiveOf
<1> QED BY <1>1, <1>2

\* The step of the task or of the user interface, in these words.
LEMMA Steps ==
  ASSUME TInv, [Next]_vars
  PROVE  \/ UNCHANGED vars
         \/ Watch
         \/ \E contents \in Edits : Edit(contents)
         \/ Start
         \/ \E t \in Threads : Classify(t) \/ Swap(t) \/ Install(t) \/ Derive(t)
         \/ \E s \in Settings : Save(s)
         \/ Reload
         \/ \E l \in Langs : SetLive("lang", l)
         \/ \E g \in Gains : SetLive("gain", g)
         \/ \E p \in Providers : PickModel(p)
         \/ SetCurrent
         \/ Restore
         \/ WriteFile
  BY DEF Next, Task, Ui, User, Apply, Threads

LEMMA TypeInit == Init => TInv
<1> SUFFICES ASSUME Init PROVE TInv
  OBVIOUS
<1>1. LiveOf(Boot) \in [lang : Langs, gain : Gains] /\ Boot.device \in Devices
  BY ConfigSyncAssumption DEF ConfigSyncAssumption, Config, LiveOf
<1>2. work \in [Threads -> Work] /\ Ops
  BY IdleIsWork DEF Init, Ops, Threads
<1>3. edits \in 0 .. MaxEdits /\ keys \in 0 .. MaxKeys
  BY ConfigSyncAssumption DEF ConfigSyncAssumption, Init
<1> QED BY <1>1, <1>2, <1>3, ConfigSyncAssumption DEF ConfigSyncAssumption, Init, TInv, TypeOK

\* The work of a thread that continues is typed, and "set" is only where a key
\* that sets a field has put it.
LEMMA WorkTyped ==
  ASSUME TInv, NEW t \in Threads, NEW what \in Work, NEW changes \in BOOLEAN,
         what.pc = "set" => what.op \in {"lang", "gain"},
         Continue(t, what, changes)
  PROVE  work' \in [Threads -> Work] /\ Ops' /\ work'[t] = what /\ Same(t, changes)
<1>1. work' \in [Threads -> Work] /\ work'[t] = what /\ Same(t, changes)
  BY ContinueIs DEF TInv, TypeOK
<1>2. Ops'
  <2>1. CASE t = "ui"
    BY <1>1, <2>1 DEF Ops
  <2>2. CASE t # "ui"
    BY <1>1, <2>2 DEF Ops, TInv, Same, Threads
  <2> QED BY <2>1, <2>2
<1> QED BY <1>1, <1>2

\* What each step makes of the work.
LEMMA WorkSteps ==
  ASSUME TInv
  PROVE  /\ \A t \in Threads :
              /\ Classify(t) => Continue(t, Classified(t), FALSE)
              /\ Swap(t) => \/ Continue(t, At(t, "install"), TRUE) /\ source' = work[t].next.device
                                                                 /\ restart' = restart
                            \/ Continue(t, Refused(t), FALSE) /\ UNCHANGED <<source, restart>>
                            \/ Continue(t, At(t, "install"), FALSE) /\ restart' = TRUE
                                                                  /\ source' = source
              /\ Install(t) => Continue(t, At(t, "derive"), TRUE)
              /\ Derive(t) => Continue(t, Idle, TRUE)
         /\ Start => Continue("task", Started, FALSE)
         /\ \A s \in Settings : Save(s) =>
              Continue("ui", Begun("save", "write",
                [current EXCEPT !.lang = s.lang, !.device = s.device, !.provider = s.provider]), FALSE)
         /\ Reload => Continue("ui", Begun("reload", "classify", disk), FALSE)
         /\ \A key \in {"lang", "gain"} : \A value : SetLive(key, value) =>
              Continue("ui", Begun(key, "set", [Boot EXCEPT ![key] = value]), TRUE)
         /\ \A p \in Providers : PickModel(p) =>
              Continue("ui", Begun("model", "restore", [current EXCEPT !.provider = p]), TRUE)
         /\ Restore => Continue("ui", At("ui", "write"), TRUE)
         /\ WriteFile => \/ Continue("ui", At("ui", "classify"), FALSE) /\ disk' = work["ui"].next
                                                                     /\ event' = TRUE
                         \/ Continue("ui", Idle, FALSE)
                            /\ \/ disk' = work["ui"].next /\ event' = TRUE
                               \/ UNCHANGED <<disk, event>>
<1>1. ASSUME NEW t \in Threads
      PROVE  /\ Classify(t) => Continue(t, Classified(t), FALSE)
             /\ Install(t) => Continue(t, At(t, "derive"), TRUE)
             /\ Derive(t) => Continue(t, Idle, TRUE)
  <2>1. Classify(t) => Continue(t, Classified(t), FALSE)
    BY DEF Classify, Classified
  <2>2. Install(t) => Continue(t, At(t, "derive"), TRUE)
    BY DEF Install, At
  <2>3. Derive(t) => Continue(t, Idle, TRUE)
    BY DEF Derive
  <2> QED BY <2>1, <2>2, <2>3
<1>2. ASSUME NEW t \in Threads, Swap(t)
      PROVE  \/ Continue(t, At(t, "install"), TRUE) /\ source' = work[t].next.device
                                                  /\ restart' = restart
             \/ Continue(t, Refused(t), FALSE) /\ UNCHANGED <<source, restart>>
             \/ Continue(t, At(t, "install"), FALSE) /\ restart' = TRUE /\ source' = source
  BY <1>2 DEF Swap, At, Refused
<1>3. Start => Continue("task", Started, FALSE)
  BY DEF Start, Started
<1>4. ASSUME NEW s \in Settings, Save(s)
      PROVE  Continue("ui", Begun("save", "write",
                [current EXCEPT !.lang = s.lang, !.device = s.device, !.provider = s.provider]), FALSE)
  BY <1>4 DEF Save, Begin, Begun
<1>5. Reload => Continue("ui", Begun("reload", "classify", disk), FALSE)
  BY DEF Reload, Begin, Begun
<1>6. ASSUME NEW key \in {"lang", "gain"}, NEW value, SetLive(key, value)
      PROVE  Continue("ui", Begun(key, "set", [Boot EXCEPT ![key] = value]), TRUE)
  BY <1>6 DEF SetLive, Begin, Begun
<1>7. ASSUME NEW p \in Providers, PickModel(p)
      PROVE  Continue("ui", Begun("model", "restore", [current EXCEPT !.provider = p]), TRUE)
  BY <1>7 DEF PickModel, Begin, Begun
<1>8. Restore => Continue("ui", At("ui", "write"), TRUE)
  BY DEF Restore, At
<1>9. ASSUME WriteFile
      PROVE  \/ Continue("ui", At("ui", "classify"), FALSE) /\ disk' = work["ui"].next
                                                          /\ event' = TRUE
             \/ Continue("ui", Idle, FALSE)
                /\ \/ disk' = work["ui"].next /\ event' = TRUE
                   \/ UNCHANGED <<disk, event>>
  <2>1. CASE work["ui"].op = "save"
    BY <1>9, <2>1 DEF WriteFile, At, fileVars
  <2>2. CASE work["ui"].op # "save"
    BY <1>9, <2>2 DEF WriteFile, fileVars
  <2> QED BY <2>1, <2>2
<1> QED BY <1>1, <1>2, <1>3, <1>4, <1>5, <1>6, <1>7, <1>8, <1>9

LEMMA BegunTyped ==
  ASSUME TInv, NEW key \in {"save", "reload", "lang", "gain", "model"}, NEW cfg \in Config,
         NEW place \in {"write", "classify", "set", "restore"}, NEW changes \in BOOLEAN,
         place = "set" => key \in {"lang", "gain"},
         Continue("ui", Begun(key, place, cfg), changes)
  PROVE  work' \in [Threads -> Work] /\ Ops'
<1>1. Begun(key, place, cfg) \in Work /\ Begun(key, place, cfg).pc = place
      /\ Begun(key, place, cfg).op = key
  BY ConfigSyncAssumption DEF ConfigSyncAssumption, Begun, Idle, Work, Config
<1>2. "ui" \in Threads
  BY DEF Threads
<1> QED BY <1>1, <1>2, WorkTyped

LEMMA Fields ==
  ASSUME current \in Config, NEW s \in Setting
  PROVE  LET saved == [current EXCEPT !.lang = s.lang, !.device = s.device, !.provider = s.provider]
         IN  saved \in Config
  BY DEF Config, Setting

LEMMA TypeStep == TInv /\ [Next]_vars => TInv'
<1> SUFFICES ASSUME TInv, [Next]_vars PROVE TInv'
  OBVIOUS
<1> USE DEF vars, fileVars, channelVars
<1>a. TypeOK /\ Ops /\ work \in [Threads -> Work] /\ current \in Config /\ sent \in Config
      /\ disk \in Config \union {Bad} /\ live \in [lang : Langs, gain : Gains]
  BY DEF TInv, TypeOK
<1>b. \A t \in Threads : work[t] \in Work /\ work[t].next \in Config /\ work[t].needs \in BOOLEAN
                          /\ LiveOf(work[t].next) \in [lang : Langs, gain : Gains]
                          /\ work[t].next.device \in Devices
  BY <1>a DEF Work, Config, LiveOf
<1>c. "ui" \in Threads /\ "task" \in Threads
  BY DEF Threads
<1>d. ASSUME work' \in [Threads -> Work], Ops', UNCHANGED <<disk, event, sent, fresh, edits, keys>>,
             current' \in Config, live' \in [lang : Langs, gain : Gains], source' \in Devices,
             restart' \in BOOLEAN, doubt' \subseteq {"crossed", "memory", "picked", "swap"}
      PROVE  TInv'
  BY <1>a, <1>d DEF TInv, TypeOK
<1>e. ASSUME work' \in [Threads -> Work], Ops', UNCHANGED <<disk, event, sent, fresh, source, restart, edits>>,
             keys' \in 0 .. MaxKeys, current' \in Config, live' \in [lang : Langs, gain : Gains],
             doubt' \subseteq {"crossed", "memory", "picked", "swap"}
      PROVE  TInv'
  BY <1>a, <1>e DEF TInv, TypeOK
<1>f. ASSUME NEW key, Press(key) PROVE keys' \in 0 .. MaxKeys
  BY <1>a, <1>f, ConfigSyncAssumption DEF ConfigSyncAssumption, Press, TypeOK
<1>g. \A t \in Threads : Crossing(t) \subseteq {"crossed"}
  BY DEF Crossing
<1>1. CASE UNCHANGED vars
  BY <1>1 DEF TInv, TypeOK, Ops
<1>2. CASE Watch
  <2>1. disk \notin {Bad, sent} => disk \in Config
    BY <1>a
  <2>2. sent' \in Config /\ fresh' \in BOOLEAN /\ restart' \in BOOLEAN /\ event' \in BOOLEAN
    BY <1>2, <1>a, <2>1 DEF Watch, TypeOK
  <2> QED BY <1>2, <1>a, <2>2 DEF Watch, TInv, TypeOK, Ops
<1>3. CASE \E contents \in Edits : Edit(contents)
  <2>1. PICK contents \in Edits : Edit(contents)
    BY <1>3
  <2>2. disk' \in Config \union {Bad} /\ edits' \in 0 .. MaxEdits
    BY <2>1, <1>a, ConfigSyncAssumption DEF ConfigSyncAssumption, Edit, TypeOK
  <2> QED BY <2>1, <2>2, <1>a DEF Edit, TInv, TypeOK, Ops
<1>4. CASE Start
  <2>1. work' \in [Threads -> Work] /\ Ops'
    BY <1>4, <1>a, <1>c, WorkSteps, WorkTyped, StartedIs
  <2> QED BY <1>4, <1>a, <2>1 DEF Start, TInv, TypeOK
<1>5. ASSUME NEW t \in Threads, Classify(t) \/ Swap(t) \/ Install(t) \/ Derive(t)
      PROVE  TInv'
  <2>1. CASE Classify(t)
    <3>1. Classified(t) \in Work /\ Classified(t).pc # "set"
      BY <1>a, ClassifiedIs
    <3>2. work' \in [Threads -> Work] /\ Ops'
      BY <2>1, <3>1, WorkSteps, WorkTyped
    <3> QED BY <2>1, <3>2, <1>a, <1>d DEF Classify, TypeOK
  <2>2. CASE Swap(t)
    <3>1. At(t, "install") \in Work /\ At(t, "install").pc # "set"
          /\ Refused(t) \in Work /\ Refused(t).pc # "set"
      BY <1>a, AtIs, RefusedIs
    <3>2. work' \in [Threads -> Work] /\ Ops' /\ source' \in Devices /\ restart' \in BOOLEAN
        <4>1. CASE Continue(t, At(t, "install"), TRUE) /\ source' = work[t].next.device
                 /\ restart' = restart
        BY <3>1, <4>1, WorkTyped, <1>a, <1>b DEF TypeOK
      <4>2. CASE Continue(t, Refused(t), FALSE) /\ UNCHANGED <<source, restart>>
        BY <3>1, <4>2, WorkTyped, <1>a, <1>b DEF TypeOK
      <4>3. CASE Continue(t, At(t, "install"), FALSE) /\ restart' = TRUE /\ source' = source
        BY <3>1, <4>3, WorkTyped, <1>a, <1>b DEF TypeOK
      <4> QED BY <2>2, <4>1, <4>2, <4>3, WorkSteps
    <3> QED BY <2>2, <3>2, <1>a, <1>d DEF Swap, TypeOK
  <2>3. CASE Install(t)
    <3>1. At(t, "derive") \in Work /\ At(t, "derive").pc # "set"
      BY <1>a, AtIs
    <3>2. work' \in [Threads -> Work] /\ Ops'
      BY <2>3, <3>1, WorkSteps, WorkTyped
    <3>3. doubt' \subseteq {"crossed", "memory", "picked", "swap"}
      <4>1. doubt \subseteq {"crossed", "memory", "picked", "swap"}
        BY <1>a DEF TypeOK
      <4>2. CASE t = "task"
        BY <2>3, <4>1, <4>2, <1>g DEF Install
      <4>3. CASE t # "task" /\ work[t].next # sent
        BY <2>3, <4>1, <4>3, <1>g DEF Install
      <4>4. CASE t # "task" /\ work[t].next = sent
        BY <2>3, <4>1, <4>4, <1>g DEF Install
      <4> QED BY <4>2, <4>3, <4>4
    <3> QED BY <2>3, <3>2, <3>3, <1>a, <1>b, <1>d DEF Install, TypeOK
  <2>4. CASE Derive(t)
    <3>1. work' \in [Threads -> Work] /\ Ops'
      BY <2>4, IdleIsWork, WorkSteps, WorkTyped
    <3>2. doubt' \subseteq {"crossed", "memory", "picked", "swap"}
      BY <2>4, <1>a, <1>g DEF Derive, TypeOK
    <3>3. restart' \in BOOLEAN
      BY <2>4, <1>a, <1>b DEF Derive, TypeOK
    <3> QED BY <2>4, <3>1, <3>2, <3>3, <1>a, <1>b, <1>d DEF Derive, TypeOK
  <2> QED BY <1>5, <2>1, <2>2, <2>3, <2>4
<1>6. CASE \E s \in Settings : Save(s)
  <2>1. PICK s \in Settings : Save(s)
    BY <1>6
  <2> DEFINE saved == [current EXCEPT !.lang = s.lang, !.device = s.device, !.provider = s.provider]
  <2>2. saved \in Config
    BY <1>a, Fields, ConfigSyncAssumption DEF ConfigSyncAssumption
  <2>3. Continue("ui", Begun("save", "write", saved), FALSE)
    BY <2>1, WorkSteps
  <2> HIDE DEF saved
  <2>4. work' \in [Threads -> Work] /\ Ops'
    BY <2>2, <2>3, BegunTyped
  <2> QED BY <2>1, <2>4, <1>a, <1>e, <1>f DEF Save, TypeOK
<1>7. CASE Reload
  <2>1. disk \in Config /\ Continue("ui", Begun("reload", "classify", disk), FALSE)
    BY <1>7, <1>a, WorkSteps DEF Reload
  <2>2. work' \in [Threads -> Work] /\ Ops'
    BY <2>1, BegunTyped
  <2> QED BY <1>7, <2>2, <1>a, <1>e, <1>f DEF Reload, TypeOK
<1>8. CASE \E l \in Langs : SetLive("lang", l)
  <2>1. PICK l \in Langs : SetLive("lang", l)
    BY <1>8
  <2>2. [Boot EXCEPT !["lang"] = l] \in Config /\ live' \in [lang : Langs, gain : Gains]
    BY <2>1, <1>a, ConfigSyncAssumption DEF ConfigSyncAssumption, Config, SetLive
  <2>3. Continue("ui", Begun("lang", "set", [Boot EXCEPT !["lang"] = l]), TRUE)
    BY <2>1, WorkSteps
  <2>4. work' \in [Threads -> Work] /\ Ops'
    BY <2>2, <2>3, BegunTyped
  <2> QED BY <2>1, <2>2, <2>4, <1>a, <1>e, <1>f DEF SetLive, TypeOK
<1>9. CASE \E g \in Gains : SetLive("gain", g)
  <2>1. PICK g \in Gains : SetLive("gain", g)
    BY <1>9
  <2>2. [Boot EXCEPT !["gain"] = g] \in Config /\ live' \in [lang : Langs, gain : Gains]
    BY <2>1, <1>a, ConfigSyncAssumption DEF ConfigSyncAssumption, Config, SetLive
  <2>3. Continue("ui", Begun("gain", "set", [Boot EXCEPT !["gain"] = g]), TRUE)
    BY <2>1, WorkSteps
  <2>4. work' \in [Threads -> Work] /\ Ops'
    BY <2>2, <2>3, BegunTyped
  <2> QED BY <2>1, <2>2, <2>4, <1>a, <1>e, <1>f DEF SetLive, TypeOK
<1>10. CASE \E p \in Providers : PickModel(p)
  <2>1. PICK p \in Providers : PickModel(p)
    BY <1>10
  <2>2. [current EXCEPT !.provider = p] \in Config
    BY <1>a DEF Config
  <2>3. Continue("ui", Begun("model", "restore", [current EXCEPT !.provider = p]), TRUE)
    BY <2>1, WorkSteps
  <2>4. work' \in [Threads -> Work] /\ Ops'
    BY <2>2, <2>3, BegunTyped
  <2>5. doubt' \subseteq {"crossed", "memory", "picked", "swap"}
    BY <2>1, <1>a DEF PickModel, TypeOK
  <2> QED BY <2>1, <2>2, <2>4, <2>5, <1>a, <1>e, <1>f DEF PickModel, TypeOK
<1>11. CASE SetCurrent
  <2>1. work["ui"].op \in {"lang", "gain"}
    BY <1>11, <1>a DEF SetCurrent, Ops
  <2>2. current' \in Config
    BY <1>11, <2>1, <1>a, <1>b, <1>c, FieldIs DEF SetCurrent
  <2> DEFINE goes == IF work["ui"].op = "gain"
                     THEN [work["ui"] EXCEPT !.pc = "write", !.next = current'] ELSE Idle
  <2>3. goes \in Work /\ goes.pc # "set"
    <3>1. CASE work["ui"].op = "gain"
      BY ZenonT(60), <3>1, <2>2, <1>b, <1>c DEF Work
    <3>2. CASE work["ui"].op # "gain"
      BY <3>2, IdleIsWork
    <3> QED BY <3>1, <3>2
  <2>4. Continue("ui", goes, TRUE)
    BY <1>11 DEF SetCurrent
  <2> HIDE DEF goes
  <2>5. work' \in [Threads -> Work] /\ Ops'
    BY <2>3, <2>4, <1>c, WorkTyped
  <2>6. doubt' \subseteq {"crossed", "memory", "picked", "swap"}
    BY <1>11, <1>a, <1>c, <1>g DEF SetCurrent, TypeOK
  <2> QED BY <1>11, <2>2, <2>5, <2>6, <1>a, <1>d DEF SetCurrent, TypeOK
<1>12. CASE Restore
  <2>1. At("ui", "write") \in Work /\ At("ui", "write").pc # "set"
    BY <1>a, <1>c, AtIs
  <2>2. work' \in [Threads -> Work] /\ Ops'
    BY <1>12, <2>1, <1>c, WorkSteps, WorkTyped
  <2>3. doubt' \subseteq {"crossed", "memory", "picked", "swap"}
    BY <1>12, <1>a, <1>c, <1>g DEF Restore, TypeOK
  <2> QED BY <1>12, <2>2, <2>3, <1>a, <1>b, <1>c, <1>d DEF Restore, TypeOK
<1>13. CASE WriteFile
  <2>1. At("ui", "classify") \in Work /\ At("ui", "classify").pc # "set"
    BY <1>a, <1>c, AtIs
  <2>2. work' \in [Threads -> Work] /\ Ops' /\ disk' \in Config \union {Bad} /\ event' \in BOOLEAN
    <3>1. \/ Continue("ui", At("ui", "classify"), FALSE) \/ Continue("ui", Idle, FALSE)
      BY <1>13, WorkSteps
    <3>2. work' \in [Threads -> Work] /\ Ops'
      BY <3>1, <2>1, <1>c, WorkTyped, IdleIsWork
    <3>3. disk' \in Config \union {Bad} /\ event' \in BOOLEAN
      <4>1. \/ disk' = work["ui"].next /\ event' = TRUE
            \/ UNCHANGED <<disk, event>>
        BY <1>13, WorkSteps
      <4> QED BY <4>1, <1>a, <1>b, <1>c DEF TypeOK
    <3> QED BY <3>2, <3>3
  <2> QED BY <1>13, <2>2, <1>a DEF WriteFile, TInv, TypeOK
<1> QED BY <1>1, <1>2, <1>3, <1>4, <1>5, <1>6, <1>7, <1>8, <1>9, <1>10, <1>11, <1>12, <1>13, Steps

\* The configurations, the file, the channel and the work of both threads have
\* their types, in every behaviour (main.rs:2700-2830, config/mod.rs:2466).
THEOREM TypeCorrect == Spec => []TypeOK
<1>1. TInv => TypeOK
  BY DEF TInv
<1> QED BY TypeInit, TypeStep, <1>1, PTL DEF Spec

-----------------------------------------------------------------------------
(* The steps, as what the theorems below need to know of them.             *)

LEMMA AfterClassify ==
  ASSUME TInv, NEW t \in Threads, Classify(t)
  PROVE  /\ work[t].pc = "classify"
         /\ work'[t].pc \in {"swap", "install"}
         /\ work'[t].needs = (current.provider # work[t].next.provider)
         /\ work'[t].pc = "install" <=>
              (work'[t].needs \/ current.device = work[t].next.device)
         /\ work'[t].prev = current.device
         /\ work'[t].next = work[t].next /\ work'[t].failed = work[t].failed
         /\ work'[t].op = work[t].op /\ work'[t].stale = work[t].stale
         /\ Same(t, FALSE)
         /\ UNCHANGED <<disk, event, sent, fresh, current, live, source, restart, doubt>>
<1>1. work \in [Threads -> Work] /\ current \in Config
  BY DEF TInv, TypeOK
<1>2. Continue(t, Classified(t), FALSE)
  BY WorkSteps
<1>3. Classified(t) \in Work /\ Classified(t).pc # "set"
  BY <1>1, ClassifiedIs
<1>4. work'[t] = Classified(t) /\ Same(t, FALSE)
  BY <1>2, <1>3, WorkTyped
<1>5. work[t].pc = "classify"
      /\ UNCHANGED <<disk, event, sent, fresh, current, live, source, restart, doubt>>
  BY DEF Classify, fileVars, channelVars
<1> QED BY <1>1, <1>4, <1>5, ClassifiedIs

LEMMA AfterSwap ==
  ASSUME TInv, NEW t \in Threads, Swap(t)
  PROVE  /\ work[t].pc = "swap" /\ work'[t].pc = "install"
         /\ work'[t].needs = work[t].needs /\ work'[t].stale = work[t].stale
         /\ work'[t].next.provider = work[t].next.provider
         /\ \/ /\ source' = work'[t].next.device /\ restart' = restart
               /\ work'[t].next = work[t].next /\ work'[t].failed = work[t].failed
               /\ Same(t, TRUE)
            \/ /\ source' = source /\ restart' = restart
               /\ work'[t].next.device = work[t].prev /\ work'[t].failed = TRUE
               /\ Same(t, FALSE)
            \/ /\ source' = source /\ restart' = TRUE
               /\ work'[t].next = work[t].next /\ work'[t].failed = work[t].failed
               /\ Same(t, FALSE)
         /\ UNCHANGED <<disk, event, sent, fresh, current, live, doubt>>
<1>1. work \in [Threads -> Work]
  BY DEF TInv, TypeOK
<1>2. At(t, "install") \in Work /\ At(t, "install").pc # "set"
      /\ Refused(t) \in Work /\ Refused(t).pc # "set"
  BY <1>1, AtIs, RefusedIs
<1>a. /\ At(t, "install").pc = "install"
      /\ At(t, "install").next = work[t].next /\ At(t, "install").needs = work[t].needs
      /\ At(t, "install").failed = work[t].failed /\ At(t, "install").stale = work[t].stale
  BY <1>1, AtIs
<1>3. /\ work[t].pc = "swap"
      /\ UNCHANGED <<disk, event, sent, fresh, current, live, doubt>>
  BY DEF Swap, fileVars, channelVars
<1>4. CASE Continue(t, At(t, "install"), TRUE) /\ source' = work[t].next.device
           /\ restart' = restart
  <2>1. work'[t] = At(t, "install") /\ Same(t, TRUE)
    BY <1>2, <1>4, WorkTyped
  <2> QED BY <1>3, <1>4, <1>a, <2>1
<1>5. CASE Continue(t, Refused(t), FALSE) /\ UNCHANGED <<source, restart>>
  <2>1. work'[t] = Refused(t) /\ Same(t, FALSE)
    BY <1>2, <1>5, WorkTyped
  <2> QED BY <1>1, <1>3, <1>5, <2>1, RefusedIs
<1>6. CASE Continue(t, At(t, "install"), FALSE) /\ restart' = TRUE /\ source' = source
  <2>1. work'[t] = At(t, "install") /\ Same(t, FALSE)
    BY <1>2, <1>6, WorkTyped
  <2> QED BY <1>3, <1>6, <1>a, <2>1
<1> QED BY <1>4, <1>5, <1>6, WorkSteps

LEMMA AfterInstall ==
  ASSUME TInv, NEW t \in Threads, Install(t)
  PROVE  /\ work[t].pc = "install" /\ work'[t].pc = "derive"
         /\ work'[t].needs = work[t].needs /\ work'[t].stale = work[t].stale
         /\ work'[t].next = work[t].next /\ current' = work[t].next
         /\ work[t].stale => "crossed" \in doubt'
         /\ work[t].failed => "swap" \in doubt'
         /\ t = "task" => doubt \ {"memory", "picked", "swap"} \subseteq doubt'
         /\ t # "task" => doubt \subseteq doubt'
         /\ t # "task" /\ work[t].next # sent => "memory" \in doubt'
         /\ Same(t, TRUE)
         /\ UNCHANGED <<disk, event, sent, fresh, live, source, restart>>
<1>1. work \in [Threads -> Work]
  BY DEF TInv, TypeOK
<1>2. At(t, "derive") \in Work /\ At(t, "derive").pc # "set"
  BY <1>1, AtIs
<1>a. /\ At(t, "derive").pc = "derive"
      /\ At(t, "derive").next = work[t].next /\ At(t, "derive").needs = work[t].needs
      /\ At(t, "derive").failed = work[t].failed /\ At(t, "derive").stale = work[t].stale
  BY <1>1, AtIs
<1>3. work'[t] = At(t, "derive") /\ Same(t, TRUE)
  BY <1>2, WorkSteps, WorkTyped
<1>4. /\ work[t].pc = "install" /\ current' = work[t].next
      /\ UNCHANGED <<disk, event, sent, fresh, live, source, restart>>
  BY DEF Install, fileVars, channelVars
<1>5. /\ work[t].stale => "crossed" \in doubt'
      /\ work[t].failed => "swap" \in doubt'
  BY DEF Install, Crossing
<1>6. t = "task" => doubt \ {"memory", "picked", "swap"} \subseteq doubt'
  BY DEF Install
<1>7. CASE t # "task" /\ work[t].next # sent
  BY <1>1, <1>3, <1>4, <1>5, <1>7, <1>a DEF Install
<1>8. CASE t # "task" /\ work[t].next = sent
  BY <1>1, <1>3, <1>4, <1>5, <1>8, <1>a DEF Install
<1>9. CASE t = "task"
  BY <1>1, <1>3, <1>4, <1>5, <1>6, <1>9, <1>a
<1> QED BY <1>7, <1>8, <1>9

LEMMA AfterDerive ==
  ASSUME TInv, NEW t \in Threads, Derive(t)
  PROVE  /\ work[t].pc = "derive" /\ work'[t] = Idle
         /\ live' = LiveOf(work[t].next) /\ restart' = (restart \/ work[t].needs)
         /\ work[t].stale => "crossed" \in doubt'
         /\ doubt \subseteq doubt'
         /\ Same(t, TRUE)
         /\ UNCHANGED <<disk, event, sent, fresh, current, source>>
<1>1. work'[t] = Idle /\ Same(t, TRUE)
  BY WorkSteps, WorkTyped, IdleIsWork
<1> QED BY <1>1 DEF Derive, Crossing, fileVars, channelVars

LEMMA AfterStart ==
  ASSUME TInv, Start
  PROVE  /\ work["task"].pc = "idle" /\ fresh /\ fresh' = FALSE
         /\ work'["task"].pc = "classify" /\ work'["task"].next = sent
         /\ work'["task"].failed = FALSE /\ work'["task"].stale = FALSE
         /\ Same("task", FALSE)
         /\ UNCHANGED <<disk, event, sent, current, live, source, restart, doubt>>
<1>1. sent \in Config /\ "task" \in Threads
  BY DEF TInv, TypeOK, Threads
<1>2. work'["task"] = Started /\ Same("task", FALSE)
  BY <1>1, WorkSteps, WorkTyped, StartedIs
<1> QED BY <1>1, <1>2, StartedIs DEF Start, fileVars

\* An operation of the user that goes on afterwards.
Begins(place, changes) ==
  /\ work["ui"].pc = "idle" /\ work'["ui"].pc = place
  /\ work'["ui"].stale = FALSE /\ work'["ui"].failed = FALSE
  /\ Same("ui", changes)
  /\ UNCHANGED <<disk, event, sent, fresh, source, restart>>

LEMMA BegunBy ==
  ASSUME TInv, NEW key \in {"save", "reload", "lang", "gain", "model"}, NEW cfg \in Config,
         NEW place \in {"write", "classify", "set", "restore"}, NEW changes \in BOOLEAN,
         place = "set" => key \in {"lang", "gain"},
         Continue("ui", Begun(key, place, cfg), changes)
  PROVE  /\ work'["ui"].pc = place /\ work'["ui"].next = cfg /\ work'["ui"].op = key
         /\ work'["ui"].stale = FALSE /\ work'["ui"].failed = FALSE
         /\ Same("ui", changes)
<1>1. /\ Begun(key, place, cfg) \in Work /\ Begun(key, place, cfg).pc = place
      /\ Begun(key, place, cfg).next = cfg /\ Begun(key, place, cfg).op = key
      /\ Begun(key, place, cfg).stale = FALSE /\ Begun(key, place, cfg).failed = FALSE
  BY ConfigSyncAssumption DEF ConfigSyncAssumption, Begun, Idle, Work, Config
<1>2. "ui" \in Threads
  BY DEF Threads
<1>3. work'["ui"] = Begun(key, place, cfg) /\ Same("ui", changes)
  BY <1>1, <1>2, WorkTyped
<1> QED BY <1>1, <1>3

LEMMA AfterSave ==
  ASSUME TInv, NEW s \in Settings, Save(s)
  PROVE  Begins("write", FALSE) /\ UNCHANGED <<current, live, doubt>>
<1> DEFINE saved == [current EXCEPT !.lang = s.lang, !.device = s.device, !.provider = s.provider]
<1>1. saved \in Config
  BY Fields, ConfigSyncAssumption DEF ConfigSyncAssumption, TInv, TypeOK
<1>2. Continue("ui", Begun("save", "write", saved), FALSE)
  BY WorkSteps
<1> HIDE DEF saved
<1>3. /\ work'["ui"].pc = "write" /\ work'["ui"].stale = FALSE /\ work'["ui"].failed = FALSE
      /\ Same("ui", FALSE)
  BY <1>1, <1>2, BegunBy
<1> QED BY <1>3 DEF Save, Press, Begins, fileVars, channelVars

LEMMA AfterReload ==
  ASSUME TInv, Reload
  PROVE  Begins("classify", FALSE) /\ UNCHANGED <<current, live, doubt>>
<1>1. disk \in Config /\ Continue("ui", Begun("reload", "classify", disk), FALSE)
  BY WorkSteps DEF Reload, TInv, TypeOK
<1>2. /\ work'["ui"].pc = "classify" /\ work'["ui"].stale = FALSE /\ work'["ui"].failed = FALSE
      /\ Same("ui", FALSE)
  BY <1>1, BegunBy
<1> QED BY <1>2 DEF Reload, Press, Begins, fileVars, channelVars

LEMMA AfterSetLive ==
  ASSUME TInv, NEW key \in {"lang", "gain"}, NEW value, [Boot EXCEPT ![key] = value] \in Config,
         SetLive(key, value)
  PROVE  /\ Begins("set", TRUE)
         /\ work'["ui"].op = key /\ work'["ui"].next[key] = value
         /\ live' = [live EXCEPT ![key] = value]
         /\ UNCHANGED <<current, doubt>>
<1>1. Continue("ui", Begun(key, "set", [Boot EXCEPT ![key] = value]), TRUE)
  BY WorkSteps
<1>2. [Boot EXCEPT ![key] = value][key] = value
  BY ConfigSyncAssumption DEF ConfigSyncAssumption, Config
<1>3. /\ work'["ui"].pc = "set" /\ work'["ui"].stale = FALSE /\ work'["ui"].failed = FALSE
      /\ work'["ui"].op = key /\ work'["ui"].next = [Boot EXCEPT ![key] = value]
      /\ Same("ui", TRUE)
  BY <1>1, BegunBy
<1> QED BY <1>2, <1>3 DEF SetLive, Press, Begins, fileVars, channelVars

LEMMA AfterPick ==
  ASSUME TInv, NEW p \in Providers, PickModel(p)
  PROVE  /\ Begins("restore", TRUE)
         /\ LiveOf(current') = LiveOf(current) /\ current'.device = current.device
         /\ work'["ui"].next = current'
         /\ doubt' = doubt \union {"picked"}
         /\ live' = live
<1>1. current' = [current EXCEPT !.provider = p] /\ current' \in Config
      /\ LiveOf(current') = LiveOf(current) /\ current'.device = current.device
  BY DEF PickModel, TInv, TypeOK, Config, LiveOf
<1>2. Continue("ui", Begun("model", "restore", current'), TRUE)
  BY <1>1, WorkSteps
<1>3. /\ work'["ui"].pc = "restore" /\ work'["ui"].stale = FALSE /\ work'["ui"].failed = FALSE
      /\ work'["ui"].next = current' /\ Same("ui", TRUE)
  <2> DEFINE cfg == current'
  <2>1. cfg \in Config /\ Continue("ui", Begun("model", "restore", cfg), TRUE)
    BY <1>1, <1>2
  <2> HIDE DEF cfg
  <2>2. /\ work'["ui"].pc = "restore" /\ work'["ui"].stale = FALSE /\ work'["ui"].failed = FALSE
        /\ work'["ui"].next = cfg /\ Same("ui", TRUE)
    BY <2>1, BegunBy
  <2> QED BY <2>2 DEF cfg
<1> QED BY <1>1, <1>3 DEF PickModel, Press, Begins, fileVars, channelVars

LEMMA AfterSetCurrent ==
  ASSUME TInv, SetCurrent
  PROVE  /\ work["ui"].pc = "set" /\ work'["ui"].pc \in {"write", "idle"}
         /\ work["ui"].op \in {"lang", "gain"}
         /\ LiveOf(current') = [LiveOf(current) EXCEPT ![work["ui"].op] =
                                                        work["ui"].next[work["ui"].op]]
         /\ current'.provider = current.provider /\ current'.device = current.device
         /\ doubt \union {"memory"} \subseteq doubt'
         /\ work["ui"].stale => "crossed" \in doubt'
         /\ Same("ui", TRUE)
         /\ UNCHANGED <<disk, event, sent, fresh, live, source, restart>>
<1>1. /\ work["ui"].pc = "set" /\ work["ui"].op \in {"lang", "gain"}
      /\ current \in Config /\ work["ui"] \in Work /\ work["ui"].next \in Config
      /\ "ui" \in Threads
  BY DEF SetCurrent, TInv, Ops, TypeOK, Threads, Work
<1>2. current' = [current EXCEPT ![work["ui"].op] = work["ui"].next[work["ui"].op]]
  BY DEF SetCurrent
<1>3. /\ LiveOf(current') = [LiveOf(current) EXCEPT ![work["ui"].op] =
                                                    work["ui"].next[work["ui"].op]]
      /\ current' \in Config
      /\ current'.provider = current.provider /\ current'.device = current.device
  <2>1. CASE work["ui"].op = "lang"
    BY <2>1, <1>1, <1>2 DEF Config, LiveOf
  <2>2. CASE work["ui"].op = "gain"
    BY <2>2, <1>1, <1>2 DEF Config, LiveOf
  <2> QED BY <1>1, <2>1, <2>2
<1> DEFINE goes == IF work["ui"].op = "gain"
                   THEN [work["ui"] EXCEPT !.pc = "write", !.next = current'] ELSE Idle
<1>4. goes \in Work /\ goes.pc \in {"write", "idle"}
  <2>1. CASE work["ui"].op = "gain"
    BY <2>1, <1>1, <1>3 DEF Work
  <2>2. CASE work["ui"].op # "gain"
    BY <2>2, IdleIsWork
  <2> QED BY <2>1, <2>2
<1>5. Continue("ui", goes, TRUE)
  BY DEF SetCurrent
<1> HIDE DEF goes
<1>6. work'["ui"] = goes /\ Same("ui", TRUE)
  BY <1>1, <1>4, <1>5, WorkTyped
<1> QED BY <1>1, <1>3, <1>4, <1>6 DEF SetCurrent, Crossing, fileVars, channelVars

LEMMA AfterRestore ==
  ASSUME TInv, Restore
  PROVE  /\ work["ui"].pc = "restore" /\ work'["ui"].pc = "write"
         /\ current' = work["ui"].next
         /\ doubt \union {"picked"} \subseteq doubt'
         /\ work["ui"].stale => "crossed" \in doubt'
         /\ Same("ui", TRUE)
         /\ UNCHANGED <<disk, event, sent, fresh, live, source, restart>>
<1>1. "ui" \in Threads /\ work \in [Threads -> Work]
  BY DEF Threads, TInv, TypeOK
<1>2. At("ui", "write") \in Work /\ At("ui", "write").pc = "write"
  BY <1>1, AtIs
<1>3. work'["ui"] = At("ui", "write") /\ Same("ui", TRUE)
  BY <1>1, <1>2, WorkSteps, WorkTyped
<1> QED BY <1>2, <1>3 DEF Restore, Crossing, fileVars, channelVars

LEMMA AfterWrite ==
  ASSUME TInv, WriteFile
  PROVE  /\ work["ui"].pc = "write" /\ work'["ui"].pc \in {"classify", "idle"}
         /\ event' = TRUE \/ UNCHANGED <<disk, event>>
         /\ Same("ui", FALSE)
         /\ UNCHANGED <<sent, fresh, current, live, source, restart, doubt>>
<1>1. "ui" \in Threads /\ work \in [Threads -> Work]
  BY DEF Threads, TInv, TypeOK
<1>2. At("ui", "classify") \in Work /\ At("ui", "classify").pc = "classify"
  BY <1>1, AtIs
<1>3. CASE Continue("ui", At("ui", "classify"), FALSE)
  <2>1. work'["ui"] = At("ui", "classify") /\ Same("ui", FALSE)
    BY <1>1, <1>2, <1>3, WorkTyped
  <2> QED BY <1>2, <2>1 DEF WriteFile, fileVars, channelVars
<1>4. CASE Continue("ui", Idle, FALSE)
  <2>1. work'["ui"] = Idle /\ Same("ui", FALSE)
    BY <1>1, <1>4, WorkTyped, IdleIsWork
  <2> QED BY <2>1, IdleIsWork DEF WriteFile, fileVars, channelVars
<1> QED BY <1>3, <1>4, WorkSteps

-----------------------------------------------------------------------------
(* A restart is asked for.                                                 *)

\* What was published, and what the task was given, is the provider of the
\* start, or a restart is asked for.
Published ==
  ~restart => sent.provider = Boot.provider /\ work["task"].next.provider = Boot.provider

\* A thread that is not stale has compared with what is in memory.
Compared ==
  \A t \in Threads :
    work[t].pc \in {"swap", "install"} /\ ~work[t].stale =>
      work[t].needs = (current.provider # work[t].next.provider)

Asks == \E t \in Threads : work[t].pc = "derive" /\ work[t].needs

RInv == TInv /\ Published /\ Compared /\ RestartIsFlagged

LEMMA RInit == Init => RInv
<1> SUFFICES ASSUME Init PROVE RInv
  OBVIOUS
<1>1. \A t \in Threads : work[t] = Idle
  BY DEF Init
<1>2. Published /\ Compared
  BY <1>1, IdleIsWork DEF Init, Published, Compared, Threads
<1>3. RestartIsFlagged
  BY DEF Init, RestartIsFlagged
<1> QED BY <1>2, <1>3, TypeInit DEF RInv

LEMMA RStep == RInv /\ [Next]_vars => RInv'
<1> SUFFICES ASSUME RInv, [Next]_vars PROVE RInv'
  OBVIOUS
<1>t. TInv /\ TInv'
  BY TypeStep DEF RInv
<1>a. /\ restart \in BOOLEAN /\ sent \in Config /\ current \in Config
      /\ \A t \in Threads : work[t] \in Work /\ work[t].needs \in BOOLEAN
                            /\ work[t].stale \in BOOLEAN
      /\ restart' \in BOOLEAN
      /\ \A t \in Threads : work'[t].needs \in BOOLEAN /\ work'[t].stale \in BOOLEAN
  <2>1. \A t \in Threads : work[t] \in Work /\ work'[t] \in Work
    BY <1>t DEF TInv, TypeOK
  <2> QED BY <1>t, <2>1 DEF TInv, TypeOK, Work
<1>b. Published /\ Compared /\ RestartIsFlagged
  BY DEF RInv
<1>c. "ui" \in Threads /\ "task" \in Threads /\ "ui" # "task" /\ \A t \in Threads : t \in {"ui", "task"}
  BY DEF Threads
\* A step of a thread that leaves memory, the channel and restart alone.
<1>d. ASSUME NEW t \in Threads, NEW changes \in BOOLEAN, Same(t, changes),
             UNCHANGED <<sent, current, restart>>, doubt \subseteq doubt',
             t = "task" => work'[t].next.provider = work[t].next.provider
                           \/ work'[t].next.provider = sent.provider,
             work'[t].pc \notin {"swap", "install"}, work[t].pc # "derive"
      PROVE  RInv'
  <2>1. Published'
    BY <1>b, <1>c, <1>d DEF Published, Same
  <2>2. Compared'
    BY <1>a, <1>b, <1>d DEF Compared, Same
  <2>3. Asks => Asks'
    BY <1>d DEF Asks, Same
  <2>4. RestartIsFlagged'
    BY <1>b, <1>d, <2>3 DEF RestartIsFlagged, Asks
  <2> QED BY <1>t, <2>1, <2>2, <2>4 DEF RInv
<1>1. CASE UNCHANGED vars
  BY <1>t, <1>b, <1>1 DEF RInv, Published, Compared, RestartIsFlagged, vars, fileVars, channelVars
<1>2. CASE Watch
  <2>1. UNCHANGED <<current, work, doubt>> /\ (restart => restart')
        /\ (~restart' => sent'.provider = sent.provider)
    BY <1>2, <1>a DEF Watch, channelVars
  <2> QED BY <1>t, <1>b, <2>1 DEF RInv, Published, Compared, RestartIsFlagged
<1>3. CASE \E contents \in Edits : Edit(contents)
  BY <1>t, <1>b, <1>3 DEF Edit, RInv, Published, Compared, RestartIsFlagged, channelVars
<1>4. CASE Start
  BY <1>t, <1>4, <1>c, <1>d, AfterStart
<1>5. ASSUME NEW t \in Threads, Classify(t) PROVE RInv'
  <2>1. /\ work[t].pc = "classify" /\ work'[t].pc \in {"swap", "install"}
        /\ work'[t].needs = (current.provider # work[t].next.provider)
        /\ work'[t].next = work[t].next
        /\ Same(t, FALSE)
        /\ UNCHANGED <<sent, current, restart, doubt>>
    BY <1>t, <1>5, AfterClassify
  <2>2. Published'
    BY <1>b, <1>c, <2>1 DEF Published, Same
  <2>3. Compared'
    BY <1>a, <1>b, <2>1 DEF Compared, Same
  <2>4. RestartIsFlagged'
    BY <1>b, <2>1 DEF RestartIsFlagged, Same
  <2> QED BY <1>t, <2>2, <2>3, <2>4 DEF RInv
<1>6. ASSUME NEW t \in Threads, Swap(t) PROVE RInv'
  <2>1. /\ work[t].pc = "swap" /\ work'[t].pc = "install"
        /\ work'[t].needs = work[t].needs /\ work'[t].stale = work[t].stale
        /\ work'[t].next.provider = work[t].next.provider
        /\ restart => restart'
        /\ \E changes \in BOOLEAN : Same(t, changes)
        /\ UNCHANGED <<sent, current, doubt>>
    BY <1>t, <1>6, AfterSwap
  <2>2. Published'
    BY <1>b, <1>c, <2>1 DEF Published, Same
  <2>3. Compared'
    BY <1>a, <1>b, <2>1 DEF Compared, Same
  <2>4. RestartIsFlagged'
    BY <1>b, <2>1 DEF RestartIsFlagged, Same
  <2> QED BY <1>t, <2>2, <2>3, <2>4 DEF RInv
<1>7. ASSUME NEW t \in Threads, Install(t) PROVE RInv'
  <2>1. /\ work[t].pc = "install" /\ work'[t].pc = "derive"
        /\ work'[t].needs = work[t].needs
        /\ work'[t].next = work[t].next /\ current' = work[t].next
        /\ work[t].stale => "crossed" \in doubt'
        /\ t # "task" => doubt \subseteq doubt'
        /\ "crossed" \in doubt => "crossed" \in doubt'
        /\ Same(t, TRUE)
        /\ UNCHANGED <<sent, restart>>
    BY <1>t, <1>7, AfterInstall
  <2>2. Published'
    BY <1>b, <1>c, <2>1 DEF Published, Same
  <2>3. Compared'
    BY <1>a, <1>b, <2>1 DEF Compared, Same
  <2>4. RestartIsFlagged'
    <3>1. CASE restart \/ work[t].stale \/ work[t].needs
      BY <3>1, <2>1 DEF RestartIsFlagged
    <3>2. CASE ~restart /\ ~work[t].stale /\ ~work[t].needs
      <4>1. current'.provider = current.provider
        BY <3>2, <1>b, <2>1 DEF Compared
      <4>2. CASE t = "task"
        BY <3>2, <4>2, <1>b, <2>1 DEF Published, RestartIsFlagged
      <4>3. CASE t # "task"
        BY <3>2, <4>1, <4>3, <1>b, <2>1 DEF RestartIsFlagged, Same
      <4> QED BY <4>2, <4>3
    <3> QED BY <1>a, <3>1, <3>2
  <2> QED BY <1>t, <2>2, <2>3, <2>4 DEF RInv
<1>8. ASSUME NEW t \in Threads, Derive(t) PROVE RInv'
  <2>1. /\ work[t].pc = "derive" /\ work'[t].pc = "idle" /\ work'[t].next = Boot
        /\ restart' = (restart \/ work[t].needs)
        /\ doubt \subseteq doubt'
        /\ Same(t, TRUE)
        /\ UNCHANGED <<sent, current>>
    BY <1>t, <1>8, AfterDerive, IdleIsWork
  <2>2. Published'
    BY <1>b, <1>c, <2>1 DEF Published, Same
  <2>3. Compared'
    BY <1>a, <1>b, <2>1 DEF Compared, Same
  <2>4. RestartIsFlagged'
    BY <1>b, <2>1 DEF RestartIsFlagged, Same
  <2> QED BY <1>t, <2>2, <2>3, <2>4 DEF RInv
<1>9. ASSUME NEW s \in Settings, Save(s) PROVE RInv'
  BY <1>t, <1>9, <1>c, <1>d, AfterSave DEF Begins
<1>10. CASE Reload
  BY <1>t, <1>10, <1>c, <1>d, AfterReload DEF Begins
<1>11. ASSUME NEW key \in {"lang", "gain"}, NEW value, [Boot EXCEPT ![key] = value] \in Config,
              SetLive(key, value)
       PROVE  RInv'
  BY <1>t, <1>11, <1>c, <1>d, AfterSetLive DEF Begins
\* The provider of a picked model is one the watcher has to see first.
<1>12. ASSUME Same("ui", TRUE), work["ui"].pc # "derive", work'["ui"].pc \notin {"swap", "install"},
              "picked" \in doubt', UNCHANGED <<sent, restart>>
       PROVE  RInv'
  <2>1. Published'
    BY <1>b, <1>c, <1>12 DEF Published, Same
  <2>2. Compared'
    BY <1>a, <1>b, <1>12 DEF Compared, Same
  <2>3. RestartIsFlagged'
    BY <1>12 DEF RestartIsFlagged
  <2> QED BY <1>t, <2>1, <2>2, <2>3 DEF RInv
<1>13. ASSUME NEW p \in Providers, PickModel(p) PROVE RInv'
  BY <1>t, <1>12, <1>13, AfterPick DEF Begins
<1>14. CASE Restore
  BY <1>t, <1>12, <1>14, AfterRestore
<1>15. CASE SetCurrent
  <2>1. /\ work["ui"].pc = "set" /\ work'["ui"].pc \in {"write", "idle"}
        /\ current'.provider = current.provider /\ doubt \subseteq doubt'
        /\ Same("ui", TRUE)
        /\ UNCHANGED <<sent, restart>>
    BY <1>t, <1>15, AfterSetCurrent
  <2>2. Published'
    BY <1>b, <1>c, <2>1 DEF Published, Same
  <2>3. Compared'
    BY <1>a, <1>b, <2>1 DEF Compared, Same
  <2>4. RestartIsFlagged'
    BY <1>b, <2>1 DEF RestartIsFlagged, Same
  <2> QED BY <1>t, <2>2, <2>3, <2>4 DEF RInv
<1>16. CASE WriteFile
  BY <1>t, <1>16, <1>c, <1>d, AfterWrite
<1>17. ASSUME NEW l \in Langs, SetLive("lang", l) PROVE RInv'
  <2>1. [Boot EXCEPT !["lang"] = l] \in Config
    BY ConfigSyncAssumption DEF ConfigSyncAssumption, Config
  <2> QED BY <2>1, <1>11, <1>17
<1>18. ASSUME NEW g \in Gains, SetLive("gain", g) PROVE RInv'
  <2>1. [Boot EXCEPT !["gain"] = g] \in Config
    BY ConfigSyncAssumption DEF ConfigSyncAssumption, Config
  <2> QED BY <2>1, <1>11, <1>18
<1> QED BY <1>t, <1>1, <1>2, <1>3, <1>4, <1>5, <1>6, <1>7, <1>8, <1>9, <1>10, <1>13, <1>14, <1>15,
           <1>16, <1>17, <1>18, Steps

\* A provider other than that of the start is not in memory without a restart
\* asked for, whatever is edited, saved, reloaded or refused and however the
\* threads overlap, unless they crossed or a picked model waits for the watcher
\* (config/mod.rs:2466, main.rs:2700).
THEOREM Flagged == Spec => []RestartIsFlagged
<1>1. RInv => RestartIsFlagged
  BY DEF RInv
<1> QED BY RInit, RStep, <1>1, PTL DEF Spec

-----------------------------------------------------------------------------
(* What is in use is what is in memory.                                    *)

\* What is in use differs from memory only while something goes on.
LiveFollows ==
  \/ live = LiveOf(current)
  \/ \E t \in Threads : work[t].pc = "derive"
  \/ work["ui"].pc = "set"

\* What a thread that is not stale has put in memory is there.
StillThere ==
  /\ \A t \in Threads : work[t].pc = "derive" /\ ~work[t].stale => current = work[t].next
  /\ work["ui"].pc = "restore" /\ ~work["ui"].stale => current = work["ui"].next

\* A key has changed one field of what is in use, or the task, which is stale,
\* is about to overwrite it.
KeyAhead ==
  work["ui"].pc = "set" /\ ~work["ui"].stale =>
    \/ live = [LiveOf(current) EXCEPT ![work["ui"].op] = work["ui"].next[work["ui"].op]]
    \/ work["task"].pc = "derive" /\ work["task"].stale

LInv == TInv /\ ("crossed" \notin doubt => LiveFollows /\ StillThere /\ KeyAhead)

LEMMA LInit == Init => LInv
<1> SUFFICES ASSUME Init PROVE LInv
  OBVIOUS
<1>1. \A t \in Threads : work[t].pc = "idle"
  BY IdleIsWork DEF Init
<1>2. LiveFollows
  BY DEF Init, LiveFollows
<1>3. StillThere /\ KeyAhead
  BY <1>1 DEF StillThere, KeyAhead, Threads
<1> QED BY <1>2, <1>3, TypeInit DEF LInv

LEMMA LStep == LInv /\ [Next]_vars => LInv'
<1> SUFFICES ASSUME LInv, [Next]_vars PROVE LInv'
  OBVIOUS
<1>t. TInv /\ TInv'
  BY TypeStep DEF LInv
<1>a. \A t \in Threads : work[t].stale \in BOOLEAN /\ work'[t].stale \in BOOLEAN
  <2>1. \A t \in Threads : work[t] \in Work /\ work'[t] \in Work
    BY <1>t DEF TInv, TypeOK
  <2> QED BY <2>1 DEF Work
<1>b. "crossed" \notin doubt => LiveFollows /\ StillThere /\ KeyAhead
  BY DEF LInv
<1>c. "ui" \in Threads /\ "task" \in Threads /\ "ui" # "task" /\ \A t \in Threads : t \in {"ui", "task"}
  BY DEF Threads
<1>d. ASSUME "crossed" \notin doubt' => "crossed" \notin doubt /\ (LiveFollows' /\ StillThere' /\ KeyAhead')
      PROVE  LInv'
  BY <1>t, <1>d DEF LInv
\* A step that leaves memory and what is in use alone.
<1>e. ASSUME NEW t \in Threads, NEW changes \in BOOLEAN, Same(t, changes),
             UNCHANGED <<current, live, doubt>>,
             work[t].pc \notin {"derive", "set"},
             work'[t].pc \notin {"derive", "set", "restore"}
      PROVE  LInv'
  <2> SUFFICES ASSUME "crossed" \notin doubt PROVE LiveFollows' /\ StillThere' /\ KeyAhead'
    BY <1>d, <1>e
  <2>1. LiveFollows'
    BY <1>b, <1>c, <1>e DEF LiveFollows, Same
  <2>2. StillThere'
    BY <1>a, <1>b, <1>c, <1>e DEF StillThere, Same
  <2>3. KeyAhead'
    BY <1>a, <1>b, <1>c, <1>e DEF KeyAhead, Same
  <2> QED BY <2>1, <2>2, <2>3
<1>1. CASE UNCHANGED <<current, live, work, doubt>>
  BY <1>t, <1>1 DEF LInv, LiveFollows, StillThere, KeyAhead
<1>2. CASE Watch
  BY <1>1, <1>2 DEF Watch
<1>3. CASE \E contents \in Edits : Edit(contents)
  BY <1>1, <1>3 DEF Edit
<1>4. CASE Start
  BY <1>t, <1>4, <1>c, <1>e, AfterStart
<1>5. ASSUME NEW t \in Threads, Classify(t) PROVE LInv'
  BY <1>t, <1>5, <1>e, AfterClassify
<1>6. ASSUME NEW t \in Threads, Swap(t) PROVE LInv'
  BY <1>t, <1>6, <1>e, AfterSwap
<1>7. ASSUME NEW t \in Threads, Install(t) PROVE LInv'
  <2>1. /\ work[t].pc = "install" /\ work'[t].pc = "derive"
        /\ work'[t].next = work[t].next /\ current' = work[t].next
        /\ "crossed" \in doubt => "crossed" \in doubt'
        /\ Same(t, TRUE)
        /\ live' = live
    BY <1>t, <1>7, AfterInstall
  <2>2. LiveFollows'
    BY <2>1 DEF LiveFollows
  <2>3. StillThere'
    BY <1>a, <1>c, <2>1 DEF StillThere, Same
  <2>4. KeyAhead'
    BY <1>a, <1>c, <2>1 DEF KeyAhead, Same
  <2> QED BY <1>d, <2>1, <2>2, <2>3, <2>4
<1>8. ASSUME NEW t \in Threads, Derive(t) PROVE LInv'
  <2>1. /\ work[t].pc = "derive" /\ work'[t].pc = "idle"
        /\ live' = LiveOf(work[t].next) /\ current' = current
        /\ work[t].stale => "crossed" \in doubt'
        /\ doubt \subseteq doubt'
        /\ Same(t, TRUE)
    BY <1>t, <1>8, AfterDerive, IdleIsWork
  <2> SUFFICES ASSUME "crossed" \notin doubt' PROVE LiveFollows' /\ StillThere' /\ KeyAhead'
    BY <1>d, <2>1
  <2>2. LiveFollows'
    BY <1>a, <1>b, <2>1 DEF LiveFollows, StillThere
  <2>3. StillThere'
    BY <1>a, <1>b, <1>c, <2>1 DEF StillThere, Same
  <2>4. KeyAhead'
    BY <1>a, <1>b, <1>c, <2>1 DEF KeyAhead, Same
  <2> QED BY <2>2, <2>3, <2>4
<1>9. ASSUME NEW s \in Settings, Save(s) PROVE LInv'
  BY <1>t, <1>9, <1>c, <1>e, AfterSave DEF Begins
<1>10. CASE Reload
  BY <1>t, <1>10, <1>c, <1>e, AfterReload DEF Begins
<1>11. ASSUME NEW key \in {"lang", "gain"}, NEW value, [Boot EXCEPT ![key] = value] \in Config,
              SetLive(key, value)
       PROVE  LInv'
  <2>1. /\ work["ui"].pc = "idle" /\ work'["ui"].pc = "set"
        /\ work'["ui"].op = key /\ work'["ui"].next[key] = value
        /\ live' = [live EXCEPT ![key] = value]
        /\ Same("ui", TRUE)
        /\ UNCHANGED <<current, doubt>>
    BY <1>t, <1>11, AfterSetLive DEF Begins
  <2> SUFFICES ASSUME "crossed" \notin doubt PROVE LiveFollows' /\ StillThere' /\ KeyAhead'
    BY <1>d, <2>1
  <2>2. LiveFollows'
    BY <2>1 DEF LiveFollows
  <2>3. StillThere'
    BY <1>a, <1>b, <1>c, <2>1 DEF StillThere, Same
  <2>4. KeyAhead'
    <3>1. CASE live = LiveOf(current)
      BY <3>1, <2>1 DEF KeyAhead
    <3>2. CASE work["task"].pc = "derive"
      BY <3>2, <1>c, <2>1 DEF KeyAhead, Same
    <3> QED BY <1>b, <1>c, <2>1, <3>1, <3>2 DEF LiveFollows
  <2> QED BY <2>2, <2>3, <2>4
<1>12. ASSUME NEW p \in Providers, PickModel(p) PROVE LInv'
  <2>1. /\ work["ui"].pc = "idle" /\ work'["ui"].pc = "restore" /\ work'["ui"].next = current'
        /\ LiveOf(current') = LiveOf(current) /\ live' = live
        /\ doubt' = doubt \union {"picked"}
        /\ Same("ui", TRUE)
    BY <1>t, <1>12, AfterPick DEF Begins
  <2> SUFFICES ASSUME "crossed" \notin doubt PROVE LiveFollows' /\ StillThere' /\ KeyAhead'
    BY <1>d, <2>1
  <2>2. LiveFollows'
    BY <1>b, <1>c, <2>1 DEF LiveFollows, Same
  <2>3. StillThere'
    BY <1>a, <1>c, <2>1 DEF StillThere, Same
  <2>4. KeyAhead'
    BY <2>1 DEF KeyAhead
  <2> QED BY <2>2, <2>3, <2>4
<1>13. CASE Restore
  <2>1. /\ work["ui"].pc = "restore" /\ work'["ui"].pc = "write"
        /\ current' = work["ui"].next /\ live' = live
        /\ doubt \subseteq doubt' /\ (work["ui"].stale => "crossed" \in doubt')
        /\ Same("ui", TRUE)
    BY <1>t, <1>13, AfterRestore
  <2> SUFFICES ASSUME "crossed" \notin doubt' PROVE LiveFollows' /\ StillThere' /\ KeyAhead'
    BY <1>d, <2>1
  <2>2. current' = current
    BY <1>b, <2>1 DEF StillThere
  <2>3. LiveFollows'
    BY <1>b, <1>c, <2>1, <2>2 DEF LiveFollows, Same
  <2>4. StillThere' /\ KeyAhead'
    BY <1>a, <1>c, <2>1 DEF StillThere, KeyAhead, Same
  <2> QED BY <2>3, <2>4
<1>14. CASE SetCurrent
  <2>1. /\ work["ui"].pc = "set" /\ work'["ui"].pc \in {"write", "idle"}
        /\ LiveOf(current') = [LiveOf(current) EXCEPT ![work["ui"].op] =
                                                       work["ui"].next[work["ui"].op]]
        /\ doubt \subseteq doubt' /\ (work["ui"].stale => "crossed" \in doubt')
        /\ Same("ui", TRUE)
        /\ live' = live
    BY <1>t, <1>14, AfterSetCurrent
  <2> SUFFICES ASSUME "crossed" \notin doubt' PROVE LiveFollows' /\ StillThere' /\ KeyAhead'
    BY <1>d, <2>1
  <2>2. LiveFollows'
    BY <1>b, <1>c, <2>1 DEF LiveFollows, KeyAhead, Same
  <2>3. StillThere' /\ KeyAhead'
    BY <1>a, <1>c, <2>1 DEF StillThere, KeyAhead, Same
  <2> QED BY <2>2, <2>3
<1>15. CASE WriteFile
  BY <1>t, <1>15, <1>c, <1>e, AfterWrite
<1>16. CASE UNCHANGED vars
  BY <1>1, <1>16 DEF vars
<1>17. ASSUME NEW l \in Langs, SetLive("lang", l) PROVE LInv'
  <2>1. [Boot EXCEPT !["lang"] = l] \in Config
    BY ConfigSyncAssumption DEF ConfigSyncAssumption, Config
  <2> QED BY <2>1, <1>11, <1>17
<1>18. ASSUME NEW g \in Gains, SetLive("gain", g) PROVE LInv'
  <2>1. [Boot EXCEPT !["gain"] = g] \in Config
    BY ConfigSyncAssumption DEF ConfigSyncAssumption, Config
  <2> QED BY <2>1, <1>11, <1>18
<1> QED BY <1>t, <1>2, <1>3, <1>4, <1>5, <1>6, <1>7, <1>8, <1>9, <1>10, <1>12, <1>13, <1>14, <1>15,
           <1>16, <1>17, <1>18, Steps

\* Thread t has the device open it is about to put in memory, or will ask for a
\* restart.
Owes(t) == work[t].pc = "install" \/ (work[t].pc = "derive" /\ work[t].needs)

DeviceFollows == source = current.device \/ \E t \in Threads : Owes(t)

\* Unless another thread owes as much, what a thread is about to put in memory
\* is the device that is open.
Opened ==
  \A t \in Threads :
    work[t].pc = "install" /\ ~work[t].stale /\ ~work[t].needs =>
      source = work[t].next.device \/ \E u \in Threads \ {t} : Owes(u)

\* The device to go back to is still that of memory.
WayBack ==
  \A t \in Threads : work[t].pc = "swap" /\ ~work[t].stale => work[t].prev = current.device

DInv == TInv /\ ("crossed" \notin doubt => WayBack /\ (~restart => DeviceFollows /\ Opened))

LEMMA DInit == Init => DInv
<1> SUFFICES ASSUME Init PROVE DInv
  OBVIOUS
<1>1. \A t \in Threads : work[t].pc = "idle"
  BY IdleIsWork DEF Init
<1>2. DeviceFollows
  BY DEF Init, DeviceFollows
<1>3. Opened /\ WayBack
  BY <1>1 DEF Opened, WayBack
<1> QED BY <1>2, <1>3, TypeInit DEF DInv

LEMMA DStep == LInv /\ DInv /\ [Next]_vars => DInv'
<1> SUFFICES ASSUME LInv, DInv, [Next]_vars PROVE DInv'
  OBVIOUS
<1>t. TInv /\ TInv'
  BY TypeStep DEF DInv
<1>a. /\ \A t \in Threads : work[t].stale \in BOOLEAN /\ work'[t].stale \in BOOLEAN
                            /\ work[t].needs \in BOOLEAN /\ work'[t].needs \in BOOLEAN
      /\ restart \in BOOLEAN /\ restart' \in BOOLEAN
  <2>1. \A t \in Threads : work[t] \in Work /\ work'[t] \in Work
    BY <1>t DEF TInv, TypeOK
  <2> QED BY <1>t, <2>1 DEF Work, TInv, TypeOK
<1>b. "crossed" \notin doubt => WayBack /\ (~restart => DeviceFollows /\ Opened)
  BY DEF DInv
<1>c. "ui" \in Threads /\ "task" \in Threads /\ "ui" # "task" /\ \A t \in Threads : t \in {"ui", "task"}
  BY DEF Threads
<1>d. ASSUME "crossed" \notin doubt' => "crossed" \notin doubt /\ WayBack'
                                     /\ (~restart' => DeviceFollows' /\ Opened')
      PROVE  DInv'
  BY <1>t, <1>d DEF DInv
\* A step after which another thread still owes what it owed.
<1>e. ASSUME NEW t \in Threads, NEW changes \in BOOLEAN, Same(t, changes)
      PROVE  \A u \in Threads \ {t} : Owes(u)' <=> Owes(u)
  BY <1>e DEF Owes, Same
\* A step of a thread that owes nothing and does not touch the device in memory.
<1>f. ASSUME NEW t \in Threads, NEW changes \in BOOLEAN, Same(t, changes),
             UNCHANGED <<source, restart>>, current'.device = current.device,
             doubt \subseteq doubt', ~Owes(t),
             work'[t].pc \notin {"swap", "install", "derive"}
      PROVE  DInv'
  <2> SUFFICES ASSUME "crossed" \notin doubt'
               PROVE  WayBack' /\ (~restart' => DeviceFollows' /\ Opened')
    BY <1>d, <1>f
  <2>0. \A u \in Threads \ {t} : Owes(u)' <=> Owes(u)
    BY <1>e, <1>f
  <2>1. WayBack'
    BY <1>a, <1>b, <1>f DEF WayBack, Same
  <2>2. ASSUME ~restart PROVE DeviceFollows'
    <3>1. source = current.device \/ \E u \in Threads \ {t} : Owes(u)
      BY <1>b, <1>f, <2>2 DEF DeviceFollows
    <3> QED BY <1>f, <2>0, <3>1 DEF DeviceFollows
  <2>3. ASSUME ~restart PROVE Opened'
    <3> SUFFICES ASSUME NEW v \in Threads, work'[v].pc = "install", ~work'[v].stale, ~work'[v].needs
                 PROVE  source' = work'[v].next.device \/ \E u \in Threads \ {v} : Owes(u)'
      BY DEF Opened
    <3>1. v # t /\ work[v].pc = "install" /\ ~work[v].stale /\ ~work[v].needs
          /\ work'[v].next = work[v].next
      BY <1>a, <1>f DEF Same
    <3>2. source = work[v].next.device \/ \E u \in Threads \ {v} : Owes(u)
      BY <1>b, <1>f, <2>3, <3>1 DEF Opened
    <3> QED BY <1>f, <2>0, <3>1, <3>2
  <2> QED BY <1>f, <2>1, <2>2, <2>3
<1>1. CASE UNCHANGED <<current, source, work, doubt>> /\ (restart => restart')
  BY <1>t, <1>1 DEF DInv, DeviceFollows, Opened, WayBack, Owes
<1>2. CASE Watch
  <2>1. UNCHANGED <<current, source, work, doubt>> /\ (restart => restart')
    BY <1>2 DEF Watch
  <2> QED BY <1>1, <2>1
<1>3. CASE \E contents \in Edits : Edit(contents)
  BY <1>1, <1>3 DEF Edit
<1>4. CASE Start
  BY <1>t, <1>4, <1>c, <1>f, AfterStart DEF Owes
<1>9. ASSUME NEW s \in Settings, Save(s) PROVE DInv'
  BY <1>t, <1>9, <1>c, <1>f, AfterSave DEF Begins, Owes
<1>10. CASE Reload
  BY <1>t, <1>10, <1>c, <1>f, AfterReload DEF Begins, Owes
<1>11. ASSUME NEW key \in {"lang", "gain"}, NEW value, [Boot EXCEPT ![key] = value] \in Config,
              SetLive(key, value)
       PROVE  DInv'
  BY <1>t, <1>11, <1>c, <1>f, AfterSetLive DEF Begins, Owes
<1>12. ASSUME NEW p \in Providers, PickModel(p) PROVE DInv'
  <2>1. /\ work["ui"].pc = "idle" /\ work'["ui"].pc = "restore"
        /\ current'.device = current.device /\ doubt \subseteq doubt'
        /\ Same("ui", TRUE) /\ UNCHANGED <<source, restart>>
    BY <1>t, <1>12, AfterPick DEF Begins
  <2> QED BY <1>c, <1>f, <2>1 DEF Owes
<1>14. CASE SetCurrent
  <2>1. /\ work["ui"].pc = "set" /\ work'["ui"].pc \in {"write", "idle"}
        /\ current'.device = current.device /\ doubt \subseteq doubt'
        /\ Same("ui", TRUE) /\ UNCHANGED <<source, restart>>
    BY <1>t, <1>14, AfterSetCurrent
  <2> QED BY <1>c, <1>f, <2>1 DEF Owes
<1>15. CASE WriteFile
  BY <1>t, <1>15, <1>c, <1>f, AfterWrite DEF Owes
<1>16. CASE UNCHANGED vars
  BY <1>1, <1>16 DEF vars
<1>17. ASSUME NEW l \in Langs, SetLive("lang", l) PROVE DInv'
  <2>1. [Boot EXCEPT !["lang"] = l] \in Config
    BY ConfigSyncAssumption DEF ConfigSyncAssumption, Config
  <2> QED BY <2>1, <1>11, <1>17
<1>18. ASSUME NEW g \in Gains, SetLive("gain", g) PROVE DInv'
  <2>1. [Boot EXCEPT !["gain"] = g] \in Config
    BY ConfigSyncAssumption DEF ConfigSyncAssumption, Config
  <2> QED BY <2>1, <1>11, <1>18
\* The four steps that apply a configuration.
<1>5. ASSUME NEW t \in Threads, Classify(t) PROVE DInv'
  <2>1. /\ work[t].pc = "classify" /\ work'[t].pc \in {"swap", "install"}
        /\ work'[t].pc = "install" <=> (work'[t].needs \/ current.device = work[t].next.device)
        /\ work'[t].prev = current.device /\ work'[t].next = work[t].next
        /\ Same(t, FALSE)
        /\ UNCHANGED <<current, source, restart, doubt>>
    BY <1>t, <1>5, AfterClassify
  <2> SUFFICES ASSUME "crossed" \notin doubt
               PROVE  WayBack' /\ (~restart => DeviceFollows' /\ Opened')
    BY <1>d, <2>1
  <2>0. \A u \in Threads \ {t} : Owes(u)' <=> Owes(u)
    BY <1>e, <2>1
  <2>2. WayBack'
    BY <1>a, <1>b, <2>1 DEF WayBack, Same
  <2>3. ~restart => source = current.device \/ \E u \in Threads \ {t} : Owes(u)
    BY <1>b, <2>1 DEF DeviceFollows, Owes
  <2>4. ~restart => DeviceFollows'
    BY <2>0, <2>1, <2>3 DEF DeviceFollows
  <2>5. ASSUME ~restart PROVE Opened'
    <3> SUFFICES ASSUME NEW v \in Threads, work'[v].pc = "install", ~work'[v].stale, ~work'[v].needs
                 PROVE  source' = work'[v].next.device \/ \E u \in Threads \ {v} : Owes(u)'
      BY DEF Opened
    <3>1. CASE v = t
      BY <2>0, <2>1, <2>3, <2>5, <3>1
    <3>2. CASE v # t
      <4>1. work[v].pc = "install" /\ ~work[v].stale /\ ~work[v].needs /\ work'[v].next = work[v].next
        BY <1>a, <2>1, <3>2 DEF Same
      <4>2. source = work[v].next.device \/ \E u \in Threads \ {v} : Owes(u)
        BY <1>b, <2>5, <4>1 DEF Opened
      <4>3. ~Owes(t)
        BY <2>1 DEF Owes
      <4> QED BY <2>0, <2>1, <4>1, <4>2, <4>3
    <3> QED BY <3>1, <3>2
  <2> QED BY <2>2, <2>4, <2>5
<1>6. ASSUME NEW t \in Threads, Swap(t) PROVE DInv'
  <2>1. /\ work[t].pc = "swap" /\ work'[t].pc = "install"
        /\ work'[t].needs = work[t].needs /\ work'[t].stale = work[t].stale
        /\ UNCHANGED <<current, doubt>>
    BY <1>t, <1>6, AfterSwap
  <2>2. \/ restart' = TRUE
        \/ /\ source' = work'[t].next.device /\ restart' = restart /\ Same(t, TRUE)
        \/ /\ source' = source /\ restart' = restart /\ work'[t].next.device = work[t].prev
           /\ Same(t, FALSE)
    BY <1>t, <1>6, AfterSwap
  <2>3. \E changes \in BOOLEAN : Same(t, changes)
    BY <1>t, <1>6, AfterSwap
  <2> SUFFICES ASSUME "crossed" \notin doubt
               PROVE  WayBack' /\ (~restart' => DeviceFollows' /\ Opened')
    BY <1>d, <2>1
  <2>0. \A u \in Threads \ {t} : Owes(u)' <=> Owes(u)
    BY <1>e, <2>3
  <2>4. WayBack'
    BY <1>a, <1>b, <2>1, <2>3 DEF WayBack, Same
  <2>5. DeviceFollows'
    BY <2>1 DEF DeviceFollows, Owes
  <2>6. ASSUME ~restart' PROVE Opened'
    <3> SUFFICES ASSUME NEW v \in Threads, work'[v].pc = "install", ~work'[v].stale, ~work'[v].needs
                 PROVE  source' = work'[v].next.device \/ \E u \in Threads \ {v} : Owes(u)'
      BY DEF Opened
    <3>1. CASE v # t
      BY <2>1, <3>1 DEF Owes
    <3>2. CASE v = t /\ source' = work'[t].next.device
      BY <3>2
    <3>3. CASE v = t /\ source' = source /\ restart' = restart /\ work'[t].next.device = work[t].prev
      <4>1. work[t].prev = current.device
        BY <1>b, <2>1, <3>3 DEF WayBack
      <4>2. source = current.device \/ \E u \in Threads \ {t} : Owes(u)
        BY <1>b, <2>1, <2>6, <3>3 DEF DeviceFollows, Owes
      <4> QED BY <2>0, <3>3, <4>1, <4>2
    <3> QED BY <2>2, <2>6, <3>1, <3>2, <3>3
  <2> QED BY <2>4, <2>5, <2>6
<1>7. ASSUME NEW t \in Threads, Install(t) PROVE DInv'
  <2>1. /\ work[t].pc = "install" /\ work'[t].pc = "derive"
        /\ work'[t].needs = work[t].needs /\ current' = work[t].next
        /\ "crossed" \in doubt => "crossed" \in doubt'
        /\ work[t].stale => "crossed" \in doubt'
        /\ Same(t, TRUE)
        /\ UNCHANGED <<source, restart>>
    BY <1>t, <1>7, AfterInstall
  <2> SUFFICES ASSUME "crossed" \notin doubt'
               PROVE  WayBack' /\ (~restart' => DeviceFollows' /\ Opened')
    BY <1>d, <2>1
  <2>0. \A u \in Threads \ {t} : Owes(u)' <=> Owes(u)
    BY <1>e, <2>1
  <2>2. \A u \in Threads : work'[u].pc \in {"swap", "install"} => work'[u].stale
    BY <2>1 DEF Same
  <2>3. ASSUME ~restart PROVE DeviceFollows'
    <3>1. CASE work[t].needs
      BY <2>1, <3>1 DEF DeviceFollows, Owes
    <3>2. CASE ~work[t].needs
      <4>1. source = work[t].next.device \/ \E u \in Threads \ {t} : Owes(u)
        BY <1>a, <1>b, <2>1, <2>3, <3>2 DEF Opened
      <4> QED BY <2>0, <2>1, <4>1 DEF DeviceFollows
    <3> QED BY <3>1, <3>2
  <2> QED BY <2>1, <2>2, <2>3 DEF WayBack, Opened
<1>8. ASSUME NEW t \in Threads, Derive(t) PROVE DInv'
  <2>1. /\ work[t].pc = "derive" /\ work'[t].pc = "idle"
        /\ current' = current /\ source' = source
        /\ restart' = (restart \/ work[t].needs)
        /\ doubt \subseteq doubt'
        /\ Same(t, TRUE)
    BY <1>t, <1>8, AfterDerive, IdleIsWork
  <2>2. CASE restart'
    <3>1. WayBack' \/ "crossed" \in doubt'
      BY <1>a, <1>b, <2>1 DEF WayBack, Same
    <3> QED BY <1>d, <2>1, <2>2, <3>1
  <2>3. CASE ~restart'
    BY <1>a, <1>c, <1>f, <2>1, <2>3 DEF Owes
  <2> QED BY <2>2, <2>3
\* The second half of a picked model finds in memory what the first put there.
<1>13. CASE Restore
  <2>1. /\ work["ui"].pc = "restore" /\ work'["ui"].pc = "write"
        /\ current' = work["ui"].next
        /\ doubt \subseteq doubt' /\ (work["ui"].stale => "crossed" \in doubt')
        /\ Same("ui", TRUE)
        /\ UNCHANGED <<source, restart>>
    BY <1>t, <1>13, AfterRestore
  <2>2. CASE "crossed" \in doubt'
    BY <1>d, <2>2
  <2>3. CASE "crossed" \notin doubt'
    <3>1. current' = current
      BY <2>1, <2>3 DEF LInv, StillThere
    <3> QED BY <1>c, <1>f, <2>1, <3>1 DEF Owes
  <2> QED BY <2>2, <2>3
<1> QED BY <1>t, <1>2, <1>3, <1>4, <1>5, <1>6, <1>7, <1>8, <1>9, <1>10, <1>12, <1>13, <1>14, <1>15,
           <1>16, <1>17, <1>18, Steps

\* Once everything begun has ended, the program uses what is in memory, or is
\* behind with its device and asks for a restart, unless two threads crossed
\* (main.rs:2700-2830).
THEOREM Agree == Spec => []ViewsAgree
<1>1. LInv /\ DInv => ViewsAgree
  <2> SUFFICES ASSUME LInv, DInv, Quiet, "crossed" \notin doubt
               PROVE  live = LiveOf(current) /\ (~restart => source = current.device)
    BY DEF ViewsAgree
  <2>1. \A t \in Threads : work[t].pc = "idle"
    BY DEF Quiet
  <2>2. live = LiveOf(current)
    BY <2>1 DEF LInv, LiveFollows, Threads
  <2>3. ~restart => source = current.device
    BY <2>1 DEF DInv, DeviceFollows, Owes
  <2> QED BY <2>2, <2>3
<1> QED BY LInit, LStep, DInit, DStep, <1>1, PTL DEF Spec

-----------------------------------------------------------------------------
(* What is in the file gets to memory.                                     *)

\* The watcher has an event for what it has not published.
Watched == ~event => disk \in {sent, Bad}

\* What was published last is with the task, or waits for it.
Handed ==
  work["task"].pc \in {"classify", "swap", "install"} /\ ~work["task"].failed /\ ~fresh =>
    work["task"].next = sent

\* Memory has it, or there is one of the reasons.
Arrives ==
  doubt = {} => \/ current = sent
                \/ fresh
                \/ work["task"].pc \in {"classify", "swap", "install"}

FInv == TInv /\ Watched /\ Handed /\ Arrives

LEMMA FInit == Init => FInv
<1> SUFFICES ASSUME Init PROVE FInv
  OBVIOUS
<1>1. work["task"].pc = "idle"
  BY IdleIsWork DEF Init, Threads
<1> QED BY <1>1, TypeInit DEF FInv, Init, Watched, Handed, Arrives

LEMMA FStep == FInv /\ [Next]_vars => FInv'
<1> SUFFICES ASSUME FInv, [Next]_vars PROVE FInv'
  OBVIOUS
<1>t. TInv /\ TInv'
  BY TypeStep DEF FInv
<1>a. /\ \A t \in Threads : work[t].failed \in BOOLEAN /\ work'[t].failed \in BOOLEAN
                            /\ work[t].stale \in BOOLEAN
      /\ fresh \in BOOLEAN /\ fresh' \in BOOLEAN /\ event \in BOOLEAN
  <2>1. \A t \in Threads : work[t] \in Work /\ work'[t] \in Work
    BY <1>t DEF TInv, TypeOK
  <2> QED BY <1>t, <2>1 DEF Work, TInv, TypeOK
<1>b. Watched /\ Handed /\ Arrives
  BY DEF FInv
<1>c. "ui" \in Threads /\ "task" \in Threads /\ "ui" # "task" /\ \A t \in Threads : t \in {"ui", "task"}
  BY DEF Threads
\* A step of the thread of the user interface that leaves memory alone, or says
\* why it differs.
<1>d. ASSUME NEW changes \in BOOLEAN, Same("ui", changes),
             event' = TRUE \/ UNCHANGED <<disk, event>>, UNCHANGED <<sent, fresh>>,
             doubt' = {} => doubt = {} /\ (current' = current \/ current' = sent)
      PROVE  FInv'
  <2>1. /\ work'["task"].pc = work["task"].pc /\ work'["task"].next = work["task"].next
        /\ work'["task"].failed = work["task"].failed
    BY <1>c, <1>d DEF Same
  <2>2. Watched' /\ Handed' /\ Arrives'
    BY <1>b, <1>d, <2>1 DEF Watched, Handed, Arrives
  <2> QED BY <1>t, <2>2 DEF FInv
<1>1. CASE UNCHANGED vars
  BY <1>t, <1>b, <1>1 DEF FInv, Watched, Handed, Arrives, vars, fileVars, channelVars
<1>2. CASE Watch
  <2>1. UNCHANGED <<disk, current, work, doubt>> /\ event' = FALSE
        /\ \/ disk \in {Bad, sent} /\ UNCHANGED <<sent, fresh>>
           \/ sent' = disk /\ fresh' = TRUE
    BY <1>2 DEF Watch, channelVars
  <2> QED BY <1>t, <1>b, <2>1 DEF FInv, Watched, Handed, Arrives
<1>3. CASE \E contents \in Edits : Edit(contents)
  <2>1. UNCHANGED <<sent, fresh, current, work, doubt>> /\ event' = TRUE
    BY <1>3 DEF Edit, channelVars
  <2> QED BY <1>t, <1>b, <2>1 DEF FInv, Watched, Handed, Arrives
<1>4. CASE Start
  <2>1. /\ work'["task"].pc = "classify" /\ work'["task"].next = sent
        /\ UNCHANGED <<disk, event, sent, current, doubt>>
    BY <1>t, <1>4, AfterStart
  <2> QED BY <1>t, <1>b, <2>1 DEF FInv, Watched, Handed, Arrives
<1>5. ASSUME NEW t \in Threads, Classify(t) PROVE FInv'
  <2>1. /\ work[t].pc = "classify" /\ work'[t].pc \in {"swap", "install"}
        /\ work'[t].next = work[t].next /\ work'[t].failed = work[t].failed
        /\ Same(t, FALSE)
        /\ UNCHANGED <<disk, event, sent, fresh, current, doubt>>
    BY <1>t, <1>5, AfterClassify
  <2>2. CASE t = "ui"
    BY <1>d, <2>1, <2>2
  <2>3. CASE t = "task"
    BY <1>t, <1>b, <2>1, <2>3 DEF FInv, Watched, Handed, Arrives
  <2> QED BY <1>c, <2>2, <2>3
<1>6. ASSUME NEW t \in Threads, Swap(t) PROVE FInv'
  <2>1. /\ work[t].pc = "swap" /\ work'[t].pc = "install"
        /\ \/ work'[t].next = work[t].next /\ work'[t].failed = work[t].failed
           \/ work'[t].failed = TRUE
        /\ \E changes \in BOOLEAN : Same(t, changes)
        /\ UNCHANGED <<disk, event, sent, fresh, current, doubt>>
    BY <1>t, <1>6, AfterSwap
  <2>2. CASE t = "ui"
    BY <1>d, <2>1, <2>2
  <2>3. CASE t = "task"
    BY <1>t, <1>b, <2>1, <2>3 DEF FInv, Watched, Handed, Arrives
  <2> QED BY <1>c, <2>2, <2>3
<1>7. ASSUME NEW t \in Threads, Install(t) PROVE FInv'
  <2>1. /\ work[t].pc = "install" /\ work'[t].pc = "derive"
        /\ current' = work[t].next
        /\ work[t].failed => "swap" \in doubt'
        /\ t # "task" => doubt \subseteq doubt'
        /\ t # "task" /\ work[t].next # sent => "memory" \in doubt'
        /\ Same(t, TRUE)
        /\ UNCHANGED <<disk, event, sent, fresh>>
    BY <1>t, <1>7, AfterInstall
  <2>2. CASE t = "ui"
    BY <1>c, <1>d, <2>1, <2>2
  <2>3. CASE t = "task"
    <3>1. Watched' /\ Handed'
      BY <1>b, <2>1, <2>3 DEF Watched, Handed
    <3>2. Arrives'
      BY <1>a, <1>b, <1>c, <2>1, <2>3 DEF Handed, Arrives
    <3> QED BY <1>t, <3>1, <3>2 DEF FInv
  <2> QED BY <1>c, <2>2, <2>3
<1>8. ASSUME NEW t \in Threads, Derive(t) PROVE FInv'
  <2>1. /\ work[t].pc = "derive" /\ work'[t].pc = "idle"
        /\ doubt \subseteq doubt'
        /\ Same(t, TRUE)
        /\ UNCHANGED <<disk, event, sent, fresh, current>>
    BY <1>t, <1>8, AfterDerive, IdleIsWork
  <2>2. CASE t = "ui"
    BY <1>d, <2>1, <2>2
  <2>3. CASE t = "task"
    BY <1>t, <1>b, <2>1, <2>3 DEF FInv, Watched, Handed, Arrives
  <2> QED BY <1>c, <2>2, <2>3
<1>9. ASSUME NEW s \in Settings, Save(s) PROVE FInv'
  BY <1>t, <1>9, <1>d, AfterSave DEF Begins
<1>10. CASE Reload
  BY <1>t, <1>10, <1>d, AfterReload DEF Begins
<1>11. ASSUME NEW key \in {"lang", "gain"}, NEW value, [Boot EXCEPT ![key] = value] \in Config,
              SetLive(key, value)
       PROVE  FInv'
  BY <1>t, <1>11, <1>d, AfterSetLive DEF Begins
<1>12. ASSUME NEW p \in Providers, PickModel(p) PROVE FInv'
  BY <1>t, <1>12, <1>d, AfterPick DEF Begins
<1>13. CASE Restore
  BY <1>t, <1>13, <1>d, AfterRestore
<1>14. CASE SetCurrent
  BY <1>t, <1>14, <1>d, AfterSetCurrent
<1>15. CASE WriteFile
  BY <1>t, <1>15, <1>d, AfterWrite
<1>17. ASSUME NEW l \in Langs, SetLive("lang", l) PROVE FInv'
  <2>1. [Boot EXCEPT !["lang"] = l] \in Config
    BY ConfigSyncAssumption DEF ConfigSyncAssumption, Config
  <2> QED BY <2>1, <1>11, <1>17
<1>18. ASSUME NEW g \in Gains, SetLive("gain", g) PROVE FInv'
  <2>1. [Boot EXCEPT !["gain"] = g] \in Config
    BY ConfigSyncAssumption DEF ConfigSyncAssumption, Config
  <2> QED BY <2>1, <1>11, <1>18
<1> QED BY <1>t, <1>1, <1>2, <1>3, <1>4, <1>5, <1>6, <1>7, <1>8, <1>9, <1>10, <1>12, <1>13, <1>14, <1>15,
           <1>17, <1>18, Steps

\* Once everything begun has ended memory is what the watcher published last, and
\* the file is that or not valid, but for a device that could not be opened, a
\* change made in memory only, and threads that crossed (config/mod.rs:2466).
THEOREM Applied == Spec => []FileIsApplied
<1>1. FInv => FileIsApplied
  BY DEF FInv, FileIsApplied, Quiet, Watched, Arrives, Threads
<1> QED BY FInit, FStep, <1>1, PTL DEF Spec
=============================================================================
