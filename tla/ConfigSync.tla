----------------------------- MODULE ConfigSync -----------------------------
(***************************************************************************)
(* How a change of the configuration reaches the running program.          *)
(*                                                                         *)
(* The file can be changed by anyone and is read by a watcher thread       *)
(* (src/src/config/mod.rs), which publishes what is valid on a watch       *)
(* channel; a task applies what is published.  The thread of the user      *)
(* interface applies configurations too (settings saved, file reloaded)    *)
(* and changes single fields by keys (src/src/main.rs).  Each has critical *)
(* sections, but what they do between two of them is not protected.        *)
(*                                                                         *)
(* Fields of the same treatment are one here: "lang" stands for those that *)
(* are copied to the running program, "gain" for those that have a key and *)
(* are not in the settings editor, "device" for the capture source, and    *)
(* "provider" for those that need a restart.  The status line is left out. *)
(***************************************************************************)
EXTENDS FiniteSets, Integers

CONSTANTS Langs, Devices, Providers, Gains,
          Boot,        \* the configuration the program started with
          Edits,       \* what an editor may put in the file, Bad included
          Settings,    \* what the user may set in the settings
          Bad,         \* a file that cannot be parsed or does not validate
          Keys,        \* what the user does: "save", "reload", "lang", "gain", "model"
          MaxEdits,    \* BOUND: edits of the file
          MaxKeys      \* BOUND: operations of the user

Config == [lang : Langs, device : Devices, provider : Providers, gain : Gains]
Setting == [lang : Langs, device : Devices, provider : Providers]

ASSUME ConfigSyncAssumption ==
  /\ Boot \in Config /\ Bad \notin Config
  /\ Edits \subseteq Config \union {Bad} /\ Settings \subseteq Setting
  /\ MaxEdits \in Nat /\ MaxKeys \in Nat

Threads == {"ui", "task"}

VARIABLES
  disk, event,         \* config.json; a change of it the watcher has not looked at
  sent, fresh,         \* the watch channel; its value has not been seen by the task
  current,             \* current_config
  live,                \* what the program uses: the language and the gain
  source,              \* the device the capture router has open
  restart,             \* restart_required
  work,                \* per thread: what it is doing
  edits, keys,
  doubt                \* history: why memory may differ from the file

fileVars == <<disk, event>>
channelVars == <<sent, fresh>>
vars == <<fileVars, channelVars, current, live, source, restart, work, edits, keys, doubt>>

\* next is the configuration being applied, prev the device it replaces, stale
\* (history) whether another thread has changed memory since the work began.
Idle == [pc |-> "idle", next |-> Boot, prev |-> Boot.device, needs |-> FALSE,
         failed |-> FALSE, op |-> "none", stale |-> FALSE]

LiveOf(cfg) == [lang |-> cfg.lang, gain |-> cfg.gain]

Init ==
  /\ disk = Boot /\ event = FALSE
  /\ sent = Boot /\ fresh = FALSE
  /\ current = Boot /\ live = LiveOf(Boot) /\ source = Boot.device
  /\ restart = FALSE
  /\ work = [t \in Threads |-> Idle]
  /\ edits = 0 /\ keys = 0 /\ doubt = {}

\* Thread t goes on with what; if it changed memory, the work of the other is stale.
Continue(t, what, changes) ==
  work' = [u \in Threads |->
             IF u = t THEN what
             ELSE [work[u] EXCEPT !.stale = @ \/ (changes /\ work[u].pc # "idle")]]

\* Memory is overwritten by work that began before another thread changed it.
Crossing(t) == IF work[t].stale THEN {"crossed"} ELSE {}

-----------------------------------------------------------------------------
(* The file and its watcher.                                               *)

Edit(contents) ==
  /\ edits < MaxEdits /\ edits' = edits + 1
  /\ disk' = contents /\ event' = TRUE
  /\ UNCHANGED <<channelVars, current, live, source, restart, work, keys, doubt>>

\* MUTANT of Watch: what is published while the task works is not noticed.
WatchWhileIdle ==
  /\ event /\ event' = FALSE
  /\ IF disk \in {Bad, sent}
     THEN UNCHANGED <<channelVars, restart>>
     ELSE /\ sent' = disk /\ fresh' = (fresh \/ work["task"].pc = "idle")
          /\ restart' = (restart \/ disk.provider # sent.provider)
  /\ UNCHANGED <<disk, current, live, source, work, edits, keys, doubt>>

\* handle_watch_event: what is valid and differs from what was published last
\* (not from current_config) is published.  load has validated the file, so
\* that evaluate_change has nothing left to reject.
Watch ==
  /\ event /\ event' = FALSE
  /\ IF disk \in {Bad, sent}
     THEN UNCHANGED <<channelVars, restart>>
     ELSE /\ sent' = disk /\ fresh' = TRUE
          /\ restart' = (restart \/ disk.provider # sent.provider)
  /\ UNCHANGED <<disk, current, live, source, work, edits, keys, doubt>>

-----------------------------------------------------------------------------
(* Applying a configuration (apply_runtime_config), in the task or the     *)
(* thread of the user interface.                                           *)

\* The task takes the value published last.
Start ==
  /\ work["task"].pc = "idle" /\ fresh
  /\ fresh' = FALSE
  /\ Continue("task", [Idle EXCEPT !.pc = "classify", !.next = sent], FALSE)
  /\ UNCHANGED <<fileVars, sent, current, live, source, restart, edits, keys, doubt>>

\* Under the lock: how does it differ from current_config?
Classify(t) ==
  /\ work[t].pc = "classify"
  /\ LET needs == current.provider # work[t].next.provider
         moved == current.device # work[t].next.device
     IN  Continue(t, [work[t] EXCEPT !.pc = IF moved /\ ~needs THEN "swap" ELSE "install",
                                     !.needs = needs, !.prev = current.device], FALSE)
  /\ UNCHANGED <<fileVars, channelVars, current, live, source, restart, edits, keys, doubt>>

\* The capture router is asked to change its device, and may refuse; or there
\* is none yet.
Swap(t) ==
  /\ work[t].pc = "swap"
  /\ \/ /\ source' = work[t].next.device
        /\ Continue(t, [work[t] EXCEPT !.pc = "install"], TRUE)
        /\ UNCHANGED restart
     \/ /\ Continue(t, [work[t] EXCEPT !.pc = "install", !.next.device = work[t].prev,
                                       !.failed = TRUE], FALSE)
        /\ UNCHANGED <<source, restart>>
     \/ /\ Continue(t, [work[t] EXCEPT !.pc = "install"], FALSE)
        /\ restart' = TRUE
        /\ UNCHANGED source
  /\ UNCHANGED <<fileVars, channelVars, current, live, edits, keys, doubt>>

\* Under the lock: it becomes current_config.
Install(t) ==
  /\ work[t].pc = "install"
  /\ current' = work[t].next
  /\ Continue(t, [work[t] EXCEPT !.pc = "derive"], TRUE)
  /\ doubt' = (CASE t = "task"             -> doubt \ {"memory", "picked", "swap"}
                 [] work[t].next # sent    -> doubt \union {"memory"}
                 [] OTHER                  -> doubt)
                \union Crossing(t) \union (IF work[t].failed THEN {"swap"} ELSE {})
  /\ UNCHANGED <<fileVars, channelVars, live, source, restart, edits, keys>>

\* MUTANT of Derive: the watcher alone asks for a restart.
DeriveUnflagged(t) ==
  /\ work[t].pc = "derive"
  /\ live' = LiveOf(work[t].next)
  /\ Continue(t, Idle, TRUE)
  /\ doubt' = doubt \union Crossing(t)
  /\ UNCHANGED <<fileVars, channelVars, current, source, restart, edits, keys>>

\* MUTANT of Derive: the gain is not copied.
DerivePartly(t) ==
  /\ work[t].pc = "derive"
  /\ live' = [live EXCEPT !.lang = work[t].next.lang]
  /\ restart' = (restart \/ work[t].needs)
  /\ Continue(t, Idle, TRUE)
  /\ doubt' = doubt \union Crossing(t)
  /\ UNCHANGED <<fileVars, channelVars, current, source, edits, keys>>

\* What the program uses is overwritten.
Derive(t) ==
  /\ work[t].pc = "derive"
  /\ live' = LiveOf(work[t].next)
  /\ restart' = (restart \/ work[t].needs)
  /\ Continue(t, Idle, TRUE)
  /\ doubt' = doubt \union Crossing(t)
  /\ UNCHANGED <<fileVars, channelVars, current, source, edits, keys>>

Apply(t) == Classify(t) \/ Swap(t) \/ Install(t) \/ Derive(t)

-----------------------------------------------------------------------------
(* The user.                                                               *)

Press(key) ==
  /\ key \in Keys /\ work["ui"].pc = "idle"
  /\ keys < MaxKeys /\ keys' = keys + 1

Begin(key, place, cfg, changes) ==
  Continue("ui", [Idle EXCEPT !.pc = place, !.next = cfg, !.op = key], changes)

\* save_config_editor: current_config with the fields of the editor.
Save(s) ==
  /\ Press("save")
  /\ Begin("save", "write",
           [current EXCEPT !.lang = s.lang, !.device = s.device, !.provider = s.provider], FALSE)
  /\ UNCHANGED <<fileVars, channelVars, current, live, source, restart, edits, doubt>>

\* ReloadConfig; a file that cannot be loaded changes nothing.
Reload ==
  /\ Press("reload") /\ disk # Bad
  /\ Begin("reload", "classify", disk, FALSE)
  /\ UNCHANGED <<fileVars, channelVars, current, live, source, restart, edits, doubt>>

\* LangApply and AdjustInputGainDb: first what the program uses ...
SetLive(key, value) ==
  /\ Press(key)
  /\ live' = [live EXCEPT ![key] = value]
  /\ Begin(key, "set", [Boot EXCEPT ![key] = value], TRUE)
  /\ UNCHANGED <<fileVars, channelVars, current, source, restart, edits, doubt>>

\* ... then current_config.  A language stays in memory, a gain is saved with
\* all of current_config.
SetCurrent ==
  /\ work["ui"].pc = "set"
  /\ LET key == work["ui"].op
     IN  /\ current' = [current EXCEPT ![key] = work["ui"].next[key]]
         /\ Continue("ui", IF key = "gain" THEN [work["ui"] EXCEPT !.pc = "write", !.next = current']
                                           ELSE Idle, TRUE)
  /\ doubt' = doubt \union {"memory"} \union Crossing("ui")
  /\ UNCHANGED <<fileVars, channelVars, live, source, restart, edits, keys>>

\* apply_model_manager_selection: under the lock, and ...
PickModel(provider) ==
  /\ Press("model")
  /\ current' = [current EXCEPT !.provider = provider]
  /\ Begin("model", "restore", current', TRUE)
  /\ doubt' = doubt \union {"picked"}
  /\ UNCHANGED <<fileVars, channelVars, live, source, restart, edits>>

\* ... under the lock again, from the copy.
Restore ==
  /\ work["ui"].pc = "restore"
  /\ current' = work["ui"].next
  /\ Continue("ui", [work["ui"] EXCEPT !.pc = "write"], TRUE)
  /\ doubt' = doubt \union {"picked"} \union Crossing("ui")
  /\ UNCHANGED <<fileVars, channelVars, live, source, restart, edits, keys>>

\* write_config replaces the file, or fails and leaves it.  Settings that were
\* written are applied.
WriteFile ==
  /\ work["ui"].pc = "write"
  /\ \/ /\ disk' = work["ui"].next /\ event' = TRUE
        /\ Continue("ui", IF work["ui"].op = "save" THEN [work["ui"] EXCEPT !.pc = "classify"]
                                                    ELSE Idle, FALSE)
     \/ Continue("ui", Idle, FALSE) /\ UNCHANGED fileVars
  /\ UNCHANGED <<channelVars, current, live, source, restart, edits, keys, doubt>>

Task == Start \/ Apply("task")
Ui == Apply("ui") \/ SetCurrent \/ Restore \/ WriteFile

User ==
  \/ \E s \in Settings : Save(s)
  \/ Reload
  \/ \E l \in Langs : SetLive("lang", l)
  \/ \E g \in Gains : SetLive("gain", g)
  \/ \E p \in Providers : PickModel(p)

Next == Watch \/ Task \/ Ui \/ User \/ \E contents \in Edits : Edit(contents)

Spec == Init /\ [][Next]_vars

-----------------------------------------------------------------------------
(* Properties.                                                             *)

Work == [pc : {"idle", "classify", "swap", "install", "derive", "write", "set", "restore"},
         next : Config, prev : Devices, needs : BOOLEAN, failed : BOOLEAN,
         op : {"none", "save", "reload", "lang", "gain", "model"}, stale : BOOLEAN]

TypeOK ==
  /\ disk \in Config \union {Bad} /\ event \in BOOLEAN
  /\ sent \in Config /\ fresh \in BOOLEAN
  /\ current \in Config /\ live \in [lang : Langs, gain : Gains] /\ source \in Devices
  /\ restart \in BOOLEAN /\ work \in [Threads -> Work]
  /\ edits \in 0 .. MaxEdits /\ keys \in 0 .. MaxKeys
  /\ doubt \subseteq {"crossed", "memory", "picked", "swap"}

\* Everything that was begun has ended.
Quiet == ~event /\ ~fresh /\ \A t \in Threads : work[t].pc = "idle"

\* However edits of the file, saved settings and applications overlap, memory
\* ends up with the file, or with the last valid one, but for three reasons: a
\* device that could not be opened, a change made in memory (a picked model is
\* one) that the watcher has not published since (it was not written, or was
\* overwritten before the watcher looked), and work of two threads that crossed.
FileIsApplied ==
  Quiet /\ doubt = {} => current = sent /\ disk \in {sent, Bad}

\* Unless the work of two threads crossed, the language and gain in use and the
\* device that is open are those of current_config, also after failed swaps; a
\* device is behind only when a restart is asked for.
ViewsAgree ==
  Quiet /\ "crossed" \notin doubt =>
    /\ live = LiveOf(current)
    /\ ~restart => source = current.device

\* A provider other than the one the program started with is never in memory
\* without restart_required, whoever put it there and with whatever it was
\* compared (the watcher compares with the last file, the others with memory);
\* only a model that was picked waits for the watcher to see it in the file, and
\* work of two threads that crossed may compare with what is no longer there.
RestartIsFlagged ==
  \/ restart
  \/ current.provider = Boot.provider
  \/ \E t \in Threads : work[t].pc = "derive" /\ work[t].needs
  \/ doubt \intersect {"picked", "crossed"} # {}
=============================================================================
