------------------------------ MODULE Playback ------------------------------
(***************************************************************************)
(* Speaking the translations (src/src/pipeline/playback.rs).               *)
(*                                                                         *)
(* The pipeline has a translation synthesised and hands the sound to the   *)
(* playback service, whose thread plays one text after the other.  Speech  *)
(* is switched on and off by two threads: the user interface (the T key,   *)
(* settings saved or reloaded) and the task that applies what the watcher  *)
(* of the configuration has read.  Both sync the service under its lock    *)
(* and set the flag the pipeline looks at afterwards (src/src/main.rs).    *)
(*                                                                         *)
(* There are three loops: "rodio" plays on the speakers and looks around   *)
(* while it plays, "vmic" plays on a virtual microphone that can be lost,  *)
(* "plain" is the one of the builds without sound.                         *)
(***************************************************************************)
EXTENDS Integers, Sequences, FiniteSets

CONSTANTS Routes,      \* subset of {"rodio", "vmic", "plain"}
          MaxTexts,    \* BOUND: texts, numbered as they are synthesised
          MaxSwitches, \* BOUND: operations on the switch
          MaxEvents    \* BOUND: events of the virtual microphone

ASSUME PlaybackAssumption ==
  /\ Routes \subseteq {"rodio", "vmic", "plain"}
  /\ MaxTexts \in Nat /\ MaxSwitches \in Nat /\ MaxEvents \in Nat

Threads == {"ui", "task"}
Stop == 0            \* PlaybackCmd::Shutdown; PlaybackCmd::Play is the number of its text

VARIABLES
  flag,      \* state.tts_enabled, what the pipeline and the user see
  exists,    \* the slot holds a PlaybackService
  enabled,   \* its flag
  lock,      \* the thread that creates the service under the lock, or "free"
  work,      \* per thread: its operation on the switch
  speech,    \* the pipeline: "idle", or a text is being synthesised
  next,      \* the number of the next text
  rx,        \* the channel of the thread
  pending,   \* what a rodio loop received while it played
  place,     \* where the thread is
  route,     \* the loop of the thread
  active,    \* where a vmic loop plays: "vmic", "speaker" or "lost"
  warned,    \* warned_fallback
  health, fresh,  \* the watch channel of the device; the thread has not seen its value
  leaving,   \* the service is being dropped
  switches, events,
  heard,     \* history: the texts that began to be played, in that order
  thrown,    \* history: the texts that were not played
  doubt      \* history: the last store to the flag may belong to an older sync

threadVars == <<rx, pending, place, active, warned, fresh>>
switchVars == <<flag, exists, enabled, lock, work, switches, doubt>>
otherVars == <<speech, next>>
vars == <<threadVars, switchVars, otherVars, route, health, leaving, events, heard, thrown>>

Idle == [pc |-> "idle", want |-> FALSE, ok |-> TRUE, stale |-> FALSE]

\* Where the thread begins to play.  A virtual microphone that cannot be opened is no
\* failure: the speaker takes over, if there is one.
Sinks == IF route = "vmic" THEN {"vmic", "speaker", "lost"} ELSE {"speaker"}

Init ==
  /\ route \in Routes
  /\ flag \in BOOLEAN /\ exists \in BOOLEAN /\ enabled = exists
  /\ exists => flag
  /\ doubt = (flag /\ ~exists)   \* the result of the first sync is not looked at
  /\ place = IF exists THEN "head" ELSE "absent"
  /\ active \in IF exists THEN Sinks ELSE {"speaker"}
  /\ lock = "free" /\ work = [t \in Threads |-> Idle]
  /\ speech = "idle" /\ next = 1
  /\ rx = <<>> /\ pending = <<>>
  /\ warned = FALSE /\ health = "ok" /\ fresh = FALSE
  /\ leaving = FALSE /\ switches = 0 /\ events = 0
  /\ heard = <<>> /\ thrown = {}

-----------------------------------------------------------------------------
(* The switch: sync_playback_service_state, then the flag.                 *)

\* T wants the opposite of what it reads, a configuration what it says; the user
\* interface does both.
Switch(t) ==
  /\ ~leaving /\ work[t].pc = "idle" /\ switches < MaxSwitches
  /\ \E want \in BOOLEAN :
       work' = [work EXCEPT ![t] = [Idle EXCEPT !.pc = "sync", !.want = want]]
  /\ switches' = switches + 1
  /\ UNCHANGED <<threadVars, flag, exists, enabled, lock, doubt, otherVars, route, health,
                 leaving, events, heard, thrown>>

\* Thread t is through with the service; what others had synced is overtaken.
Synced(t, ok) ==
  work' = [u \in Threads |->
             IF u = t THEN [work[t] EXCEPT !.pc = "store", !.ok = ok]
             ELSE [work[u] EXCEPT !.stale = @ \/ work[u].pc = "store"]]

\* There is a service, or none is needed.
Sync(t) ==
  /\ work[t].pc = "sync" /\ lock = "free"
  /\ exists \/ ~work[t].want
  /\ enabled' = IF exists THEN work[t].want ELSE enabled
  /\ Synced(t, TRUE)
  /\ UNCHANGED <<threadVars, flag, exists, lock, switches, doubt, otherVars, route, health,
                 leaving, events, heard, thrown>>

\* new_for_config: opens the device, with the lock held.
Create(t) ==
  /\ work[t].pc = "sync" /\ lock = "free" /\ ~exists /\ work[t].want
  /\ lock' = t
  /\ UNCHANGED <<threadVars, flag, exists, enabled, work, switches, doubt, otherVars, route,
                 health, leaving, events, heard, thrown>>

Created(t) ==
  /\ lock = t
  /\ lock' = "free" /\ exists' = TRUE /\ enabled' = TRUE
  /\ place' = "head" /\ active' \in Sinks
  /\ Synced(t, TRUE)
  /\ UNCHANGED <<rx, pending, warned, fresh, flag, switches, doubt, otherVars, route, health,
                 leaving, events, heard, thrown>>

NotCreated(t) ==
  /\ lock = t /\ route = "rodio"
  /\ lock' = "free"
  /\ Synced(t, FALSE)
  /\ UNCHANGED <<threadVars, flag, exists, enabled, switches, doubt, otherVars, route, health,
                 leaving, events, heard, thrown>>

\* MUTANT of Store: the flag is what was wanted, whether the service came up or not.
StoreWanted(t) ==
  /\ work[t].pc = "store"
  /\ flag' = work[t].want
  /\ doubt' = work[t].stale
  /\ work' = [work EXCEPT ![t] = Idle]
  /\ UNCHANGED <<threadVars, exists, enabled, lock, switches, otherVars, route, health,
                 leaving, events, heard, thrown>>

Store(t) ==
  /\ work[t].pc = "store"
  /\ flag' = (work[t].want /\ work[t].ok)
  /\ doubt' = work[t].stale
  /\ work' = [work EXCEPT ![t] = Idle]
  /\ UNCHANGED <<threadVars, exists, enabled, lock, switches, otherVars, route, health,
                 leaving, events, heard, thrown>>

-----------------------------------------------------------------------------
(* The pipeline.                                                           *)

Synthesise ==
  /\ ~leaving /\ speech = "idle" /\ flag /\ next <= MaxTexts
  /\ speech' = "synthesising"
  /\ UNCHANGED <<threadVars, switchVars, next, route, health, leaving, events, heard, thrown>>

\* PlaybackService::play, under the lock; the flag was read before the request.
Play ==
  /\ ~leaving /\ speech = "synthesising" /\ lock = "free"
  /\ speech' = "idle" /\ next' = next + 1
  /\ IF exists /\ enabled THEN rx' = Append(rx, next) /\ thrown' = thrown
                          ELSE rx' = rx /\ thrown' = thrown \union {next}
  /\ UNCHANGED <<pending, place, active, warned, fresh, switchVars, route, health, leaving,
                 events, heard>>

-----------------------------------------------------------------------------
(* The thread.                                                             *)

Command == IF pending # <<>> THEN Head(pending) ELSE Head(rx)
Received ==
  /\ pending # <<>> \/ rx # <<>>
  /\ IF pending # <<>> THEN pending' = Tail(pending) /\ rx' = rx
                       ELSE pending' = pending /\ rx' = Tail(rx)

\* MUTANT of CheckHealth: any news is the last that is acted upon.
CheckHealthOnce ==
  /\ place = "head" /\ place' = "wait"
  /\ IF route = "vmic" /\ fresh
     THEN /\ fresh' = FALSE /\ warned' = TRUE
          /\ active' \in IF health = "failed" /\ ~warned THEN {"speaker", "lost"} ELSE {active}
     ELSE UNCHANGED <<fresh, warned, active>>
  /\ UNCHANGED <<rx, pending, switchVars, otherVars, route, health, leaving, events, heard, thrown>>

\* The head of a turn.  A vmic loop looks for news of its device: of several only the
\* last is there; it leaves the device once and never goes back to it.
CheckHealth ==
  /\ place = "head" /\ place' = "wait"
  /\ IF route = "vmic" /\ fresh
     THEN /\ fresh' = FALSE
          /\ warned' = (warned \/ health = "failed")
          /\ active' \in IF health = "failed" /\ ~warned THEN {"speaker", "lost"} ELSE {active}
     ELSE UNCHANGED <<fresh, warned, active>>
  /\ UNCHANGED <<rx, pending, switchVars, otherVars, route, health, leaving, events, heard, thrown>>

\* A vmic loop waits for a command for 20 ms at most.
Timeout ==
  /\ place = "wait" /\ route = "vmic" /\ rx = <<>>
  /\ place' = "head"
  /\ UNCHANGED <<rx, pending, active, warned, fresh, switchVars, otherVars, route, health,
                 leaving, events, heard, thrown>>

\* MUTANT of Discard: what was queued is kept until speech is switched on again.
DiscardLater ==
  /\ place = "wait" /\ Received /\ Command # Stop
  /\ active = "lost"
  /\ thrown' = thrown \union {Command}
  /\ place' = "head"
  /\ UNCHANGED <<active, warned, fresh, switchVars, otherVars, route, health, leaving, events, heard>>

\* A text received while speech is off, or with nothing left to play it on.
Discard ==
  /\ place = "wait" /\ Received /\ Command # Stop
  /\ ~enabled \/ active = "lost"
  /\ thrown' = thrown \union {Command}
  /\ place' = "head"
  /\ UNCHANGED <<active, warned, fresh, switchVars, otherVars, route, health, leaving, events, heard>>

Begin ==
  /\ place = "wait" /\ Received /\ Command # Stop
  /\ enabled /\ active # "lost"
  /\ heard' = Append(heard, Command)
  /\ place' = "playing"
  /\ UNCHANGED <<active, warned, fresh, switchVars, otherVars, route, health, leaving, events, thrown>>

\* The text is at its end, or could not be decoded.
Complete ==
  /\ place = "playing"
  /\ place' = "head"
  /\ UNCHANGED <<rx, pending, active, warned, fresh, switchVars, otherVars, route, health,
                 leaving, events, heard, thrown>>

\* A rodio loop polls while it plays: speech is off.
Interrupt ==
  /\ place = "playing" /\ route = "rodio" /\ ~enabled
  /\ place' = "head"
  /\ UNCHANGED <<rx, pending, active, warned, fresh, switchVars, otherVars, route, health,
                 leaving, events, heard, thrown>>

\* MUTANT of PollText: the text just received is spoken next.
PollTextFirst ==
  /\ place = "playing" /\ route = "rodio" /\ rx # <<>> /\ Head(rx) # Stop
  /\ pending' = <<Head(rx)>> \o pending /\ rx' = Tail(rx)
  /\ UNCHANGED <<place, active, warned, fresh, switchVars, otherVars, route, health, leaving,
                 events, heard, thrown>>

\* A rodio loop polls while it plays: what comes in waits behind.  (The switch was read
\* before the channel, so it may be off by now.)
PollText ==
  /\ place = "playing" /\ route = "rodio" /\ rx # <<>> /\ Head(rx) # Stop
  /\ pending' = Append(pending, Head(rx)) /\ rx' = Tail(rx)
  /\ UNCHANGED <<place, active, warned, fresh, switchVars, otherVars, route, health, leaving,
                 events, heard, thrown>>

\* MUTANT of PollStop: the shutdown only interrupts.
PollStopInterrupts ==
  /\ place = "playing" /\ route = "rodio" /\ rx # <<>> /\ Head(rx) = Stop
  /\ rx' = Tail(rx) /\ place' = "head"
  /\ UNCHANGED <<pending, active, warned, fresh, switchVars, otherVars, route, health, leaving,
                 events, heard, thrown>>

\* A rodio loop polls while it plays: the shutdown ends it, whatever is pending.
PollStop ==
  /\ place = "playing" /\ route = "rodio" /\ rx # <<>> /\ Head(rx) = Stop
  /\ rx' = Tail(rx) /\ place' = "ended"
  /\ UNCHANGED <<pending, active, warned, fresh, switchVars, otherVars, route, health, leaving,
                 events, heard, thrown>>

End ==
  /\ place = "wait" /\ Received /\ Command = Stop
  /\ place' = "ended"
  /\ UNCHANGED <<active, warned, fresh, switchVars, otherVars, route, health, leaving, events,
                 heard, thrown>>

-----------------------------------------------------------------------------
(* The device, and the end of the program.                                 *)

\* classify_device_event: the device is lost, or it is back.
DeviceEvent ==
  /\ exists /\ route = "vmic" /\ events < MaxEvents
  /\ health' \in {"ok", "failed"} /\ fresh' = TRUE
  /\ events' = events + 1
  /\ UNCHANGED <<rx, pending, place, active, warned, switchVars, otherVars, route, leaving,
                 heard, thrown>>

\* The service is dropped: PlaybackService::shutdown sends Shutdown and joins the thread.
\* The pipeline has ended by then or was cut off.
Leave ==
  /\ ~leaving /\ lock = "free" /\ work["ui"].pc = "idle"
  /\ leaving' = TRUE
  /\ rx' = IF exists THEN Append(rx, Stop) ELSE rx
  /\ UNCHANGED <<pending, place, active, warned, fresh, switchVars, otherVars, route, health,
                 events, heard, thrown>>

-----------------------------------------------------------------------------
ThreadStep ==
  \/ CheckHealth \/ Timeout \/ Discard \/ Begin \/ Complete
  \/ Interrupt \/ PollText \/ PollStop \/ End

SwitchStep(t) == ~leaving /\ (Sync(t) \/ Create(t) \/ Created(t) \/ NotCreated(t) \/ Store(t))

Next ==
  \/ ThreadStep \/ Synthesise \/ Play \/ DeviceEvent \/ Leave
  \/ \E t \in Threads : Switch(t) \/ SwitchStep(t)

Spec == Init /\ [][Next]_vars

\* The thread goes on: sounds come to their end, and polls and waits are timed.  Devices
\* open or fail to.  Nothing is assumed of the user, the pipeline or the devices.
FairSpec ==
  /\ Spec
  /\ WF_vars(ThreadStep)
  /\ \A t \in Threads : WF_vars(SwitchStep(t))

-----------------------------------------------------------------------------
(* Properties.                                                             *)

TypeOK ==
  /\ {flag, exists, enabled, warned, fresh, leaving, doubt} \subseteq BOOLEAN
  /\ lock \in Threads \union {"free"}
  /\ work \in [Threads -> [pc : {"idle", "sync", "store"}, want : BOOLEAN, ok : BOOLEAN,
                           stale : BOOLEAN]]
  /\ speech \in {"idle", "synthesising"} /\ next \in Nat
  /\ rx \in Seq(Nat) /\ pending \in Seq(Nat) /\ heard \in Seq(Nat)
  /\ place \in {"absent", "head", "wait", "playing", "ended"}
  /\ route \in Routes /\ active \in {"vmic", "speaker", "lost"}
  /\ health \in {"ok", "failed"} /\ switches \in Nat /\ events \in Nat
  /\ thrown \subseteq Nat

\* The texts in the channel; the shutdown is the last thing ever sent.
Texts == IF rx # <<>> /\ rx[Len(rx)] = Stop THEN SubSeq(rx, 1, Len(rx) - 1) ELSE rx
Queued == pending \o Texts
SetOf(s) == {s[i] : i \in 1 .. Len(s)}

\* Texts are played in the order in which they were synthesised and none twice,
\* although two queues hold them and a text can be interrupted between them; and
\* each is played, queued, or was thrown away while speech was off.
SpokenInOrder ==
  LET all == heard \o Queued
  IN  /\ \A i, j \in 1 .. Len(all) : i < j => all[i] < all[j]
      /\ SetOf(all) \union thrown = 1 .. next - 1
      /\ SetOf(all) \intersect thrown = {}

\* What the user sees is what is the case: speech is shown as on if, and only if, there
\* is a service and it is on ("only update the UI flag to reflect what succeeded",
\* main.rs:4225).  It may be wrong for as long as an operation is at work, after two
\* threads crossed, and after a start without the device.
FlagTellsTheTruth ==
  doubt \/ (\E t \in Threads : work[t].pc # "idle") \/ (flag <=> exists /\ enabled)

\* When speech is switched off and stays off, it falls silent and forgets what is
\* queued: nothing old is spoken when it is switched on again later.
OffFallsSilent ==
  exists /\ ~enabled ~> enabled \/ place = "ended" \/ (place # "playing" /\ Queued = <<>>)

\* A virtual microphone that is lost and stays lost is not played on for ever: the
\* loop goes to the speaker (or to nothing), although events of the device are merged.
LossIsNoticed ==
  health = "failed" ~> active # "vmic" \/ health = "ok" \/ place = "ended"

\* Dropping the service joins its thread: it ends, whatever it plays and holds.
JoinEnds == leaving /\ exists ~> place = "ended"
=============================================================================
