# TLA+ models of tui-translator

tui-translator captures the sound a computer plays or a microphone hears,
transcribes it (STT), translates the text (MT), shows both in a terminal, can
speak the translation (TTS) and records a transcript and the sound. It is a
program of about twenty threads and tasks that share queues, atomics and one
configuration. This directory models the part of it that has state, checks the
models with TLC and proves the most important results with TLAPS.

    tlc -workers 2 -config Orchestrator_faults.cfg MCOrchestrator
    tlapm Orchestrator_proofs.tla

Paths below are those of the repository (`src/src/` holds the Rust sources).

## 1. The system

```
capture threads -> CaptureRouter -> (dual mode: Fanout) -> Orchestrator A -> subtitles, TTS, recorder
   (one per device)     |                              \-> Orchestrator B -> subtitles, recorder
                        +-> audio archive
config.json <-> watcher thread -> watch channel -> config task -+-> current_config, live values,
                                 keys of the user -> UI thread -+   CaptureRouterHandle::hot_swap
```

| Part (source) | State | Operations | Talks to | What is hard | Correct when |
|---|---|---|---|---|---|
| Orchestrator (`pipeline/mod.rs`) | window of chunks, stabilizer, aggregator, batch, halt and pause flags, circuits, STT and TTS status | receive, flush a window, STT, stabilise, aggregate, translate, speak, record, flush what is old, drain, stop | channel of chunks, providers, subtitles, recorder, user | provider failures anywhere in a batch, the pause and the shutdown at every await, a timer that competes with the channel | no word is lost or shown twice, in order, the transcript is what was shown, a halt is final, a shutdown ends |
| Stabilizer (`pipeline/segmentation.rs`) | text too short to show, recent keys | filter, flush | Orchestrator | text held back, repeats | as above |
| Aggregator (`pipeline/sentence_aggregator.rs`) | tail of an unfinished sentence | push, poll age, flush | Orchestrator, judge | text held over windows | as above |
| Circuit breaker (`pipeline/mod.rs`) | failures in a row, time it opened | succeed, fail, ask | Orchestrator | time | part of Orchestrator |
| Capture router (`audio/router.rs`) | current device, requests, archive | forward, swap, drain, stop | capture threads, archive, pipeline, callers | two devices at once, a device that fails to open, queues that are full | chunks in order and once, every loss in a named place, every swap answered |
| Fanout (`audio/fanout.rs`) | senders left, drop counters | copy, end | router, slots | one slot slow or gone | each slot as if alone |
| Session recorder (`session/recorder*.rs`) | open file, byte counters, last error, queue | record, rotate, seal and reopen, shutdown | Orchestrator, disk | every disk operation can fail, a crash between two | what was accepted is on disk or an error is reported |
| Configuration (`config/mod.rs`, `main.rs`) | file, published value, memory, live values, restart flag | edit, watch, classify, swap device, install, derive, save, reload, keys | router, providers, screen | two threads with critical sections that do not cover the whole | file, memory and live values agree at rest |
| Provider wiring (`main.rs`, `runtime_providers.rs`, `pipeline/fallback.rs`, `providers/mt/`) | per slot: chain, MT, TTS, flags, halt, label | build, fall back, halt, publish | providers, screen | eleven options, a start that may fail between two slots, copies of flags | nothing to a cloud without consent, no call after a refusal, a halt is seen |
| Audio archive (`audio/archive.rs`) | numbered WAV files of a session, the sizes in their headers, quota | start, append, rotate, disable | router, disk, retention | samples and header are separate steps, a kill or a failure between any two | every file can be read, the session has no hole |
| VAD (`audio/vad.rs`, the receive loop of `pipeline/mod.rs`) | five states and a time, chunks to be confirmed, the window | process, reset, hold, trim, flush | Orchestrator | confirmation holds chunks back, the pause is looked at twice | speech is sent from its onset, only speech is sent |
| Playback (`pipeline/playback*.rs`, `main.rs`) | service and its lock, enabled flag, flag shown, channel, held texts, sink in use | play, enable, sync and show, fall back, shutdown | Orchestrator, UI thread, config task, watchdog | interruption, loss of a device, two threads on one switch | in order and once, the flag tells the truth, off is silent |
| Model installation (`providers/local/model_download*.rs`, `local_model_startup.rs`, `local_model_cli.rs`) | target, partial file, directory, open files | check, resume, transfer, verify, rename, quarantine, remove | server, disk, another process | a kill at any step, a server that answers anything, two installers on one partial file | what is reported as installed is what the manifest names |
| Retention (`storage/mod.rs`) | session directories by age and size | cap, purge, prune | recorder, archive | a deletion that fails or stops half-way, two runs of the program | the oldest go, the own session stays |
| Wizard and consents (`tui/onboarding.rs`, `bootstrap/consent.rs`, `main.rs`) | step, answers, licences, records on disk, configuration to write | start, install at the start, forward and back, accept, review, save, command line, upgrade | configuration, models | seven ways through and back, the edit of the file meanwhile, a kill before the save | nothing runs without a licence that was accepted, what is saved is what was confirmed |
| Guards (`cpu_gate.rs`, `memory_guard.rs`), metrics, readiness | counters and thresholds | update, read | all | stale readings | warnings that follow the readings |
| Terminal, command line, updater, cloud streaming, benchmarks | screens and options | | | | |

`PROJECT.json` names the sources of each part, says how far it is modelled and
lists the hazards at their lines.

## 2. Modules and code

| Module | What it is | Code |
|---|---|---|
| `CircuitBreaker`, `Segmentation`, `SentenceAggregator` | operators on values | `ProviderCircuitBreaker`, `segmentation.rs`, `sentence_aggregator.rs` |
| `Orchestrator` | the pipeline task | `run_orchestrator` and what it calls |
| `CaptureRouter` | the router task, capture threads and callers | `audio/router.rs` |
| `Fanout` | the fanout task for any set of slots | `audio/fanout.rs` |
| `SlotFeed` | abstract: a feed with a drop counter for one slot; `CapturePath_proofs` shows that each slot of the path implements it | promise of `fanout.rs:33` |
| `CapturePath` | router and fanout composed through their channel | `main.rs` wiring |
| `LossyFeed` | abstract: what one pipeline hears of what was captured; each pipeline of the path implements it | promise of `router.rs:6` |
| `SessionRecorder` | handle, queue, writer, disk | `session/recorder.rs`, `recorder_writer.rs` |
| `ConfigSync` | file, watcher, task, UI thread | `config/mod.rs`, `main.rs` |
| `SlotRuntime` | start-up, chains, fallback, halt and what the screen shows | `main.rs`, `runtime_providers.rs`, `fallback.rs`, `providers/mt/` |
| `ModelInstall` | installers that share a directory, the server, the disk | `model_download.rs`, `model_download_transfer.rs`, `local_model_startup.rs`, `local_model_cli.rs` |
| `Playback` | the service, its thread in three loops, the switch in two threads | `pipeline/playback.rs`, `main.rs`, `audio/watchdog` |
| `AudioArchive` | the WAV files of all sessions and how old ones make room | `audio/archive.rs`, `storage/mod.rs`, `runtime_recording.rs` |
| `SpeechGate` | the voice gate inside the receive loop | `audio/vad.rs`, `pipeline/mod.rs` |
| `Onboarding` | modes of the start, wizard, licences, records, the file | `tui/onboarding.rs`, `main.rs`, `local_model_startup.rs`, `bootstrap/consent.rs` |
| `MC...` | instances for TLC | |
| `..._proofs` | theorems, of the component in the name; `Consent_proofs` has those of `SlotRuntime` and of `Onboarding`, `Recording_proofs` those of `SessionRecorder` and of `AudioArchive`, `Speech_proofs` those of `SpeechGate` and of `Playback` | |

**Orchestrator.** `pc` is the await at which the task stands, or a place between
two of them that another task can observe. A spoken text is a sequence of runs:
a word, whether a sentence end, a comma or nothing follows it, and the window
and place it was spoken at, so that loss, repetition and order can be told; the
runs of `Utterances` are what STT can return. `buffer` and `recent` are the
stabilizer, `held` the aggregator, `pieces`, `todo`, `done` and `voice` the
batch in `process_chunk`, `pane` and `log` what is shown and recorded. STT, MT
and TTS answer what `SttAnswers`, `MtAnswers` and `TtsAnswers` allow. The
decisions of the VAD, the CPU gate, the completeness judge and the age of held
text are free. Time is the circuit's open period and the cadence of chunks
against the 50 ms timer (`streaming`). The user pauses, switches TTS and quits
at any point; `Abort` is the end of the two seconds `finish_main` waits.

**CaptureRouter.** A stream is a device that was opened; chunks are numbered.
`Capture` is the blocking send of a capture thread, `HotSwap` the request of
the configuration task or the settings. Polling and the drain of a swap follow
`run_router` and `drain_old`; the drain's deadline can come at any time after
the first poll. The archive fails when it likes and is given up then. `unheard`
and `abandoned` are history: what was dropped by a full queue, and what was left
in a channel whose receiver was dropped.

**Fanout, CapturePath.** The fanout copies each chunk with `try_send`; a slot
that is gone loses its sender. `Fanout` has the steps of its task and of the
consumers only; where its chunks come from is said where it is composed.
`CapturePath` identifies the router's downstream
channel with the fanout's feed, so `listening` of the router is `running` of the
fanout. It is what the program runs in dual mode.

**SessionRecorder.** A file is a sequence of lines and a number of bytes. Every
disk operation succeeds or fails; a failed write leaves a torn line. `pc` is
where the writer stands between two operations on the disk, so every crash
image is a state, and the invariants on `disk` say what a reader finds after
it. `seal_and_reopen` has no caller in the program yet; it is modelled as the
public operation it is.

**ConfigSync.** A configuration has four fields, one for each way a field is
treated: `lang` (copied to the running program), `gain` (has a key, is not in
the settings editor), `device` (needs a swap of the router), `provider` (needs a
restart). `work[t]` is the critical section thread `t` is about to enter. `doubt`
is history: the reasons for which memory may differ from the file.

**SlotRuntime.** The configurations are any set of records that pass
`validate`; `build` is the set of Cargo features. `step` is the place of `main`
in the start-up sequence; `chain`, `mt` and `tts` are what was built; `asked` is
the request at work. The flags `isLocal`, `source`, `halted`, `err` and `label`
are the atomics and mutexes of that name or use.

**ModelInstall.** The content of a file is a sequence of blocks: block `j` of
what the manifest names is the number `j`, and 0 is a block of anything else, so
that a torn, a wrong and a mixed file can be told. Each process has its own
`pc`, its place in the bundle, the length of the partial file when it asked, and
its open file, which goes on being written where another process has moved it.
The server answers any status with any body; the disk fails at any step;
`Abort` is a kill or an error. `last`, `shared`, `honest` and `tries` are
history: how a run ended, whether another process was at work during it,
whether server and disk behaved, and how many such runs have failed on end.

**Playback.** `route` is the loop of the thread: `rodio` receives while it plays
and holds what it receives in `pending`, `vmic` plays on a virtual microphone
and looks at the watch channel of the device (`health`, `fresh`), `plain` is the
loop of builds without sound. A switch is `Sync` under the lock of the service,
with its creation, and then `Store` into the flag that the pipeline and the user
see; `doubt` is history: the last store may belong to an older sync than the
last one. `heard` and `thrown` are the texts that were begun and discarded.

**AudioArchive.** A session is a run of the program; two can be at work at a
time. A chunk is written in the steps of the code: the next file if this one
would pass its quota (`Create`, `WriteHeader`), the samples, the two sizes in
the header; `Fail` and a kill can come between any two, and a failed write
leaves a torn file. `List`, `EvictOk`, `EvictFails`, `SkipOwn` are
`enforce_total_session_cap` over what the run saw when it looked, which may be
older than what is there; `Expire` and the `Purge` actions are the age limit. Both
call `remove_dir_all`: it removes the files one by one in any order (`RemoveOne`),
then the directory, and it may fail or be killed after any of them, also on the
session of a run that is at work, whose file then has no name any more (`named`).
`cut` is history: the sessions that have lost a file so.

**SpeechGate.** The five states of `VadGate` with their time, in the receive
loop that holds what is not confirmed (`confirming`), trims it to the pre-roll
and grows the window (`pending_speech`). The properties say what speech is by what
was received alone, without the states of the gate. `Orchestrator` leaves the decisions
of the gate free; this module shows what they are.

**Onboarding.** `place` is where a run of the program is, `wiz` the state of the
wizard, `todo` the models still to be checked or recorded, `patch` what the
wizard has decided to save. A licence belongs to a model and its version.
`granted` (accepted by the user), `unasked` (recorded by the program itself) and
`chosen` (what was last confirmed on each screen) are history. `local` are the
models the providers at the top level name, which is what the start looks at, and
`slots` those of the two slots, which run instead in dual mode (`Uses`). What was
looked at is `boot`; what is built is of `memory` as it is when the capture has
been opened (`Build`), which the watcher may have changed. The user can edit,
break or remove the file, use the command line, remove models and install a
newer program; a run can be killed at any place.

## 3. Runs

All runs are exhaustive and take at most about 2.5 min with two workers. No
run uses a state constraint or symmetry; bounds are CONSTANTS marked `BOUND` in
the module that uses them. All but `Orchestrator_longtext` are expected to pass.

| Run | States | Bounds | What it shows |
|---|---|---|---|
| `Orchestrator_faults` | 333,312 | 2 windows of two words, texts of one word, all provider answers, judge, VAD, pause and TTS keys, recorder errors, chunks slower and faster than the timer | Whatever fails: no word vanishes or is doubled, subtitles keep the spoken order, the transcript follows them, a halt ends all requests to STT and MT, held text is flushed unless paused or streaming, a shutdown ends the task and leaves nothing behind |
| `Orchestrator_longtext` | violation | 4 windows, texts of one word, nothing fails | The key of a text is recorded while words of its later pieces are held (section 7, 3) |
| `CaptureRouter_swaps` | 164,240 | 2 devices of 2 chunks, 2 callers, queues of 2 | Order, no holes in the archive, failed swaps change nothing, every caller answered |
| `CapturePath_dual` | 1,538,518 | as above, 1 caller, 2 slots, queues of 1 | Accounting across router and fanout; each pipeline refines `LossyFeed` (`PipelinesHearInOrder`) |
| `SessionRecorder_files` | 521,825 | 4 segments of 2 lengths, 3 sessions, queue of 2 | No loss without a report, segments in their session, files readable and within the cap after any crash, calls return |
| `ConfigSync_threads` | 951,715 | 2 edits, 2 operations of the user | At rest file, memory and live values agree, but for the named reasons; restart is flagged |
| `SlotRuntime_consent` | 168,856 | every valid configuration of one slot, the telling ones of two, 2 builds | Consent, no call after a refusal, true flags, a halt is shown for good |
| `ModelInstall_races` | 1,001,960 | the start and one command, 2 files of 2 and 1 blocks | What is reported as installed alone is the bundle; failures remove their cause |
| `Playback_switches` | 282,793 | 3 texts, 2 operations on the switch, 2 events of the device | Texts in order and accounted for; the flag tells the truth; off falls silent; a lost microphone is left; the thread can be joined |
| `AudioArchive_kills` | 1,868,748 | 3 runs, 2 at a time, chunks of 1, 1 and 3, files of 3, cap of 7 | Every file is readable after any kill; no hole, but where a removal took a file; the oldest make room |
| `SpeechGate_windows` | 1,481,118 | 5 chunks of 2 durations, 2 presses of pause, 3 configurations | Speech is kept from its onset, only speech is sent, a window is one utterance |
| `Onboarding_setup` | 2,139,028 | 2 starts, 1 edit (one slot or two), 1 newer model, 2 presets, both builds | No model that the start looked at runs without a licence that is on record and was accepted; the first configuration is what was confirmed |

Why the bounds are enough. Two windows are the least in which a text is held in
one and completed, refused or repeated in the next, and what depends on the
length of texts or of the conversation is proved for every length (section 5).
`FailureThreshold = 2` opens a circuit within a run. Two devices are the old and the new one of a swap, and the code
never has more than two; queues of one and two are empty, partly full and full.
Three sessions and four segments allow a seal after a rotation, a torn line and
a further seal. Two edits and two operations give every pair of overlapping
applications; the code has exactly two threads that apply. A file of two blocks
can be torn, and a bundle of two can be half installed; the model has no bound on
the number of runs, answers or kills. Three texts are one that plays, one that
was received meanwhile and one in the channel. Three sessions are the own one,
one still at work and one to evict; a chunk larger than a file is the one that
the quota cannot hold. Five chunks cover onset, confirmation, padding, its end
and speech again; the durations are chosen so that the confirmation takes one
chunk or several. Two starts are the first one and the one after it, with the
configuration, the records and the models the first has left; the model of the
newer program is the only way a record gets old. `SlotRuntime` has no bound: its
state space is finite for each configuration.

The disagreements with the documents that the models showed are in section 7.

CHECK_DEADLOCK is off in all runs: tasks end with their channels, capture
threads and processes end, and the numbers of edits, segments, swaps and starts
are bounded, so each system may stop.

## 4. Fairness

Nothing is assumed of users, devices, files, servers, shutdowns or failures:
those actions may never happen. What is assumed, by the runs that check liveness:

- `Orchestrator`: the task goes on when it can, and provider calls return (all
  have client timeouts) - weak fairness. While the task waits in its select,
  something comes: a chunk, the end, or the timer. Strong fairness of `Sleep`
  says that the timer fires if it can again and again; `Sleep` is disabled while
  chunks stream faster than it (`streaming`), which is one exception named in
  `HeldTextIsFlushed`; the other is a pause, of which the property says nothing
  (section 7, 1 and 2). Strong fairness of `AgedFlush`: time passes, so held
  text gets old.
- `CaptureRouter`: the task goes on; the deadline of a drain comes (it is a
  `tokio::time` deadline, hence `WF(DrainEnds)` although chunks keep coming).
- `SessionRecorder`: disk operations end one way or the other; awaits of the
  caller that can go on do.
- `SlotRuntime`: the start-up goes on and the intervals of the background tasks
  tick. The providers need not answer.
- `Playback`: the thread goes on, because sounds end and its waits and polls are
  timed; a switch that was begun goes on in its thread, because opening a device
  returns.

All other runs check safety, without fairness.

## 5. Theorems

Each holds for every value of the constants that satisfies the ASSUMEs of the
module, the bounds included, so for any number of texts, chunks, devices, edits
or processes. `CaptureRouter` is also used by INSTANCE, where its assumption is
the operator `RouterConstants`.
Type correctness comes first; the other invariants are conjunctions of it with
named parts.

`Orchestrator_proofs`: `TypeCorrect`, `WordsAccounted`, `SpokenOrder`,
`HaltIsFinal`, `TranscriptFollows`, `RestClean`, `ShutdownDrained`. The control
state comes first; its inductive invariant is a conjunction of parts, each
preserved with the help of `PlaceOK` only:

- `HaltInv`: a halted pipeline is at none of the places from which a request to
  STT or MT starts. The property itself is about steps and not inductive; the
  invariant says where `halted` can be true.
- `TranscriptFollowsPane` is inductive: each action that shows either records at
  once or moves to `speak`, where the difference is `done`.
- `BatchInv`: which of `pieces`, `todo`, `done` and `voice` can be non-empty at
  which place. `SttStateInv`: at which places the status is that of a request.
  Together they imply `RestIsClean`.
- `DrainInv`: past the drain, the stabilizer and the aggregator are empty
  unless the pipeline halted; with `BatchInv` it implies `ShutdownDrains`.

Then the words. The operators that cut and join texts are recursive functions,
which exist and are unique (`Recursion`, from `WellFoundedInduction`), and facts
about every text are proved by induction on its length as facts about a set of
numbers (`Least`, `Induct`), because the induction theorems of the library take a
predicate. So the lemmas say what the operators do for every text: the pieces of
`SplitAll`, put together, are the text, and none is empty; `Sentences` and
`HeldAfter` share the joined text between them without a rest; keys leave the dedup
window in the order they came. From them, `WordsAccounted` and `SpokenOrder`:

- `Chain` is what is shown or on its way, in the order of the speech: the pane, the
  translated part of the batch, the segments to translate, the held text, the
  pieces still to aggregate, the buffer. `Accounted(Chain, spoken, failed, suppressed)`
  says that it is sorted by window and place, without a run twice, and that its
  runs, the failed and the dropped are exactly those spoken. It is stated of any
  chain, so that one lemma for each way text moves (a piece joins the held text, a
  segment is translated, a batch is given up, the oldest segment fails) covers
  all actions that move it so.
- It is inductive only together with the types of the texts, with `BatchInv`,
  with `TodoInv` (where something is translated or spoken there is something) and
  with `HeardInv` (what was heard is older than the next window). The conjunction is `AccountsInv`; `TypeCorrect` of the texts falls out of it.

`Consent_proofs`, on `SlotRuntime`: `Invariance` and from it `TypeCorrect`, `Consented`,
`NotAskedAgain`, `FlagsTell`. `IInv` is `TypeOK`, `Wired` (what was built agrees
with the configuration: consent is given when a chain is built, long before the
request), `Started` (a slot that is not up has asked nobody, so that building it
cannot break a flag) and for each slot `Switched` (flags and provider before and
after the fallback), `Refusals` (who has refused is behind the switch, or the
slot has halted and asks no more) and `Consent`. A step of one slot leaves the
part of the other alone (`TaskFrame`), so each lemma is about one slot. On
`Onboarding`: `ModelsByConsent` and `SetupConfirmed`. `SetupInv` has what a step
of the wizard says of the steps before it (`WizardOK`: the licences before the one
shown were accepted, and past them all were; a licence gone back to is open again;
`Screens`: what was confirmed is what the wizard goes by), and what a record stands
for (`OnRecord`, and for those still to be written `ToRecord`; `Covered` for a run
that is past the checks; `Patched` for the configuration that waits until the records of
its licences are written). The steps that only turn a page leave all but the wizard
alone (`TurningFrame`).

`CaptureRouter_proofs`: `NewestIsCurrent` needs `Placed`, what the place of the
task says of the stream it forwards from and of the one it drains.
`HeardInOrder` and `ArchivedWhole` need `DInv`: with `gone[s]`, the chunks of `s`
that the task has taken, a queue holds exactly the numbers after it
(`Numbered`), nothing was taken of a stream newer than `Front`, and what was
passed on, archived or abandoned is what was taken (`Heard`, `Kept`, `Lost`,
`Whole`). The four ways the data can change (a capture, a chunk taken, a receiver
dropped, nothing) are a lemma each, and each action is one of them.

`CapturePath_proofs`: what is proved of the router alone holds in the path
(`RouterInPath`: the fanout is one of the listeners it allows for), so the
invariants of `CaptureRouter_proofs` are used there by INSTANCE. `ChunksAccounted`
adds two ledgers: that of the router (`Accounted`: each captured chunk waits, was
unheard, dropped at a swap, abandoned or passed on) and that of a slot (`Counted`:
each chunk passed on is in the channel, in the queue, heard, or counted as dropped).
`HeardInOrder` needs that what a consumer has, its queue and the channel are
behind one another (`Row`). `EachPipelineFed` and `EachSlotAlone` are the
refinements: seen by one pipeline the whole path is `LossyFeed`, and seen by one slot
`SlotFeed` (both the safety part), whatever the other slots do.

`Recording_proofs`, the recorder: `CInv` says where a message can be: `Hand` (a request to
seal is the last message, because its caller waits for the answer) and `Calls`
(what the caller waits for; a writer that ended without an error has written
all). With it `LossReported` needs `Kept` (while no error is recorded, every
accepted segment is on disk or on its way), `TornAtTheEnd` and `WithinCap` need
`Measured`, `Whole` and `Capped` (the counter is the size of the file, unless an
error is recorded), and `InOrder` needs that numbers on disk are smaller than
those on the way (`Numbers`, `Order`, `AtHome`, `Placed`, `Sorted`).

`Recording_proofs`, the archive: none of the properties is inductive, because each
says what is on disk and nothing of what the run is about to write. `AInv` says what
the last file looks like at each place of the writer (`LastFileIs`: finished, with
samples that the header does not know of, or with the first size only), as long as it
has its name, and that the files before it are finished; a session that is not there
has no files, and a run that is over keeps a file that can be read. `HoleInv` adds
(`OrderHolds`) that the chunks on disk rise, each file without a hole, up to what the run
was given less the one it has in hand (`Given`), and that they are complete unless a
removal has taken a file of the session; `RoomInv` adds that each directory is listed
once, and of an eviction what it has removed,
what it has passed over and what is left (`WorkIn`), from a list that may be older
than the disk. What a run can do to another one's session is one lemma
(`Elsewhere`): nothing, remove any file of it, or its directory once that is empty
(`Untouched`, `Thinned`). The sums of sizes and
the lists without some sessions are recursive functions, about which there are lemmas
(`SumAppend`, `SumDrop`, `WithoutIs`); joining the files of a session uses the same
lemmas about `FlattenSeq` as the transcript of the pipeline.

`ConfigSync_proofs`: `TInv` adds to the types that only two keys set a live value.
`Flagged` needs what the task was handed and whether the comparison it made is
still true (`Published`, `Compared`). `Agree` has two parts: `LInv`, that live
values differ from memory only while a thread is about to set them
(`LiveFollows`, `StillThere`, `KeyAhead`), and `DInv`, that the device in use is
that of memory, or some thread owes the change (`DeviceFollows`, `Opened`,
`WayBack`). `Applied` needs that a value of the file is at the watcher, on the
way to the task, or in memory (`Watched`, `Handed`, `Arrives`).

`ModelInstall_proofs`: `InstallsWhatIsNamed`. The property is about runs that are
over; `Alone` says what holds of one that has been alone so far (the files before
the one it is at are right, what it is about to rename was verified, its open
file is not an installed one), `Handles` that only a receiver has a file open,
and `Settled` that after a success every later run finds everything and writes
nothing. The content of what a server sends is never assumed. `FewRetries` is
`RetriesEnd` for manifests that give the sizes of the files they name
(`SizesRight`; with size 0 every run fails, section 7, 12). `tries` is bounded by
what the disk shows: at rest there is a place `p` before which all is right, and
the failures are at most two for each file before it and, for the file there, as
many as have taken something away (`Room`: the target, then the partial file).
`ServedRun` carries that through a run that is alone and served as it should be,
where the partial file is the beginning of the file (`Fresh`) or of the right
length (`Resumed`), so that the only failures left are the two quarantines.

`Speech_proofs`, the playback: `FlagTells` needs `Locked` (who holds the lock) and
`StoreIsTrue` (a store that is due and not overtaken is what the service is).
`Spoken` needs `OInv`: the text that plays, the held ones and the channel are one
chain (`Chain`), the shutdown is the last message (`StopIsLast`), a shutdown is
never taken for a text (`OnlyTexts`), and every text is in one of the places
(`Accounted`). One lemma for each way a text moves.

`Speech_proofs`, the gate: the properties speak of what was received and of what is in
a window, and the code keeps neither, only a state, a time and the chunks it holds.
`GInv` closes the gap. `GateIs` says what each of the five states means: `silence`
that the last chunk was not part of sound, `confirming` since which onset there is
sound, that its time is the gate's time and that the chunks held are the last of it,
as many as the pre-roll reaches (`Confirming`, `HeldFrom`), `speech` that the sound up
to now is in a window from its onset (`Talking`), the two states of the padding since
which loud chunk there is silence and when the padding ended (`PadOpen`, `PadClosed`).
`Placed` gives for every chunk of a window the reason for which it was taken and for
every lasting sound that it was kept, `SentInOrder`, `WindowsAre` and `GrowingWindow`
the order of the windows and that none crosses a noticed pause, and `EndIsSent` that
after the end of an utterance nothing waits. Times of intervals are differences of the
time since the start (`Total`), which is proved by induction up to the length of a
sequence; what `Trim` keeps is computed once (`TrimIs`). What was true of a prefix
of the chunks received stays true (`Later`); then there is a lemma for what each
decision of the gate means for its state, and one for each action. That the three times
of the gate are not 0 is what the configuration is validated for (`config/mod.rs:1777`).

Only model-checked: all liveness properties and with them ENABLED and fairness
(`HeldTextIsFlushed`, `ShutdownEnds`, `SwapIsAnswered`, `CallsReturn`, `HaltIsShown`,
those of `Playback`). TLAPS has no means for these. Every safety invariant and every
action property that a run checks is also a theorem.


## 6. Abstractions

- Sound, wording, languages of a text and the content of subtitles are left out;
  words are model values with a place, a chunk is loud or quiet.
- Mutexes are taken and released in one step, except the playback service's, under
  which a device is opened. Atomics are sequentially consistent although the code
  mixes `Relaxed` and `SeqCst`: a value that another thread sees late is the same
  to it as a step that comes later.
- `with_retry` is one request; its delays are the time an answer takes.
- The status line, cost, latency and loss displays are left out, except where
  they say what became of a chunk (`swapDrops`, the fanout's drops) or why a slot
  stopped (`label`).
- The two orchestrators of dual mode meet in the capture path, the screen and the
  counters, so one is modelled at a time; what they share is in `CapturePath` and
  `SlotRuntime`.
- A SHA-256 is equal if and only if the content is; a size is a number of blocks or
  units. In `Onboarding` the device of the virtual microphone is a choice the
  wizard offers and nothing depends on, and of the two ways a licence is drawn
  only whether it was shown and accepted is kept.
- What one module leaves free another one decides: the gate of `Orchestrator` in
  `SpeechGate`, the archive of `CaptureRouter` in `AudioArchive`, the switch of
  TTS in `Playback`. They are not composed, because their product is out of
  TLC's reach and the free choice covers every behaviour of the other.

### Not modelled

`PROJECT.json` gives the reason for each part. In short: calls of the operating
system (capture and playback devices, paths, detection), numerical inference and
the local language model, HTTP and the wire format of cloud streaming, drawing,
key maps and pure formatting, command line output and benchmarks, metrics that
are only added up and drawn, and supervisors that no code of the program calls.
Of `main.rs`, `tui/mod.rs` and `config/mod.rs`, the longest files, most lines
are option parsing, drawing and the validation and serialisation of values.

## 7. Disagreements seen while modelling

Where the code and its documents differ, or where it does what a reader would not
expect. The third is an expected violation, of the run `Orchestrator_longtext`;
otherwise a property that the code does not have is stated with the exception
named (`doubt`, `unasked`, `honest`, ...).

Pipeline and speech gate

1. The 50 ms timer of the select loop is made anew in each turn
   (`pipeline/mod.rs:679`), so it does not fire while chunks come more often:
   held text then waits for the next result, against `:1263` "happen without
   waiting for the next STT result".
2. After TTS refuses its key the loop over the batch goes on to ask TTS
   (`:1167`; `:229` says all calls are skipped). Held text is sent to MT while
   paused (`:1270`; `:238` "when true, skip API calls"), so `HeldTextIsFlushed` asks
   for no flush during a pause. After an STT authentication failure the state stays
   `Sending` (`:899`). One window can count as two lost (`:1287`;
   `metrics/loss.rs:101`).
3. Every piece of a text longer than one subtitle carries the key of the whole
   (`segmentation.rs:213`), so the text counts as shown once its first sentence
   is, while the rest is held and may still fail, against
   `sentence_aggregator.rs:309`: "Do not commit the source fragment's dedup key
   until every trailing word from that fragment has been translated". Two
   sentence-ending pieces of one long text get the same segment id (`:1512`).
4. With early flush off, two utterances share a window. A loud chunk while the
   gate is closing reopens it at once, without confirmation; the chunk that ends
   the padding starts the silence anew. The default pre-roll is longer than the
   confirmation, so that it never trims. A pause during which no chunk is received
   is seen only by a flush. Chunks that confirm speech are lost when a shutdown
   comes before the gate opens.

Capture, archive, recorder

5. When the last router handle is gone, what is left is forwarded with
   `try_send` and may be dropped (`audio/router.rs:353`; `:348`).
6. `archive.rs:29` and `:269` speak of a limit at which chunks are discarded and
   the writer is sealed; the code goes on in a new file. `:271` "always a valid
   WAV": between the samples and the header, and before the first header, it is
   not.
7. A start evicts the session of another instance that is running; one directory
   that cannot be removed makes newer ones go in its place; any subdirectory
   counts as a session there, whereas `prune_session_dirs` takes care to leave
   other data alone (`recorder_writer.rs:353`). A removal that fails or is killed
   half-way (`storage/mod.rs:413`, `:460`) leaves a session with holes between its
   files, which is `cut` in `ArchiveHasNoHole`; nothing marks such a session, and
   a run whose open file was removed goes on without noticing. If pruning fails,
   recording is off. All of it happens only at the start.
8. The header of a reopened session is not in `bytes_written`
   (`recorder_writer.rs:121`; `recorder.rs:252`).

Configuration and start

9. Settings that are being saved while the file is edited put the old file back
   in memory (`main.rs:2804`; `docs/05-implementation-roadmap.md:229` promises
   the new ones). This is the reason `crossed` in `FileIsApplied`.
10. If slot B cannot be built in dual mode, the halt of slot A is never shown
    (`main.rs:1930`; `README.md:586`). TTS of slot B is always disabled, so
    `tts_source = "b"` never speaks (`:1744`); a TTS provider of slot A that cannot
    be built is silent about it (`:1379`). The next successful translation clears
    the notice that the fallback took over.

Models and consent

11. The start records the consent to MT and TTS models by itself before it
    downloads them (`local_model_startup.rs:138`; `:21` "Missing consent is handled
    interactively via stdout") and downloads the STT model without a record
    (`bootstrap/consent.rs:74` "before any model download begins"). This is
    `unasked` in `Onboarding`. The start installs and asks for consent by the top-level
    `stt_provider` and `mt_provider` only (`main.rs:783`, `:2549`, `:2559`), so in dual
    mode a local model of `slots.slot_a` or `slots.slot_b` (`:1162`, `:1592`) is built
    without a question. It asks by the configuration it has read (`:811`), but builds
    the providers from the one in memory once the capture is open (`:1116`), so an
    edit that the watcher (`:860`) applies in between is not asked about either. Both
    are the exception `m \notin boot.local` in `ModelsRunByConsent`: of these models
    it says nothing.
12. The install of an archive passes size 0 as "unknown; skip size pre-check"
    (`model_download_archive.rs:78`), but the size is checked: the archive can
    never be installed. Two installers share a partial file. The check of the MT
    model at the start looks at the encoder and the decoder only.
    `install_model_bundle` never calls `offline_guard` (`bootstrap/mod.rs:14`).
    `providers/llm/auto_download.rs:5` says that the bytes are verified; they are
    not compared with a digest.
13. In the wizard the keys l, t, m, ? and space are ignored, r and s become lower
    case and q leaves, also while the key of Google is typed (`main.rs:3660`).
    Skipping the cable is not undone by going back and choosing a device
    (`:4051`). A review records what is pending at its end, so an edit during it
    records a licence that was not shown (`:3940`). The first-run wizard cannot be
    left without a configuration (`:3889`). After a failed setup it is closed and
    nothing runs until the next start. It sees no hardware, so that the survey
    always recommends the same.

Playback

14. The route "both" plays on the virtual microphone only. Two threads that cross
    between sync and store leave the flag different from the service (`doubt`). The
    result of the first sync is not looked at (`main.rs:902`). Text that was queued
    before speech was switched off can be spoken if it is switched on again
    before the thread has looked.

## 8. Plan

The plan is done: `Orchestrator`, `CaptureRouter` and `Fanout` with their
composition, `SessionRecorder`, `ConfigSync`, `SlotRuntime`, `ModelInstall`,
`AudioArchive`, `Playback`, the speech gate and the wizard, with the proofs of
section 5. What could follow, in this order:

1. The count limit of transcripts and the migration of old files
   (`storage/mod.rs`, `recorder_writer.rs:353`), as a module beside `AudioArchive`.
2. The thresholds and hysteresis of `cpu_gate.rs` and `memory_guard.rs`, which
   `SpeechGate` and `Orchestrator` leave free.
3. The connection of cloud streaming, once the pipeline calls it.
