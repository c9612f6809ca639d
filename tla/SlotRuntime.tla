----------------------------- MODULE SlotRuntime -----------------------------
(***************************************************************************)
(* The providers behind the pipelines (src/src/runtime_providers.rs,       *)
(* src/src/pipeline/fallback.rs, src/src/providers/mt): which provider a   *)
(* slot may ask, which one it does ask, and what the screen says of it.    *)
(* The main thread builds slot A, starts its task, and in dual mode builds *)
(* slot B while A is already at work (main.rs); a slot's task then asks    *)
(* for a transcript, a translation and speech in turn.  What the pipeline  *)
(* does with the text in between is in Orchestrator.                       *)
(***************************************************************************)
EXTENDS Naturals

CONSTANTS
  Configs,   \* configurations a file can hold, see ConfigType
  Builds,    \* sets of Cargo features, each a build
  Languages  \* of the speaker and, in single mode, of the subtitles

Slots == {"A", "B"}
None  == "none"
Failed == "failed"
Chains == [primary : {"google", "whisper", "stub"}, fallback : {"google", None}]
Chain(p, f) == [primary |-> p, fallback |-> f]
NoChain == Chain(None, None)

ConfigType ==
  [dual : BOOLEAN, topStt : {"google", "local"}, stt : [Slots -> {"google", "local"}],
   mt : [Slots -> {"google", "local", "llm"}], target : [Slots -> Languages], key : BOOLEAN,
   policy : {None, "google-when-keyed"}, mtFallback : {None, "google"},
   ttsProvider : {"google", "local"}, ttsEnabled : BOOLEAN, ttsSource : {"off", "A", "B"}]

ASSUME ConfigsAssumption == Configs \subseteq ConfigType

VARIABLES
  cfg, build,       \* chosen before the start
  step,             \* of the main thread
  up,               \* the slots whose task runs
  chain, mt, tts,   \* per slot, what was built
  pc,               \* of each task: between windows, or waiting for a stage
  asked,            \* per slot, its last request: the stage and the provider
  fell,             \* using_fallback
  isLocal, source,  \* provider_is_local, stt_source
  halted,           \* pipeline_halted of the slot, with its auth_error_banner
  err,              \* pipeline_error_msg of the slot is set
  refused,          \* history: the STT providers that will never serve this slot
  allHalted, label, \* what the background tasks of dual mode publish
  ttsOn, speaker, target

built   == <<chain, mt, tts>>
mainVars == <<step, up>>
taskVars == <<pc, asked, fell, isLocal, source, halted, err, refused>>
shownVars == <<allHalted, label>>
userVars == <<ttsOn, speaker, target>>
vars == <<cfg, build, mainVars, built, taskVars, shownVars, userVars>>

-----------------------------------------------------------------------------
(* The configuration.                                                      *)

Valid(c, b) ==
  /\ c.policy = "google-when-keyed" => c.topStt = "local"
  /\ c.mtFallback = "google" => c.key
  /\ c.ttsProvider = "local" => "local-tts" \in b
  /\ ~c.dual => c.topStt = c.stt["A"]

\* runtime_provider_error: what this build lacks.  Slot B is looked at for its MT only.
Unsupported ==
  \/ cfg.stt["A"] = "local" /\ "local-stt" \notin build
  \/ \E s \in IF cfg.dual THEN Slots ELSE {"A"} :
       \/ cfg.mt[s] = "local" /\ "local-mt" \notin build
       \/ cfg.mt[s] = "llm" /\ "local-llm-mt" \notin build

\* Nobody asked for anything that needs more than a key which is not there yet.
Unconfigured == cfg.stt["A"] = "google" /\ cfg.mt["A"] = "google" /\ ~cfg.ttsEnabled

\* missing_google_api_key_error looks at slot A and at the voice.
MissingKey ==
  /\ ~cfg.key /\ ~Unconfigured
  /\ cfg.stt["A"] = "google" \/ cfg.mt["A"] = "google" \/ cfg.ttsEnabled

\* stt_local_unavailable_is_fatal_for_slot
Fatal(s) ==
  /\ cfg.stt[s] = "local"
  /\ cfg.policy = None \/ (cfg.policy = "google-when-keyed" /\ ~cfg.key)

\* is_active_for_slot
Speaks(s) == ~cfg.dual \/ cfg.ttsSource = s

-----------------------------------------------------------------------------
(* What is built.  "loads" says whether the local model can be loaded.     *)

\* build_slot_stt_provider
SttChain(s, loads) ==
  LET local == cfg.stt[s] = "local" /\ "local-stt" \in build
      keyed == cfg.policy = "google-when-keyed" /\ cfg.key
  IN IF cfg.stt[s] = "google" /\ cfg.key THEN Chain("google", None)
     ELSE IF local /\ keyed THEN Chain(IF loads THEN "whisper" ELSE "stub", "google")
     ELSE IF local /\ loads THEN Chain("whisper", None)
     ELSE NoChain

\* MUTANT of MtProvider: the cloud leg is wired whenever there is a key.
KeyedMt(s, loads) ==
  IF cfg.mt[s] = "google" /\ cfg.key THEN "google"
  ELSE IF cfg.mt[s] = "local" /\ "local-mt" \in build
  THEN IF cfg.key THEN "routed to cloud" ELSE "routed"
  ELSE IF cfg.mt[s] = "llm" /\ "local-llm-mt" \in build /\ loads THEN "llm"
  ELSE Failed

\* build_slot_mt_provider, build_llm_mt_provider: the router has a cloud leg or not.
MtProvider(s, loads) ==
  IF cfg.mt[s] = "google" /\ cfg.key THEN "google"
  ELSE IF cfg.mt[s] = "local" /\ "local-mt" \in build
  THEN IF cfg.mtFallback = "google" /\ cfg.key THEN "routed to cloud" ELSE "routed"
  ELSE IF cfg.mt[s] = "llm" /\ "local-llm-mt" \in build /\ loads THEN "llm"
  ELSE Failed

\* build_runtime_tts_provider
TtsProvider(loads) ==
  IF cfg.ttsProvider = "local" THEN IF loads THEN "supertonic" ELSE Failed
  ELSE IF cfg.key THEN "google"
  ELSE IF cfg.ttsEnabled THEN Failed
  ELSE "disabled"

InitialSource(c) ==
  IF c.primary = "google" THEN "google-configured"
  ELSE IF c.primary = "whisper" THEN "local"
  ELSE "google-fallback"
InitialIsLocal(c) == c.primary = "whisper"

-----------------------------------------------------------------------------
\* "direct": the pair to translate has a local model.
Request(stage, who, direct) == [stage |-> stage, who |-> who, direct |-> direct]

Init ==
  /\ cfg \in Configs /\ build \in Builds /\ Valid(cfg, build)
  /\ step = "capture" /\ up = {}
  /\ chain = [s \in Slots |-> NoChain] /\ mt = [s \in Slots |-> None]
  /\ tts = [s \in Slots |-> None]
  /\ pc = [s \in Slots |-> "idle"]
  /\ asked = [s \in Slots |-> Request(None, None, FALSE)]
  /\ fell = [s \in Slots |-> FALSE]
  /\ isLocal = [s \in Slots |-> cfg.stt[s] = "local"]
  /\ source = [s \in Slots |-> "google-configured"]
  /\ halted = [s \in Slots |-> FALSE] /\ err = [s \in Slots |-> FALSE]
  /\ refused = [s \in Slots |-> {}]
  /\ allHalted = FALSE /\ label = [s \in Slots |-> ""]
  /\ ttsOn = cfg.ttsEnabled
  /\ speaker \in Languages /\ target = cfg.target["A"]

(* The main thread.                                                        *)

\* Nothing will be translated: the audio is only metered (or there is none).
GiveUp ==
  /\ step' = "tui"
  /\ UNCHANGED <<cfg, build, up, built, taskVars, shownVars, userVars>>

CaptureFails == step = "capture" /\ GiveUp
CaptureOpens ==
  /\ step = "capture"
  /\ IF Unsupported \/ MissingKey \/ (~cfg.key /\ Unconfigured) THEN GiveUp
     ELSE /\ step' = "stt"
          /\ UNCHANGED <<cfg, build, up, built, taskVars, shownVars, userVars>>

\* The flags of a slot once its STT provider is there.
ShowChain(s, c) ==
  /\ source' = [source EXCEPT ![s] = InitialSource(c)]
  /\ isLocal' = [isLocal EXCEPT ![s] = InitialIsLocal(c)]

BuildSttA ==
  /\ step = "stt"
  /\ \E loads \in BOOLEAN : LET c == SttChain("A", loads) IN
       IF c = NoChain THEN GiveUp
       ELSE /\ step' = "mt" /\ chain' = [chain EXCEPT !["A"] = c]
            /\ ShowChain("A", c)
            /\ UNCHANGED <<cfg, build, up, mt, tts, pc, asked, fell, halted, err,
                           refused, shownVars, userVars>>

BuildMtA ==
  /\ step = "mt"
  /\ \E loads \in BOOLEAN : LET p == MtProvider("A", loads) IN
       IF p = Failed THEN GiveUp
       ELSE /\ step' = "tts" /\ mt' = [mt EXCEPT !["A"] = p]
            /\ UNCHANGED <<cfg, build, up, chain, tts, taskVars, shownVars, userVars>>

\* Slot A has all it needs: its task starts, before slot B is looked at.
BuildTtsA ==
  /\ step = "tts"
  /\ \E loads \in BOOLEAN : LET p == TtsProvider(loads) IN
       IF p = Failed THEN GiveUp
       ELSE /\ step' = IF cfg.dual THEN "slot B" ELSE "tui"
            /\ tts' = [tts EXCEPT !["A"] = p] /\ up' = {"A"}
            /\ UNCHANGED <<cfg, build, chain, mt, taskVars, shownVars, userVars>>

BothBuilt(c, p) == c # NoChain /\ p # Failed

\* Both providers are built, then both are looked at.  Slot B never has a voice.
BuildB ==
  /\ step = "slot B" /\ step' = "tui"
  /\ \E sttLoads, mtLoads \in BOOLEAN :
       LET c == SttChain("B", sttLoads)
           p == MtProvider("B", mtLoads)
       IN \/ /\ BothBuilt(c, p) /\ up' = Slots
             /\ chain' = [chain EXCEPT !["B"] = c] /\ mt' = [mt EXCEPT !["B"] = p]
             /\ tts' = [tts EXCEPT !["B"] = "disabled"] /\ ShowChain("B", c)
          \/ ~BothBuilt(c, p) /\ UNCHANGED <<up, built, source, isLocal>>
  /\ UNCHANGED <<cfg, build, pc, asked, fell, halted, err, refused, shownVars, userVars>>

-----------------------------------------------------------------------------
(* The task of a slot: one window after the other.                         *)

Target(s) == IF cfg.dual THEN cfg.target[s] ELSE target

\* MUTANT of AskFallback: the flags stay as they were.
AskQuietly(s) ==
  /\ asked' = [asked EXCEPT ![s] = Request("stt", chain[s].fallback, FALSE)]
  /\ pc' = [pc EXCEPT ![s] = "stt"]
  /\ UNCHANGED <<isLocal, source>>

\* call_fallback: the flags first, then the request.
AskFallback(s) ==
  /\ asked' = [asked EXCEPT ![s] = Request("stt", chain[s].fallback, FALSE)]
  /\ isLocal' = [isLocal EXCEPT ![s] = FALSE]
  /\ source' = [source EXCEPT ![s] = "google-fallback"]
  /\ pc' = [pc EXCEPT ![s] = "stt"]

\* MUTANT of FallOver: the switch holds for this window only.
FallOnce(s) ==
  /\ err' = [err EXCEPT ![s] = TRUE] /\ AskFallback(s) /\ UNCHANGED fell

\* The first permanent failure of the primary, whose notice is the slot's message.
FallOver(s) ==
  /\ fell' = [fell EXCEPT ![s] = TRUE] /\ err' = [err EXCEPT ![s] = TRUE]
  /\ AskFallback(s)

\* transcribe; the stub of a model that did not load answers at once.
Ask(s) ==
  /\ s \in up /\ pc[s] = "idle" /\ ~halted[s]
  /\ \/ fell[s] /\ AskFallback(s) /\ UNCHANGED <<fell, err>>
     \/ ~fell[s] /\ chain[s].primary = "stub" /\ FallOver(s)
     \/ /\ ~fell[s] /\ chain[s].primary # "stub"
        /\ asked' = [asked EXCEPT ![s] = Request("stt", chain[s].primary, FALSE)]
        /\ pc' = [pc EXCEPT ![s] = "stt"]
        /\ UNCHANGED <<fell, err, isLocal, source>>
  /\ UNCHANGED <<cfg, build, mainVars, built, halted, refused, shownVars, userVars>>

Goes(s, stage) == pc' = [pc EXCEPT ![s] = stage]
Halt(s) == halted' = [halted EXCEPT ![s] = TRUE] /\ Goes(s, "idle")
Refuses(s, p) == refused' = [refused EXCEPT ![s] = @ \cup {p}]

\* A text to translate; or silence, an interim result or a failure that may pass.
Transcribed(s) ==
  /\ pc[s] = "stt"
  /\ \E stage \in {"mt", "idle"} : Goes(s, stage)
  /\ UNCHANGED <<cfg, build, mainVars, built, asked, fell, isLocal, source, halted, err, refused,
                 shownVars, userVars>>

\* Google does not accept the key.
SttAuthError(s) ==
  /\ pc[s] = "stt" /\ asked[s].who = "google"
  /\ Refuses(s, "google") /\ Halt(s)
  /\ UNCHANGED <<cfg, build, mainVars, built, asked, fell, isLocal, source, err, shownVars, userVars>>

\* The model is gone or damaged (is_local_unavailable).
ModelUnavailable(s) ==
  /\ pc[s] = "stt" /\ asked[s].who = "whisper"
  /\ Refuses(s, "whisper")
  /\ \/ /\ chain[s].fallback # None /\ FallOver(s)
        /\ UNCHANGED halted
     \/ /\ chain[s].fallback = None /\ Fatal(s) /\ Halt(s)
        /\ UNCHANGED <<asked, fell, isLocal, source, err>>
     \/ /\ chain[s].fallback = None /\ ~Fatal(s) /\ Goes(s, "idle")
        /\ UNCHANGED <<asked, fell, isLocal, source, halted, err>>
  /\ UNCHANGED <<cfg, build, mainVars, built, shownVars, userVars>>

\* route_for_pair: one pair has a local model.
Direct(pair) == pair = <<"ja", "vi">>

\* MtRouter.translate, and the providers that take any pair.
MtAsked(s, pair) ==
  IF mt[s] \in {"google", "llm"} THEN mt[s]
  ELSE IF Direct(pair) THEN "opus"
  ELSE IF mt[s] = "routed to cloud" THEN "google"
  ELSE None
\* The pair is read when the request is made.
Translate(s) ==
  /\ pc[s] = "mt"
  /\ LET pair == <<speaker, Target(s)>>
         who == MtAsked(s, pair)
     IN /\ asked' = [asked EXCEPT ![s] = Request("mt", who, Direct(pair))]
        /\ \/ who # None /\ err' = [err EXCEPT ![s] = FALSE] /\ UNCHANGED halted
              /\ Goes(s, IF ttsOn /\ Speaks(s) THEN "tts" ELSE "idle")
           \/ err' = [err EXCEPT ![s] = TRUE] /\ UNCHANGED halted /\ Goes(s, "idle")
           \/ who = "google" /\ Halt(s) /\ UNCHANGED err
  /\ UNCHANGED <<cfg, build, mainVars, built, fell, isLocal, source, refused, shownVars,
                 userVars>>

\* The disabled provider refuses every text.
Speak(s) ==
  /\ pc[s] = "tts"
  /\ asked' = [asked EXCEPT ![s] = Request("tts", tts[s], FALSE)]
  /\ \/ tts[s] # "disabled" /\ err' = [err EXCEPT ![s] = FALSE] /\ Goes(s, "idle") /\ UNCHANGED halted
     \/ err' = [err EXCEPT ![s] = TRUE] /\ Goes(s, "idle") /\ UNCHANGED halted
     \/ tts[s] = "google" /\ Halt(s) /\ UNCHANGED err
  /\ UNCHANGED <<cfg, build, mainVars, built, fell, isLocal, source, refused, shownVars, userVars>>

-----------------------------------------------------------------------------
(* The background tasks of dual mode, spawned with the task of slot B.     *)

\* aggregate_halt_state
AggregateHalt(a, b) == a /\ b
Aggregate ==
  /\ up = Slots /\ allHalted' = AggregateHalt(halted["A"], halted["B"])
  /\ UNCHANGED <<cfg, build, mainVars, built, taskVars, label, userVars>>

\* MUTANT of SlotStatus: the newest message wins over the reason of the halt.
ErrorFirst(s) == IF err[s] THEN "error" ELSE IF halted[s] THEN "auth" ELSE ""

\* format_slot_error_status
SlotStatus(s) == IF halted[s] THEN "auth" ELSE IF err[s] THEN "error" ELSE ""

CopyLabel(s) ==
  /\ up = Slots /\ label' = [label EXCEPT ![s] = SlotStatus(s)]
  /\ UNCHANGED <<cfg, build, mainVars, built, taskVars, allHalted, userVars>>

(* The user, once the screen is there.                                     *)

\* T: the playback service may not start, and then nothing is turned on.
ToggleTts ==
  /\ step = "tui"
  /\ \E works \in BOOLEAN : ttsOn' = (~ttsOn /\ works)
  /\ UNCHANGED <<cfg, build, mainVars, built, taskVars, shownVars, speaker, target>>

\* Both languages are hot; the target of dual mode is fixed per slot.
ChangeLanguages ==
  /\ step = "tui"
  /\ speaker' \in Languages
  /\ IF cfg.dual THEN UNCHANGED target ELSE target' \in Languages
  /\ UNCHANGED <<cfg, build, mainVars, built, taskVars, shownVars, ttsOn>>

Task(s) ==
  \/ Ask(s) \/ Transcribed(s) \/ SttAuthError(s) \/ ModelUnavailable(s) \/ Translate(s) \/ Speak(s)
Main == CaptureFails \/ CaptureOpens \/ BuildSttA \/ BuildMtA \/ BuildTtsA \/ BuildB

Next ==
  \/ Main \/ (\E s \in Slots : Task(s) \/ CopyLabel(s))
  \/ Aggregate \/ ToggleTts \/ ChangeLanguages

Spec == Init /\ [][Next]_vars

\* The start goes on, and the intervals of the background tasks keep ticking.
Fairness ==
  /\ WF_vars(Main) /\ WF_vars(Aggregate) /\ \A s \in Slots : WF_vars(CopyLabel(s))
FairSpec == Spec /\ Fairness

-----------------------------------------------------------------------------
\* Every variable stays in its set.
TypeOK ==
  /\ cfg \in Configs /\ build \in Builds
  /\ step \in {"capture", "stt", "mt", "tts", "slot B", "tui"}
  /\ up \in {{}, {"A"}, Slots}
  /\ chain \in [Slots -> Chains \cup {NoChain}]
  /\ mt \in [Slots -> {None, "google", "routed", "routed to cloud", "llm"}]
  /\ tts \in [Slots -> {None, "google", "supertonic", "disabled"}]
  /\ pc \in [Slots -> {"idle", "stt", "mt", "tts"}]
  /\ asked \in [Slots -> [stage : {None, "stt", "mt", "tts"}, direct : BOOLEAN,
                          who : {None, "google", "whisper", "opus", "llm", "supertonic", "disabled"}]]
  /\ source \in [Slots -> {"local", "google-configured", "google-fallback"}]
  /\ fell \in [Slots -> BOOLEAN] /\ isLocal \in [Slots -> BOOLEAN]
  /\ halted \in [Slots -> BOOLEAN] /\ err \in [Slots -> BOOLEAN]
  /\ refused \in [Slots -> SUBSET {"google", "whisper"}]
  /\ allHalted \in BOOLEAN /\ ttsOn \in BOOLEAN
  /\ label \in [Slots -> {"", "auth", "error"}]
  /\ speaker \in Languages /\ target \in Languages

\* What is said leaves the machine only by the user's own choice: a stage that asks
\* Google is configured for Google, or names it as its fallback, and a pair with a
\* local model is never sent (the no-silent-cloud rule, providers/mt/router.rs:27).
CloudOnlyByConsent ==
  \A s \in Slots : asked[s].who = "google" =>
    /\ asked[s].stage = "stt" =>
         \/ cfg.stt[s] = "google"
         \/ cfg.policy = "google-when-keyed" /\ ("whisper" \in refused[s] \/ chain[s].primary = "stub")
    /\ asked[s].stage = "mt" =>
         cfg.mt[s] = "google" \/ (cfg.mtFallback = "google" /\ ~asked[s].direct)
    /\ asked[s].stage = "tts" => cfg.ttsProvider = "google"

\* An STT provider that has refused for good (a bad key, a missing model) is not
\* asked again by that slot, window after window (fallback.rs:10-16, AC1 and AC2).
RefusedIsNotAskedAgain == \A s \in Slots : pc[s] = "stt" => asked[s].who \notin refused[s]

\* The status line and the CPU gate, which both act on flags, are told of the
\* provider that is being asked (stt_source, provider_is_local).
FlagsTellWhoIsAsked ==
  \A s \in Slots : pc[s] = "stt" =>
    /\ isLocal[s] = (asked[s].who = "whisper")
    /\ source[s] = IF asked[s].who = "whisper" THEN "local"
                   ELSE IF cfg.stt[s] = "google" THEN "google-configured" ELSE "google-fallback"

\* Where the user can read why slot s stopped: its pane, or in single mode the banner.
Shown(s) == IF cfg.dual THEN up = Slots /\ label[s] = "auth" ELSE halted[s]

\* With every configured slot at work, the halt of one is shown, to stay, and the
\* halt of both is published (comment at main.rs:1434).
HaltIsShown ==
  /\ \A s \in Slots : halted[s] /\ (cfg.dual => up = Slots) ~> [](Shown(s))
  /\ up = Slots /\ halted["A"] /\ halted["B"] ~> []allHalted
=============================================================================
