--------------------------- MODULE Consent_proofs ---------------------------
(***************************************************************************)
(* What the program may do in the name of the user, in two parts.          *)
(*                                                                         *)
(* SlotRuntime, for every set of configurations, builds and languages: no  *)
(* provider is asked without consent, none is asked again that has         *)
(* refused, and the flags tell the truth.                                  *)
(*                                                                         *)
(* Onboarding, for every set of presets, edits and any number   *)
(* of starts: no model runs without a licence, and the first configuration *)
(* is the one that was confirmed.                                          *)
(***************************************************************************)
EXTENDS SlotRuntime, Onboarding, SequenceTheorems, TLAPS

-----------------------------------------------------------------------------
(* The invariant.                                                          *)

\* What the chain of slot s says about the configuration it was built from.
ChainOK(s, c) ==
  /\ c \in Chains
  /\ c.primary = "google" => cfg.stt[s] = "google" /\ c.fallback = None
  /\ c.primary # "google" => cfg.stt[s] = "local"
  /\ c.fallback # None => cfg.policy = "google-when-keyed"
  /\ c.primary = "stub" => c.fallback # None
  /\ c.primary = "whisper" /\ c.fallback = None => Fatal(s)

MtOK(s, p) ==
  /\ p = "google" => cfg.mt[s] = "google"
  /\ p = "routed to cloud" => cfg.mtFallback = "google"

Wired ==
  /\ \A s \in Slots : chain[s] = NoChain \/ ChainOK(s, chain[s])
  /\ \A s \in Slots : MtOK(s, mt[s])
  /\ \A s \in Slots : tts[s] = "google" => cfg.ttsProvider = "google"

\* A slot whose task has not started has done nothing.
Quiet(s) ==
  /\ pc[s] = "idle" /\ asked[s].stage = None /\ asked[s].who = None
  /\ ~fell[s] /\ ~halted[s] /\ refused[s] = {}

\* The order of the start.
Started ==
  /\ step \in {"capture", "stt", "mt", "tts"} => up = {}
  /\ step = "slot B" => up = {"A"}
  /\ step \in {"mt", "tts"} => chain["A"] # NoChain
  /\ \A s \in up : chain[s] # NoChain
  /\ \A s \in Slots : s \notin up => Quiet(s)

\* Slot s before and after the switch to its fallback.
Switched(s) ==
  /\ fell[s] => /\ chain[s].fallback = "google"
                /\ ~isLocal[s] /\ source[s] = "google-fallback"
                /\ "whisper" \in refused[s] \/ chain[s].primary = "stub"
  /\ ~fell[s] /\ chain[s] # NoChain =>
       isLocal[s] = (chain[s].primary = "whisper") /\ source[s] = InitialSource(chain[s])
  /\ pc[s] = "stt" =>
       /\ ~fell[s] => chain[s].primary # "stub"
       /\ asked[s].who = IF fell[s] THEN "google" ELSE chain[s].primary

\* Who has refused slot s is behind the switch, or the slot has halted.
Refusals(s) ==
  /\ "google" \in refused[s] => halted[s]
  /\ "whisper" \in refused[s] => fell[s] \/ halted[s]
  /\ halted[s] => pc[s] = "idle"

\* CloudOnlyByConsent, of slot s.
Consent(s) ==
  asked[s].who = "google" =>
    /\ asked[s].stage = "stt" =>
         \/ cfg.stt[s] = "google"
         \/ cfg.policy = "google-when-keyed" /\ ("whisper" \in refused[s] \/ chain[s].primary = "stub")
    /\ asked[s].stage = "mt" =>
         cfg.mt[s] = "google" \/ (cfg.mtFallback = "google" /\ ~asked[s].direct)
    /\ asked[s].stage = "tts" => cfg.ttsProvider = "google"

SlotInv(s) == Switched(s) /\ Refusals(s) /\ Consent(s)

IInv == TypeOK /\ Wired /\ Started /\ \A s \in Slots : SlotInv(s)

-----------------------------------------------------------------------------
(* Types.                                                                  *)

TypeMain ==
  /\ cfg \in Configs /\ build \in Builds
  /\ step \in {"capture", "stt", "mt", "tts", "slot B", "tui"} /\ up \in {{}, {"A"}, Slots}
TypeBuilt ==
  /\ chain \in [Slots -> Chains \cup {NoChain}]
  /\ mt \in [Slots -> {None, "google", "routed", "routed to cloud", "llm"}]
  /\ tts \in [Slots -> {None, "google", "supertonic", "disabled"}]
TypeAsked ==
  asked \in [Slots -> [stage : {None, "stt", "mt", "tts"}, direct : BOOLEAN,
                       who : {None, "google", "whisper", "opus", "llm", "supertonic", "disabled"}]]
TypeFlags ==
  /\ pc \in [Slots -> {"idle", "stt", "mt", "tts"}]
  /\ source \in [Slots -> {"local", "google-configured", "google-fallback"}]
  /\ fell \in [Slots -> BOOLEAN] /\ isLocal \in [Slots -> BOOLEAN]
  /\ halted \in [Slots -> BOOLEAN] /\ err \in [Slots -> BOOLEAN]
  /\ refused \in [Slots -> SUBSET {"google", "whisper"}]
TypeShown ==
  /\ allHalted \in BOOLEAN /\ ttsOn \in BOOLEAN
  /\ label \in [Slots -> {"", "auth", "error"}]
  /\ speaker \in Languages /\ target \in Languages

LEMMA TypeParts == TypeOK <=> TypeMain /\ TypeBuilt /\ TypeAsked /\ TypeFlags /\ TypeShown
  BY DEF TypeOK, TypeMain, TypeBuilt, TypeAsked, TypeFlags, TypeShown

-----------------------------------------------------------------------------
(* What is built.                                                          *)

LEMMA ConfigFacts ==
  ASSUME TypeOK, NEW s \in Slots
  PROVE  /\ cfg.stt[s] \in {"google", "local"} /\ cfg.mt[s] \in {"google", "local", "llm"}
         /\ cfg.policy \in {None, "google-when-keyed"} /\ cfg.key \in BOOLEAN
         /\ cfg.ttsProvider \in {"google", "local"} /\ cfg.target[s] \in Languages
<1>1. cfg \in ConfigType
  BY ConfigsAssumption DEF ConfigsAssumption, TypeOK
<1>2. QED
  BY <1>1 DEF ConfigType

\* Whatever can be built for a slot agrees with the configuration.
LEMMA ChainBuilt ==
  ASSUME TypeOK, NEW s \in Slots, NEW loads \in BOOLEAN
  PROVE  SttChain(s, loads) = NoChain \/ ChainOK(s, SttChain(s, loads))
  BY ConfigFacts DEF SttChain, ChainOK, Chains, Chain, NoChain, None, Fatal

LEMMA MtBuilt ==
  ASSUME NEW s \in Slots, NEW loads \in BOOLEAN
  PROVE  /\ MtOK(s, MtProvider(s, loads))
         /\ MtProvider(s, loads) \in {"google", "routed", "routed to cloud", "llm", Failed}
  BY DEF MtProvider, MtOK, Failed

LEMMA TtsBuilt ==
  ASSUME TypeOK, NEW loads \in BOOLEAN
  PROVE  /\ TtsProvider(loads) = "google" => cfg.ttsProvider = "google"
         /\ TtsProvider(loads) \in {"google", "supertonic", "disabled", Failed}
  BY ConfigFacts DEF TtsProvider, Failed, Slots

\* A pair with a local model goes to no cloud, and another one only with consent.
LEMMA MtTarget ==
  ASSUME NEW s \in Slots, NEW pair, MtOK(s, mt[s])
  PROVE  /\ MtAsked(s, pair) = "google" =>
              cfg.mt[s] = "google" \/ (cfg.mtFallback = "google" /\ ~Direct(pair))
         /\ MtAsked(s, pair) \in {None, "google", "llm", "opus"}
  BY DEF MtAsked, MtOK, Direct, None

-----------------------------------------------------------------------------
(* The main thread builds and starts; it asks nobody.                      *)

LEMMA MainWired ==
  ASSUME TypeOK, Wired, Main
  PROVE  Wired'
<1>1. DOMAIN chain = Slots /\ DOMAIN mt = Slots /\ DOMAIN tts = Slots
  BY TypeParts DEF TypeBuilt
<1>2. cfg' = cfg
  BY DEF Main, CaptureFails, CaptureOpens, GiveUp, BuildSttA, BuildMtA, BuildTtsA, BuildB
<1>3. \A s \in Slots : chain'[s] = chain[s] \/ \E l \in BOOLEAN : chain'[s] = SttChain(s, l)
  BY ZenonT(60), <1>1 DEF Main, CaptureFails, CaptureOpens, GiveUp, BuildSttA, BuildMtA, BuildTtsA, BuildB,
              built, Slots
<1>4. \A s \in Slots : mt'[s] = mt[s] \/ \E l \in BOOLEAN : mt'[s] = MtProvider(s, l)
  BY <1>1 DEF Main, CaptureFails, CaptureOpens, GiveUp, BuildSttA, BuildMtA, BuildTtsA, BuildB,
              built, Slots
<1>5. \A s \in Slots : tts'[s] \in {tts[s], "disabled"} \/ \E l \in BOOLEAN : tts'[s] = TtsProvider(l)
  BY <1>1 DEF Main, CaptureFails, CaptureOpens, GiveUp, BuildSttA, BuildMtA, BuildTtsA, BuildB,
              built, Slots
<1>6. \A s \in Slots : chain'[s] = NoChain \/ ChainOK(s, chain'[s])
  BY <1>3, ChainBuilt DEF Wired
<1>7. \A s \in Slots : MtOK(s, mt'[s])
  BY <1>4, MtBuilt DEF Wired
<1>8. \A s \in Slots : tts'[s] = "google" => cfg.ttsProvider = "google"
  BY <1>5, TtsBuilt DEF Wired
<1>9. QED
  BY <1>2, <1>6, <1>7, <1>8 DEF Wired, ChainOK, MtOK, Fatal

LEMMA MainStarted ==
  ASSUME TypeOK, Started, Main
  PROVE  Started'
<1>1. DOMAIN chain = Slots
  BY TypeParts DEF TypeBuilt
<1>2. UNCHANGED <<pc, asked, fell, halted, refused>>
  BY DEF Main, CaptureFails, CaptureOpens, GiveUp, BuildSttA, BuildMtA, BuildTtsA, BuildB, taskVars
<1>3. \A s \in Slots : Quiet(s) => Quiet(s)'
  BY <1>2 DEF Quiet
<1>4. CASE CaptureFails \/ CaptureOpens
  BY <1>3, <1>4 DEF Started, CaptureFails, CaptureOpens, GiveUp, built
<1>5. CASE BuildSttA
  BY <1>1, <1>3, <1>5 DEF Started, BuildSttA, GiveUp, built, Slots
<1>6. CASE BuildMtA
  BY <1>3, <1>6 DEF Started, BuildMtA, GiveUp, built
<1>7. CASE BuildTtsA
  BY <1>3, <1>7 DEF Started, BuildTtsA, GiveUp, built
<1>8. CASE BuildB
  BY <1>1, <1>3, <1>8 DEF Started, BuildB, BothBuilt, built, Slots
<1>9. QED
  BY <1>4, <1>5, <1>6, <1>7, <1>8 DEF Main

\* What is shown of a slot is set when its chain is, before its task starts.
LEMMA MainSlot ==
  ASSUME TypeOK, Started, Wired, Main, NEW s \in Slots, SlotInv(s)
  PROVE  SlotInv(s)'
<1>1. DOMAIN chain = Slots /\ DOMAIN isLocal = Slots /\ DOMAIN source = Slots
  BY TypeParts DEF TypeBuilt, TypeFlags
<1>2. UNCHANGED <<cfg, pc, asked, fell, halted, refused>>
  BY DEF Main, CaptureFails, CaptureOpens, GiveUp, BuildSttA, BuildMtA, BuildTtsA, BuildB, taskVars
<1>3. \/ chain'[s] = chain[s] /\ isLocal'[s] = isLocal[s] /\ source'[s] = source[s]
      \/ /\ s \notin up /\ isLocal'[s] = (chain'[s].primary = "whisper")
         /\ source'[s] = InitialSource(chain'[s])
  <2>1. CASE CaptureFails \/ CaptureOpens \/ BuildMtA \/ BuildTtsA
    BY <2>1 DEF CaptureFails, CaptureOpens, BuildMtA, BuildTtsA, GiveUp, built, taskVars
  <2>2. CASE BuildSttA
    BY <1>1, <2>2 DEF BuildSttA, GiveUp, ShowChain, InitialIsLocal, built, taskVars, Started, Slots
  <2>3. CASE BuildB
    BY <1>1, <2>3 DEF BuildB, ShowChain, InitialIsLocal, built, Started, Slots
  <2>4. QED
    BY <2>1, <2>2, <2>3 DEF Main
<1>4. CASE s \in up
  BY <1>2, <1>3, <1>4 DEF SlotInv, Switched, Refusals, Consent, InitialSource
<1>5. CASE s \notin up
  <2>1. Quiet(s)
    BY <1>5 DEF Started
  <2>2. Refusals(s)' /\ Consent(s)'
    BY <1>2, <2>1 DEF Quiet, Refusals, Consent, None
  <2>3. Switched(s)'
    BY <1>2, <1>3, <2>1 DEF Quiet, Switched, SlotInv, InitialSource
  <2>4. QED
    BY <2>2, <2>3 DEF SlotInv
<1>6. QED
  BY <1>4, <1>5

-----------------------------------------------------------------------------
(* The task of slot s touches what slot s keeps, and nothing else.         *)

Mine(s) == <<pc[s], asked[s], fell[s], isLocal[s], source[s], halted[s], refused[s]>>

LEMMA TaskFrame ==
  ASSUME TypeOK, NEW s \in Slots, Task(s)
  PROVE  /\ UNCHANGED <<cfg, build, mainVars, built, shownVars, userVars>>
         /\ \A t \in Slots : t # s => Mine(t)' = Mine(t)
<1>1. /\ DOMAIN pc = Slots /\ DOMAIN asked = Slots /\ DOMAIN fell = Slots /\ DOMAIN isLocal = Slots
      /\ DOMAIN source = Slots /\ DOMAIN halted = Slots /\ DOMAIN refused = Slots
  BY TypeParts DEF TypeFlags, TypeAsked
<1> USE <1>1 DEF Mine, Goes, Halt, Refuses, AskFallback, FallOver
<1>2. CASE Ask(s)
  BY <1>2 DEF Ask
<1>3. CASE Transcribed(s)
  BY <1>3 DEF Transcribed
<1>4. CASE SttAuthError(s)
  BY <1>4 DEF SttAuthError
<1>5. CASE ModelUnavailable(s)
  BY <1>5 DEF ModelUnavailable
<1>6. CASE Translate(s)
  BY <1>6 DEF Translate
<1>7. CASE Speak(s)
  BY <1>7 DEF Speak
<1>8. QED
  BY <1>2, <1>3, <1>4, <1>5, <1>6, <1>7 DEF Task

LEMMA TaskWired ==
  ASSUME TypeOK, Wired, NEW s \in Slots, Task(s)
  PROVE  Wired'
BY ZenonT(60), TaskFrame DEF Wired, ChainOK, MtOK, Fatal, built

\* Only a slot that has been started takes a step.
LEMMA TaskIsUp ==
  ASSUME Started, NEW s \in Slots, Task(s)
  PROVE  s \in up /\ chain[s] # NoChain
<1>1. Ask(s) \/ pc[s] # "idle"
  BY DEF Task, Transcribed, SttAuthError, ModelUnavailable, Translate, Speak
<1>2. QED
  BY <1>1 DEF Started, Quiet, Ask

LEMMA TaskStarted ==
  ASSUME TypeOK, Started, NEW s \in Slots, Task(s)
  PROVE  Started'
<1>1. \A t \in Slots : Quiet(t) /\ t \notin up => Quiet(t)'
  BY TaskFrame, TaskIsUp DEF Quiet, Mine
<1>2. QED
  BY <1>1, TaskFrame DEF Started, mainVars, built

\* The slot that asks: to the primary, or behind the switch to the fallback.
LEMMA AskSlot ==
  ASSUME TypeOK, Wired, Started, NEW s \in Slots, SlotInv(s), Ask(s)
  PROVE  SlotInv(s)'
<1>1. /\ DOMAIN pc = Slots /\ DOMAIN asked = Slots /\ DOMAIN fell = Slots /\ DOMAIN isLocal = Slots
      /\ DOMAIN source = Slots
  BY TypeParts DEF TypeFlags, TypeAsked
<1>2. chain[s] # NoChain /\ ChainOK(s, chain[s])
  BY TaskIsUp DEF Task, Wired
<1>3. UNCHANGED <<cfg, chain, halted, refused>> /\ ~halted[s]
  BY DEF Ask, built
<1>4. /\ pc'[s] = "stt" /\ asked'[s].stage = "stt"
      /\ \/ /\ fell'[s] /\ asked'[s].who = chain[s].fallback
            /\ ~isLocal'[s] /\ source'[s] = "google-fallback"
            /\ fell[s] \/ chain[s].primary = "stub"
         \/ /\ ~fell[s] /\ ~fell'[s] /\ asked'[s].who = chain[s].primary /\ chain[s].primary # "stub"
            /\ isLocal'[s] = isLocal[s] /\ source'[s] = source[s]
  BY <1>1 DEF Ask, AskFallback, FallOver, Request
<1>5. Switched(s)'
  BY <1>2, <1>3, <1>4 DEF SlotInv, Switched, ChainOK, Chains, None
<1>6. Refusals(s)'
  BY <1>3, <1>4 DEF SlotInv, Refusals
<1>7. Consent(s)'
  BY <1>2, <1>3, <1>4 DEF SlotInv, Switched, Consent, ChainOK, Chains, None
<1>8. QED
  BY <1>5, <1>6, <1>7 DEF SlotInv

\* The model of slot s is gone: the switch, or the halt where there is no fallback.
LEMMA UnavailableSlot ==
  ASSUME TypeOK, Wired, Started, NEW s \in Slots, SlotInv(s), ModelUnavailable(s)
  PROVE  SlotInv(s)'
<1>1. /\ DOMAIN pc = Slots /\ DOMAIN asked = Slots /\ DOMAIN fell = Slots /\ DOMAIN isLocal = Slots
      /\ DOMAIN source = Slots /\ DOMAIN halted = Slots /\ DOMAIN refused = Slots
  BY TypeParts DEF TypeFlags, TypeAsked
<1>2. /\ chain[s] # NoChain /\ ChainOK(s, chain[s])
  BY TaskIsUp DEF Task, Wired
<1>3. /\ pc[s] = "stt" /\ asked[s].who = "whisper"
      /\ UNCHANGED <<cfg, chain>> /\ refused'[s] = refused[s] \cup {"whisper"}
  BY <1>1 DEF ModelUnavailable, Refuses, built
<1>4. ~fell[s] /\ ~halted[s] /\ chain[s].primary = "whisper" /\ "google" \notin refused[s]
  BY <1>3 DEF SlotInv, Switched, Refusals
<1>5. \/ /\ chain[s].fallback # None /\ pc'[s] = "stt" /\ fell'[s] /\ halted'[s] = halted[s]
         /\ asked'[s].stage = "stt" /\ asked'[s].who = chain[s].fallback
         /\ ~isLocal'[s] /\ source'[s] = "google-fallback"
      \/ /\ Fatal(s) /\ halted'[s] /\ pc'[s] = "idle"
         /\ UNCHANGED <<asked, fell, isLocal, source>>
  <2>1. chain[s].fallback = None => Fatal(s)
    BY <1>2, <1>4 DEF ChainOK
  <2>2. QED
    BY <1>1, <2>1 DEF ModelUnavailable, FallOver, AskFallback, Request, Halt, Goes
<1>6. Switched(s)'
  BY <1>2, <1>3, <1>4, <1>5 DEF SlotInv, Switched, ChainOK, Chains, None
<1>7. Refusals(s)'
  BY <1>3, <1>4, <1>5 DEF SlotInv, Refusals
<1>8. Consent(s)'
  BY <1>2, <1>3, <1>4, <1>5 DEF SlotInv, Switched, Consent, ChainOK, Chains, None
<1>9. QED
  BY <1>6, <1>7, <1>8 DEF SlotInv

\* Google refuses the key, or the answer goes on to the next stage.
LEMMA AnswerSlot ==
  ASSUME TypeOK, NEW s \in Slots, SlotInv(s), Transcribed(s) \/ SttAuthError(s)
  PROVE  SlotInv(s)'
<1>1. DOMAIN pc = Slots /\ DOMAIN halted = Slots /\ DOMAIN refused = Slots
  BY TypeParts DEF TypeFlags
<1>2. /\ UNCHANGED <<cfg, chain, asked, fell, isLocal, source>> /\ pc[s] = "stt" /\ pc'[s] # "stt"
      /\ \/ halted'[s] = halted[s] /\ refused'[s] = refused[s]
         \/ halted'[s] /\ pc'[s] = "idle" /\ refused'[s] = refused[s] \cup {"google"}
  BY <1>1 DEF Transcribed, SttAuthError, Refuses, Halt, Goes, built
<1>3. QED
  BY <1>2 DEF SlotInv, Switched, Refusals, Consent

\* The later stages: their requests need consents of their own.
LEMMA LaterSlot ==
  ASSUME TypeOK, Wired, NEW s \in Slots, SlotInv(s), Translate(s) \/ Speak(s)
  PROVE  SlotInv(s)'
<1>1. DOMAIN pc = Slots /\ DOMAIN halted = Slots /\ DOMAIN asked = Slots
  BY TypeParts DEF TypeFlags, TypeAsked
<1>2. /\ UNCHANGED <<cfg, chain, fell, isLocal, source, refused>> /\ pc[s] \in {"mt", "tts"}
      /\ pc'[s] # "stt" /\ (halted'[s] = halted[s] \/ (halted'[s] /\ pc'[s] = "idle"))
  BY <1>1 DEF Translate, Speak, Halt, Goes, built
<1>3. \/ \E pair : asked'[s] = Request("mt", MtAsked(s, pair), Direct(pair))
      \/ asked'[s] = Request("tts", tts[s], FALSE)
  BY <1>1 DEF Translate, Speak
<1>4. Consent(s)'
  <2>1. ASSUME NEW pair, asked'[s] = Request("mt", MtAsked(s, pair), Direct(pair))
        PROVE  Consent(s)'
    <3>1. /\ asked'[s].stage = "mt" /\ asked'[s].who = MtAsked(s, pair)
          /\ asked'[s].direct = Direct(pair)
      BY <2>1 DEF Request
    <3>2. MtOK(s, mt[s])
      BY DEF Wired
    <3>3. QED
      BY <1>2, <3>1, <3>2, MtTarget DEF Consent
  <2>2. CASE asked'[s] = Request("tts", tts[s], FALSE)
    BY <1>2, <2>2 DEF Wired, Consent, Request
  <2>3. QED
    BY <1>3, <2>1, <2>2
<1>5. QED
  BY <1>2, <1>4 DEF SlotInv, Switched, Refusals

LEMMA TaskSlot ==
  ASSUME TypeOK, Wired, Started, \A t \in Slots : SlotInv(t), NEW s \in Slots, Task(s)
  PROVE  \A t \in Slots : SlotInv(t)'
<1> TAKE t \in Slots
<1>1. CASE t # s
  BY <1>1, TaskFrame DEF Mine, built, SlotInv, Switched, Refusals, Consent
<1>2. CASE t = s
  BY <1>2, AskSlot, UnavailableSlot, AnswerSlot, LaterSlot DEF Task
<1>3. QED
  BY <1>1, <1>2

-----------------------------------------------------------------------------
(* Types are kept.                                                         *)

LEMMA MainTypes ==
  ASSUME TypeOK, Started, Wired, Main
  PROVE  TypeOK'
<1>1. TypeMain' /\ TypeShown' /\ TypeAsked'
  BY ZenonT(60), TypeParts DEF TypeMain, TypeShown, TypeAsked, Main, CaptureFails, CaptureOpens, GiveUp, BuildSttA,
     BuildMtA, BuildTtsA, BuildB, taskVars, shownVars, userVars, Slots
<1>2. TypeBuilt'
  <2> USE TypeParts, ChainBuilt, MtBuilt, TtsBuilt DEF TypeBuilt, ChainOK
  <2>1. CASE CaptureFails \/ CaptureOpens
    BY <2>1 DEF CaptureFails, CaptureOpens, GiveUp, built
  <2>2. CASE BuildSttA
    BY ZenonT(60), <2>2 DEF BuildSttA, GiveUp, built, Slots
  <2>3. CASE BuildMtA
    BY ZenonT(60), <2>3 DEF BuildMtA, GiveUp, built, Slots
  <2>4. CASE BuildTtsA
    BY ZenonT(60), <2>4 DEF BuildTtsA, GiveUp, built, Slots
  <2>5. CASE BuildB
    <3>1. CASE UNCHANGED <<chain, mt, tts>>
      BY <3>1
    <3>2. ASSUME NEW l \in BOOLEAN, NEW m \in BOOLEAN, BothBuilt(SttChain("B", l), MtProvider("B", m)),
                 chain' = [chain EXCEPT !["B"] = SttChain("B", l)],
                 mt' = [mt EXCEPT !["B"] = MtProvider("B", m)],
                 tts' = [tts EXCEPT !["B"] = "disabled"]
          PROVE  TypeBuilt'
      <4>1. SttChain("B", l) \in Chains
        BY <3>2 DEF BothBuilt, Slots
      <4>2. MtProvider("B", m) \in {"google", "routed", "routed to cloud", "llm"}
        BY <3>2 DEF BothBuilt, Slots
      <4>3. QED
        BY <3>2, <4>1, <4>2
    <3>3. QED
      BY <2>5, <3>1, <3>2 DEF BuildB, built
  <2>6. QED
    BY <2>1, <2>2, <2>3, <2>4, <2>5 DEF Main
<1>3. TypeFlags'
  <2>1. TypeFlags
    BY TypeParts
  <2>2. UNCHANGED <<pc, fell, halted, err, refused>>
    BY DEF Main, CaptureFails, CaptureOpens, GiveUp, BuildSttA, BuildMtA, BuildTtsA, BuildB, taskVars
  <2>3. \/ UNCHANGED <<isLocal, source>>
        \/ \E s \in Slots : \E c : ShowChain(s, c)
    BY DEF Main, CaptureFails, CaptureOpens, GiveUp, BuildSttA, BuildMtA, BuildTtsA, BuildB,
           taskVars, Slots
  <2>4. /\ isLocal' \in [Slots -> BOOLEAN]
        /\ source' \in [Slots -> {"local", "google-configured", "google-fallback"}]
    BY <2>1, <2>3 DEF TypeFlags, ShowChain, InitialIsLocal, InitialSource
  <2>5. QED
    BY <2>1, <2>2, <2>4 DEF TypeFlags
<1>4. QED
  BY <1>1, <1>2, <1>3 DEF TypeOK, TypeMain, TypeBuilt, TypeAsked, TypeFlags, TypeShown

LEMMA TaskTypes ==
  ASSUME TypeOK, Wired, Started, NEW s \in Slots, SlotInv(s), Task(s)
  PROVE  TypeOK'
<1>1. TypeMain' /\ TypeBuilt' /\ TypeShown'
  BY TypeParts, TaskFrame DEF TypeMain, TypeBuilt, TypeShown, mainVars, built, shownVars, userVars
<1>2. TypeFlags'
  <2>1. TypeFlags
    BY TypeParts
  <2> USE <2>1 DEF TypeFlags
  <2>2. CASE Ask(s)
    BY <2>2 DEF Ask, AskFallback, FallOver
  <2>3. CASE Transcribed(s)
    BY <2>3 DEF Transcribed, Goes
  <2>4. CASE SttAuthError(s)
    BY <2>4 DEF SttAuthError, Refuses, Halt, Goes
  <2>5. CASE ModelUnavailable(s)
    BY <2>5 DEF ModelUnavailable, Refuses, Halt, Goes, FallOver, AskFallback
  <2>6. CASE Translate(s)
    BY <2>6 DEF Translate, Halt, Goes
  <2>7. CASE Speak(s)
    BY <2>7 DEF Speak, Halt, Goes
  <2>8. QED
    BY <2>2, <2>3, <2>4, <2>5, <2>6, <2>7 DEF Task
<1>3. TypeAsked'
  <2>1. chain[s] \in Chains
    BY TaskIsUp DEF Wired, ChainOK
  <2>2. tts[s] \in {None, "google", "supertonic", "disabled"} /\ MtOK(s, mt[s])
    BY TypeParts DEF TypeBuilt, Wired
  <2>3. asked' = asked \/ \E stage \in {"stt", "mt", "tts"}, d \in BOOLEAN,
           who \in {None, "google", "whisper", "opus", "llm", "supertonic", "disabled"} :
             asked' = [asked EXCEPT ![s] = Request(stage, who, d)]
    BY ZenonT(60), <2>1, <2>2, MtTarget DEF Task, Ask, AskFallback, FallOver, Transcribed, SttAuthError,
       ModelUnavailable, Translate, Speak, Chains, Direct, None
  <2>4. QED
    BY <2>3, TypeParts DEF TypeAsked, Request
<1>4. QED
  BY <1>1, <1>2, <1>3 DEF TypeOK, TypeMain, TypeBuilt, TypeAsked, TypeFlags, TypeShown

-----------------------------------------------------------------------------
(* The background tasks and the user touch neither wiring nor requests.    *)

Screen == Aggregate \/ ToggleTts \/ ChangeLanguages \/ \E s \in Slots : CopyLabel(s)

LEMMA ScreenFrame ==
  ASSUME Screen \/ UNCHANGED vars
  PROVE  UNCHANGED <<cfg, build, step, up, chain, mt, tts, pc, asked, fell, isLocal, source, halted, refused>>
BY DEF Screen, Aggregate, ToggleTts, ChangeLanguages, CopyLabel, vars, mainVars, built, taskVars

LEMMA ScreenTypes ==
  ASSUME TypeOK, Screen
  PROVE  TypeOK'
<1>1. TypeMain' /\ TypeBuilt' /\ TypeAsked' /\ TypeFlags'
  <2>1. err' = err
    BY DEF Screen, Aggregate, ToggleTts, ChangeLanguages, CopyLabel, taskVars
  <2>2. TypeMain' /\ TypeBuilt' /\ TypeAsked'
    BY TypeParts, ScreenFrame DEF TypeMain, TypeBuilt, TypeAsked
  <2>3. TypeFlags'
    BY <2>1, TypeParts, ScreenFrame DEF TypeFlags
  <2>4. QED
    BY <2>2, <2>3
<1>2. TypeShown'
  <2>1. TypeShown /\ TypeFlags
    BY TypeParts
  <2>2. CASE Aggregate
    BY <2>1, <2>2 DEF TypeShown, TypeFlags, Aggregate, AggregateHalt, userVars, Slots
  <2>3. CASE ToggleTts
    BY <2>1, <2>3 DEF TypeShown, ToggleTts, shownVars
  <2>4. CASE ChangeLanguages
    BY <2>1, <2>4 DEF TypeShown, ChangeLanguages, shownVars
  <2>5. ASSUME NEW s \in Slots, CopyLabel(s) PROVE TypeShown'
    BY <2>1, <2>5 DEF TypeShown, CopyLabel, SlotStatus, userVars
  <2>6. QED
    BY <2>2, <2>3, <2>4, <2>5 DEF Screen
<1>3. QED
  BY <1>1, <1>2 DEF TypeOK, TypeMain, TypeBuilt, TypeAsked, TypeFlags, TypeShown

LEMMA ScreenRest ==
  ASSUME Wired, Started, \A s \in Slots : SlotInv(s), Screen \/ UNCHANGED vars
  PROVE  Wired' /\ Started' /\ \A s \in Slots : SlotInv(s)'
<1>1. Wired'
  BY ZenonT(60), ScreenFrame DEF Wired, ChainOK, MtOK, Fatal
<1>2. Started'
  BY ScreenFrame DEF Started, Quiet
<1>3. \A s \in Slots : SlotInv(s)'
  BY ScreenFrame DEF SlotInv, Switched, Refusals, Consent
<1>4. QED
  BY <1>1, <1>2, <1>3

-----------------------------------------------------------------------------
(* The theorems.                                                           *)

LEMMA InitIInv == Init => IInv
<1> SUFFICES ASSUME Init PROVE IInv
  OBVIOUS
<1>1. cfg \in ConfigType
  BY ConfigsAssumption DEF ConfigsAssumption, Init
<1>2. /\ cfg.ttsEnabled \in BOOLEAN /\ cfg.target["A"] \in Languages
      /\ \A s \in Slots : (cfg.stt[s] = "local") \in BOOLEAN
  BY <1>1 DEF ConfigType, Slots
<1>3. TypeOK
  BY <1>2 DEF Init, TypeOK, Request, None
<1>4. Wired /\ Started
  BY DEF Init, Wired, Started, Quiet, MtOK, Request, None
<1>5. \A s \in Slots : SlotInv(s)
  BY DEF Init, SlotInv, Switched, Refusals, Consent, Request, None
<1>6. QED
  BY <1>3, <1>4, <1>5 DEF IInv

LEMMA IInvStep == IInv /\ [Next]_vars => IInv'
<1> SUFFICES ASSUME IInv, [Next]_vars PROVE IInv'
  OBVIOUS
<1> USE DEF IInv
<1>1. CASE Main
  BY <1>1, MainTypes, MainWired, MainStarted, MainSlot
<1>2. ASSUME NEW s \in Slots, Task(s) PROVE IInv'
  BY <1>2, TaskTypes, TaskWired, TaskStarted, TaskSlot
<1>3. CASE Screen
  BY <1>3, ScreenTypes, ScreenRest
<1>4. CASE UNCHANGED vars
  <2>1. TypeOK'
    BY <1>4 DEF vars, mainVars, built, taskVars, shownVars, userVars, TypeOK
  <2>2. QED
    BY <1>4, <2>1, ScreenRest
<1>5. QED
  BY <1>1, <1>2, <1>3, <1>4 DEF Next, Screen

\* The order of the start, the agreement of what is built with the configuration and the
\* three facts of a slot together are kept by every step (main.rs, fallback.rs).
THEOREM Invariance == Spec => []IInv
BY InitIInv, IInvStep, PTL DEF Spec

\* Every variable stays in its set, whatever the configurations are.
THEOREM TypeCorrect == Spec => []TypeOK
<1>1. IInv => TypeOK
  BY DEF IInv
<1>2. QED
  BY Invariance, <1>1, PTL

\* No provider, key, build or order of failures sends speech or text to Google
\* without the consent the configuration asks for (runtime_providers.rs, fallback.rs,
\* providers/mt/router.rs).
THEOREM Consented == Spec => []CloudOnlyByConsent
<1>1. IInv => CloudOnlyByConsent
  BY DEF IInv, SlotInv, Consent, CloudOnlyByConsent
<1>2. QED
  BY Invariance, <1>1, PTL

\* A provider that refused for good is not asked again by that slot (fallback.rs):
\* behind the switch only Google is asked, and Google's refusal halts the slot.
THEOREM NotAskedAgain == Spec => []RefusedIsNotAskedAgain
<1>1. IInv => RefusedIsNotAskedAgain
  <2> SUFFICES ASSUME IInv, NEW s \in Slots, pc[s] = "stt" PROVE asked[s].who \notin refused[s]
    BY DEF RefusedIsNotAskedAgain
  <2>1. ~halted[s] /\ "google" \notin refused[s]
    BY DEF IInv, SlotInv, Refusals
  <2>2. "whisper" \in refused[s] => asked[s].who = "google"
    BY <2>1 DEF IInv, SlotInv, Refusals, Switched
  <2>3. refused[s] \subseteq {"google", "whisper"}
    BY DEF IInv, TypeOK
  <2>4. QED
    BY <2>1, <2>2, <2>3
<1>2. QED
  BY Invariance, <1>1, PTL

\* The two flags the CPU gate and the status line read tell who is being asked
\* (call_fallback, initial_stt_source, initial_provider_is_local).
THEOREM FlagsTell == Spec => []FlagsTellWhoIsAsked
<1>1. IInv => FlagsTellWhoIsAsked
  <2> SUFFICES ASSUME IInv, NEW s \in Slots, pc[s] = "stt"
               PROVE  /\ isLocal[s] = (asked[s].who = "whisper")
                      /\ source[s] = IF asked[s].who = "whisper" THEN "local"
                                     ELSE IF cfg.stt[s] = "google" THEN "google-configured"
                                     ELSE "google-fallback"
    BY DEF FlagsTellWhoIsAsked
  <2>1. s \in up
    BY DEF IInv, Started, Quiet
  <2>2. chain[s] # NoChain /\ ChainOK(s, chain[s]) /\ isLocal[s] \in BOOLEAN
    BY <2>1 DEF IInv, Started, Wired, TypeOK
  <2>3. CASE fell[s]
    BY <2>2, <2>3 DEF IInv, SlotInv, Switched, ChainOK, None
  <2>4. CASE ~fell[s]
    BY <2>2, <2>4 DEF IInv, SlotInv, Switched, ChainOK, Chains, InitialSource, None
  <2>5. QED
    BY <2>3, <2>4
<1>2. QED
  BY Invariance, <1>1, PTL

-----------------------------------------------------------------------------
(* Onboarding: the invariant.                                              *)

\* The licences a wizard can ask for, in their order.
Lists == {<<"stt">>, <<"mt">>, <<"stt", "mt">>}

WizardType ==
  [step : {"branch", "gate", "survey", "license", "key", "confirm", "cancel"},
   branch : {"local", "fallback", "google"}, models : Lists, at : {1, 2},
   accepted : SUBSET Models, key : BOOLEAN, shown : Presets, preset : Presets,
   review : BOOLEAN]
ChosenType == chosen \in [branch : {"local", "fallback", "google"}, preset : Presets]

\* What a step of a wizard w says of the steps before it.
WizardOK(w) ==
  /\ w \in WizardType
  /\ w.at \in 1 .. Len(w.models)
  /\ IF w.review THEN w.step = "license" ELSE w.models = ModelList
  /\ w.step = "license" =>
       /\ \A j \in 1 .. w.at - 1 : w.models[j] \in w.accepted
       /\ w.review \/ UsesLocal(w.branch)
  /\ w.step \in {"key", "confirm"} /\ UsesLocal(w.branch) => w.accepted = Models

\* What was confirmed is what the wizard w goes by.
Screens(w, c) ==
  ~w.review =>
    /\ w.step \in {"gate", "survey", "license", "key", "confirm"} => c.branch = w.branch
    /\ w.step \in {"license", "key", "confirm"} => c.preset = w.preset
ScreensInv == place = "wizard" => Screens(wiz, chosen)

\* What is on record, or about to be, was accepted or is an exception with a name.
OnRecord == \A m \in Models : \A v \in consents[m] : <<m, v>> \in granted \cup unasked
ToRecord ==
  place = "record" =>
    \A i \in 1 .. Len(todo) : <<todo[i], version[todo[i]]>> \in granted \cup unasked
Covered ==
  place \in {"starting", "running"} /\ ~skip => \A m \in boot.local : version[m] \in consents[m]

\* The configuration to be saved.
Patched ==
  patch # Missing =>
    /\ place = "record"
    /\ patch.dual = FALSE
    /\ patch.local = (IF UsesLocal(chosen.branch) THEN Models ELSE {})
    /\ NeedsKey(chosen.branch) => patch.key
    /\ patch.preset = chosen.preset
    /\ \A m \in patch.local :
         /\ <<m, version[m]>> \in granted
         /\ version[m] \in consents[m] \/ \E i \in 1 .. Len(todo) : todo[i] = m

Downloading == place = "download" => todo # <<>>

Types == OnboardingTypeOK /\ ChosenType /\ Downloading
SetupInv == Types /\ WizardOK(wiz) /\ ScreensInv /\ OnRecord /\ ToRecord /\ Covered /\ Patched

-----------------------------------------------------------------------------
LEMMA SomeFacts ==
  ASSUME NEW S \in SUBSET Models
  PROVE  /\ Some(S) \in Seq(Models)
         /\ \A m \in Models : m \in S <=> \E i \in 1 .. Len(Some(S)) : Some(S)[i] = m
         /\ \A i \in 1 .. Len(Some(S)) : Some(S)[i] \in S
         /\ S # {} => Some(S) \in Lists
<1>1. S \in {{}, {"stt"}, {"mt"}, {"stt", "mt"}}
  BY DEF Models
<1>2. CASE S = {}
  <2>1. Some(S) = <<>>
    BY <1>2 DEF Some
  <2>2. Some(S) \in Seq(Models) /\ Len(Some(S)) = 0
    BY <2>1
  <2> QED BY <1>2, <2>2
<1>3. CASE S = {"stt"}
  <2>1. Some(S) = <<"stt">>
    BY <1>3 DEF Some
  <2>2. Some(S) \in Seq(Models) /\ Len(Some(S)) = 1 /\ Some(S)[1] = "stt"
    BY <2>1 DEF Models
  <2> QED BY <1>3, <2>1, <2>2 DEF Lists
<1>4. CASE S = {"mt"}
  <2>1. Some(S) = <<"mt">>
    BY <1>4 DEF Some
  <2>2. Some(S) \in Seq(Models) /\ Len(Some(S)) = 1 /\ Some(S)[1] = "mt"
    BY <2>1 DEF Models
  <2> QED BY <1>4, <2>1, <2>2 DEF Lists
<1>5. CASE S = {"stt", "mt"}
  <2>1. Some(S) = <<"stt", "mt">>
    <3>1. Some(S) = <<"stt">> \o <<"mt">>
      BY <1>5 DEF Some
    <3>2. /\ <<"stt">> \o <<"mt">> \in Seq({"stt", "mt"}) /\ <<"stt", "mt">> \in Seq({"stt", "mt"})
          /\ Len(<<"stt">> \o <<"mt">>) = 2 /\ Len(<<"stt", "mt">>) = 2
      <4>1. <<"stt">> \in Seq({"stt", "mt"}) /\ <<"mt">> \in Seq({"stt", "mt"})
            /\ <<"stt", "mt">> \in Seq({"stt", "mt"})
        OBVIOUS
      <4> QED BY <4>1
    <3>3. \A i \in 1 .. 2 : (<<"stt">> \o <<"mt">>)[i] = <<"stt", "mt">>[i]
      OBVIOUS
    <3> QED BY <3>1, <3>2, <3>3, SeqEqual
  <2>2. /\ Some(S) \in Seq(Models) /\ Len(Some(S)) = 2
        /\ Some(S)[1] = "stt" /\ Some(S)[2] = "mt"
    <3>1. <<"stt", "mt">> \in Seq(Models)
      BY DEF Models
    <3> QED BY <2>1, <3>1
  <2>3. Some(S) \in Lists
    BY <2>1 DEF Lists
  <2>4. \A m \in Models : \E i \in 1 .. Len(Some(S)) : Some(S)[i] = m
    BY <2>2 DEF Models
  <2>5. \A i \in 1 .. Len(Some(S)) : Some(S)[i] \in S
    BY <2>2, <1>5
  <2>6. S = Models
    BY <1>5 DEF Models
  <2> QED BY <2>6, <2>2, <2>3, <2>4, <2>5
<1> QED BY <1>1, <1>2, <1>3, <1>4, <1>5

LEMMA NewWizardFacts ==
  WizardOK(NewWizard) /\ NewWizard.step = "branch" /\ ~NewWizard.review
<1> DEFINE w == NewWizard
<1>1. ModelList \in Lists /\ Len(ModelList) = 2
  BY DEF Lists, ModelList
<1>2. /\ w.step = "branch" /\ w.models = ModelList /\ w.at = 1 /\ w.review = FALSE
      /\ w \in WizardType
  BY OnboardingAssumption, <1>1 DEF NewWizard, WizardType
<1> HIDE DEF w
<1>3. WizardOK(w)
  <2>1. w.at \in 1 .. Len(w.models)
    <3>1. Len(w.models) = 2
      BY <1>1, <1>2, Zenon
    <3>2. w.at = 1
      BY <1>2
    <3> QED BY <3>1, <3>2
  <2>2. IF w.review THEN w.step = "license" ELSE w.models = ModelList
    BY <1>2
  <2>3. w.step \notin {"license", "key", "confirm"}
    BY <1>2
  <2> QED BY <1>2, <2>1, <2>2, <2>3 DEF WizardOK
<1> QED BY <1>2, <1>3 DEF w

LEMMA SetupInit == OnboardingInit => SetupInv
<1> SUFFICES ASSUME OnboardingInit PROVE SetupInv
  OBVIOUS
<1>1. OnboardingTypeOK
  <2>1. \A n \in {0, 1} : [m \in Models |-> n] \in [Models -> Nat]
    OBVIOUS
  <2>2. [m \in Models |-> {}] \in [Models -> SUBSET Nat]
    OBVIOUS
  <2>3. <<>> \in Seq(Models)
    OBVIOUS
  <2>4. gate \in BOOLEAN
    BY OnboardingAssumption DEF OnboardingInit
  <2>5. file \in Config \cup {Missing, Invalid} /\ boot \in Config /\ memory \in Config
    BY OnboardingAssumption DEF OnboardingInit
  <2>6. consents \in [Models -> SUBSET Nat] /\ version \in [Models -> Nat] /\ present \subseteq Models
    BY <2>1, <2>2 DEF OnboardingInit
  <2>7. /\ place = "off" /\ skip = FALSE /\ patch = Missing /\ todo = <<>>
        /\ granted = {} /\ unasked = {} /\ used = {}
    BY DEF OnboardingInit
  <2>8. granted \subseteq Models \X Nat /\ unasked \subseteq Models \X Nat
    BY <2>7
  <2>9. /\ skip \in BOOLEAN /\ patch \in Config \cup {Missing} /\ todo \in Seq(Models)
        /\ used \subseteq Models
    BY <2>7, <2>3
  <2>10. place \in {"off", "models", "download", "wizard", "record", "idle", "starting", "running"}
    BY <2>7
  <2> QED BY <2>4, <2>5, <2>6, <2>8, <2>9, <2>10 DEF OnboardingTypeOK
<1>2. WizardOK(wiz)
  BY NewWizardFacts DEF OnboardingInit
<1>3. ChosenType
  BY OnboardingAssumption DEF OnboardingInit, NothingChosen, ChosenType
<1>4. ScreensInv /\ OnRecord /\ ToRecord /\ Covered /\ Patched
  BY DEF OnboardingInit, ScreensInv, OnRecord, ToRecord, Covered, Patched
<1>5. Downloading
  BY DEF OnboardingInit, Downloading
<1> QED BY <1>1, <1>2, <1>3, <1>4, <1>5 DEF SetupInv, Types

-----------------------------------------------------------------------------
(* The steps of the wizard.                                                *)

Turning ==
  \/ PickBranch \/ BranchTaken \/ PastGate \/ PickPreset \/ SurveyTaken
  \/ LicenseAccepted \/ KeyTyped \/ KeyErased \/ KeyTaken \/ KeyMissing \/ Back

LEMMA TurningFrame ==
  Turning => /\ place = "wizard"
             /\ UNCHANGED <<gate, file, consents, present, version, place, skip, boot, used, memory,
                            todo, patch, granted, unasked, starts, edits, upgrades>>
BY DEF Turning, PickBranch, BranchTaken, PastGate, PickPreset, SurveyTaken,
  LicenseAccepted, KeyTyped, KeyErased, KeyTaken, KeyMissing, Back, At, Turn,
  Stay, diskVars, runVars, boundVars

LEMMA ListFacts ==
  ASSUME WizardOK(wiz)
  PROVE  /\ Len(wiz.models) \in {1, 2}
         /\ \A i \in 1 .. Len(wiz.models) : wiz.models[i] \in Models
         /\ \A i, j \in 1 .. Len(wiz.models) : wiz.models[i] = wiz.models[j] => i = j
         /\ wiz.models = ModelList =>
              Len(wiz.models) = 2 /\ wiz.models[1] = "stt" /\ wiz.models[2] = "mt"
<1>1. wiz.models \in Lists
  BY DEF WizardOK, WizardType
<1>2. CASE wiz.models = <<"stt">>
  BY <1>2 DEF Models, ModelList
<1>3. CASE wiz.models = <<"mt">>
  BY <1>3 DEF Models, ModelList
<1>4. CASE wiz.models = <<"stt", "mt">>
  BY <1>4 DEF Models, ModelList
<1> QED BY <1>1, <1>2, <1>3, <1>4 DEF Lists

LEMMA TurningKeeps ==
  ASSUME WizardOK(wiz), Screens(wiz, chosen), ChosenType, Turning
  PROVE  WizardOK(wiz') /\ Screens(wiz', chosen') /\ ChosenType'
<1> USE DEF At, Turn, Screens, ChosenType, UsesLocal, NeedsKey
<1>1. CASE PickBranch
  BY <1>1 DEF PickBranch, WizardOK, WizardType
<1>2. CASE BranchTaken
  BY ZenonT(60), OnboardingAssumption, <1>2 DEF BranchTaken, WizardOK, WizardType, ToSurvey
<1>3. CASE PastGate
  BY ZenonT(60), OnboardingAssumption, <1>3 DEF PastGate, WizardOK, WizardType, ToSurvey
<1>4. CASE PickPreset
  BY <1>4 DEF PickPreset, WizardOK, WizardType
<1>5. CASE SurveyTaken
  <2> DEFINE w == [wiz EXCEPT !.preset = wiz.shown]
  <2>1. /\ wiz' = IF wiz.branch # "google" THEN [w EXCEPT !.step = "license", !.at = 1]
                  ELSE [w EXCEPT !.step = "key"]
        /\ chosen' = [chosen EXCEPT !.preset = wiz.shown] /\ wiz.step = "survey"
    <3>1. w \in WizardType /\ w.branch = wiz.branch
      BY DEF WizardOK, WizardType
    <3>2. wiz' = IF w.branch # "google" THEN ToLicense(w, 1) ELSE PastLicenses(w)
      BY <1>5 DEF SurveyTaken
    <3>3. w.branch = "google" => PastLicenses(w) = [w EXCEPT !.step = "key"]
      BY DEF PastLicenses
    <3>4. ToLicense(w, 1) = [w EXCEPT !.step = "license", !.at = 1]
      BY DEF ToLicense
    <3> QED BY <1>5, <3>1, <3>2, <3>3, <3>4 DEF SurveyTaken
  <2>2. wiz' \in WizardType /\ chosen' \in [branch : {"local", "fallback", "google"}, preset : Presets]
    BY <2>1 DEF WizardOK, WizardType
  <2>3. ~wiz.review /\ wiz.models = ModelList /\ ~wiz'.review /\ wiz'.models = ModelList
    BY <2>1 DEF WizardOK, WizardType
  <2>4. wiz'.at \in 1 .. Len(wiz'.models)
    BY <2>1, <2>3, ListFacts DEF WizardOK, WizardType
  <2>5. wiz'.step = "license" => \A j \in 1 .. wiz'.at - 1 : wiz'.models[j] \in wiz'.accepted
    BY <2>1 DEF WizardOK, WizardType
  <2>6. /\ wiz'.branch = wiz.branch /\ wiz'.preset = wiz.shown /\ chosen'.preset = wiz.shown
        /\ chosen'.branch = wiz.branch /\ wiz'.step \in {"license", "key"}
        /\ wiz'.step = "license" <=> wiz.branch # "google"
    BY <2>1, <2>3 DEF WizardOK, WizardType
  <2> QED BY <2>2, <2>3, <2>4, <2>5, <2>6 DEF WizardOK
<1>6. CASE LicenseAccepted
  <2> DEFINE w == Accept(wiz)
  <2>1. /\ wiz.step = "license" /\ chosen' = chosen /\ (wiz.review => wiz.at # Len(wiz.models))
    BY <1>6 DEF LicenseAccepted, LastLicense
  <2>2. /\ w \in WizardType /\ \A j \in 1 .. wiz.at : w.models[j] \in w.accepted
        /\ w.at = wiz.at /\ w.models = wiz.models /\ w.review = wiz.review /\ w.step = "license"
        /\ w.branch = wiz.branch /\ w.preset = wiz.preset
    <3>1. w = [wiz EXCEPT !.accepted = wiz.accepted \cup {wiz.models[wiz.at]}]
      BY DEF Accept
    <3>2. wiz.at \in 1 .. Len(wiz.models)
      BY DEF WizardOK
    <3>3. /\ w \in WizardType /\ w.accepted = wiz.accepted \cup {wiz.models[wiz.at]}
          /\ w.at = wiz.at /\ w.models = wiz.models /\ w.review = wiz.review /\ w.step = "license"
          /\ w.branch = wiz.branch /\ w.preset = wiz.preset
      BY <2>1, <3>1, <3>2, ListFacts DEF WizardOK, WizardType
    <3>4. \A j \in 1 .. wiz.at - 1 : wiz.models[j] \in wiz.accepted
      BY <2>1 DEF WizardOK
    <3>5. wiz.at \in {1, 2}
      BY DEF WizardOK, WizardType
    <3>6. ASSUME NEW j \in 1 .. wiz.at PROVE wiz.models[j] \in w.accepted
      <4>1. j = wiz.at \/ j \in 1 .. wiz.at - 1
        BY <3>5
      <4> QED BY <4>1, <3>3, <3>4
    <3> HIDE DEF w
    <3> QED BY <3>3, <3>6
  <2> HIDE DEF w
  <2>3. CASE wiz.at = Len(wiz.models)
    <3>1. ~wiz.review /\ wiz.models = ModelList /\ Len(wiz.models) = 2 /\ wiz.branch # "google"
      <4>1. ~wiz.review
        BY <2>1, <2>3
      <4> QED BY <2>1, <4>1, ListFacts DEF WizardOK
    <3>2. wiz' = [w EXCEPT !.step = IF w.branch # "google" /\ w.branch = "local" THEN "confirm" ELSE "key"]
      <4>1. wiz' = PastLicenses(w)
        BY <1>6, <2>3 DEF LicenseAccepted, LastLicense, w
      <4> QED BY <2>2, <4>1, <3>1 DEF PastLicenses, WizardType
    <3>3. w.accepted = Models
      BY <2>2, <2>3, <3>1, ListFacts DEF WizardType, Models
    <3>4. /\ wiz' \in WizardType /\ wiz'.accepted = Models /\ wiz'.at = 2 /\ wiz'.models = ModelList
          /\ wiz'.branch = wiz.branch /\ wiz'.preset = wiz.preset /\ ~wiz'.review
          /\ wiz'.step \in {"key", "confirm"}
      BY <2>2, <2>3, <3>2, <3>1, <3>3 DEF WizardType
    <3>5. wiz'.at \in 1 .. Len(wiz'.models)
      <4>1. Len(wiz'.models) = 2
        BY <3>1, <3>4, Zenon
      <4> QED BY <4>1, <3>4
    <3>6. wiz'.step # "license"
      BY <3>4
    <3>7. WizardOK(wiz')
      BY <3>4, <3>5, <3>6 DEF WizardOK
    <3> QED BY <2>1, <3>1, <3>4, <3>7
  <2>4. CASE wiz.at # Len(wiz.models)
    <3>1. wiz' = [w EXCEPT !.step = "license", !.at = wiz.at + 1]
      BY <1>6, <2>4 DEF LicenseAccepted, LastLicense, ToLicense, w
    <3>2. wiz.at = 1 /\ Len(wiz.models) = 2
      BY <2>4, ListFacts DEF WizardOK, WizardType
    <3>3. /\ wiz' \in WizardType /\ wiz'.accepted = w.accepted /\ wiz'.at = 2
          /\ wiz'.models = wiz.models /\ wiz'.step = "license" /\ wiz'.review = wiz.review
          /\ wiz'.branch = wiz.branch /\ wiz'.preset = wiz.preset
      <4> DEFINE n == wiz.at + 1
      <4>1. n = 2
        BY <3>2
      <4> HIDE DEF n
      <4>2. wiz' = [w EXCEPT !.step = "license", !.at = n]
        BY <3>1 DEF n
      <4> QED BY <2>2, <4>1, <4>2 DEF WizardType
    <3>4. wiz'.at \in 1 .. Len(wiz'.models)
      <4>1. Len(wiz'.models) = 2
        BY <3>2, <3>3, Zenon
      <4> QED BY <3>3, <4>1
    <3>5. \A j \in 1 .. wiz'.at - 1 : wiz'.models[j] \in wiz'.accepted
      BY <2>2, <3>2, <3>3
    <3>6. IF wiz'.review THEN wiz'.step = "license" ELSE wiz'.models = ModelList
      BY <3>3 DEF WizardOK
    <3>7. wiz.review \/ wiz.branch # "google"
      BY <2>1 DEF WizardOK
    <3>8. WizardOK(wiz')
      BY <3>3, <3>4, <3>5, <3>6, <3>7 DEF WizardOK
    <3> QED BY <2>1, <3>3, <3>8
  <2> QED BY <2>3, <2>4
<1>7. CASE KeyTyped
  BY <1>7 DEF KeyTyped, WizardOK, WizardType
<1>8. CASE KeyErased
  BY <1>8 DEF KeyErased, WizardOK, WizardType
<1>9. CASE KeyTaken
  BY <1>9 DEF KeyTaken, WizardOK, WizardType
<1>10. CASE KeyMissing
  BY <1>10 DEF KeyMissing, WizardOK, WizardType
<1>11. CASE Back
  <2>1. chosen' = chosen
    BY <1>11 DEF Back
  <2>2. ASSUME wiz' = [wiz EXCEPT !.step = "cancel"] \/ wiz' = [wiz EXCEPT !.step = "branch"],
               ~wiz.review
        PROVE  WizardOK(wiz') /\ Screens(wiz', chosen)
    BY <2>2 DEF WizardOK, WizardType
  <2>3. ASSUME wiz' = [wiz EXCEPT !.step = "gate"], ~wiz.review, wiz.step = "survey"
        PROVE  WizardOK(wiz') /\ Screens(wiz', chosen)
    BY <2>3 DEF WizardOK, WizardType
  <2>4. ASSUME wiz' = [wiz EXCEPT !.step = "key"], ~wiz.review, wiz.step = "confirm"
        PROVE  WizardOK(wiz') /\ Screens(wiz', chosen)
    BY <2>4 DEF WizardOK, WizardType
  <2>5. ASSUME NEW i \in 1 .. Len(wiz.models), wiz' = BackTo(i),
               \A j \in 1 .. i - 1 : wiz.models[j] \in wiz.accepted,
               wiz.review \/ wiz.branch # "google", wiz.step \in {"license", "key", "confirm"}
        PROVE  WizardOK(wiz') /\ Screens(wiz', chosen)
    <3>1. wiz' = [wiz EXCEPT !.step = "license", !.at = i, !.accepted = @ \ {wiz.models[i]}]
      BY <2>5 DEF BackTo, ToLicense, WizardOK, WizardType
    <3>2. /\ wiz'.models = wiz.models /\ wiz'.review = wiz.review /\ wiz'.branch = wiz.branch
          /\ wiz'.preset = wiz.preset /\ wiz'.step = "license" /\ wiz'.at = i
          /\ wiz'.accepted = wiz.accepted \ {wiz.models[i]}
      BY <3>1 DEF WizardOK, WizardType
    <3>3. wiz' \in WizardType
      <4>1. i \in {1, 2} /\ wiz \in WizardType
        BY ListFacts DEF WizardOK
      <4>2. wiz.accepted \ {wiz.models[i]} \in SUBSET Models
        BY <4>1 DEF WizardType
      <4> QED BY <3>1, <4>1, <4>2 DEF WizardType
    <3>4. \A j \in 1 .. i - 1 : wiz'.models[j] \in wiz'.accepted
      BY <2>5, <3>2, ListFacts
    <3> QED BY <2>5, <3>2, <3>3, <3>4 DEF WizardOK, WizardType
  <2>6. ASSUME wiz' = BackToLicenses, wiz.step \in {"key", "confirm"}
        PROVE  WizardOK(wiz') /\ Screens(wiz', chosen)
    <3>1. ~wiz.review
      BY <2>6 DEF WizardOK, WizardType
    <3>2. CASE wiz.branch # "google"
      <4>1. Len(wiz.models) \in 1 .. Len(wiz.models) /\ wiz.accepted = Models
        BY <2>6, <3>2, ListFacts DEF WizardOK
      <4>2. wiz' = BackTo(Len(wiz.models))
        BY <2>6, <3>2 DEF BackToLicenses
      <4> QED BY <2>5, <2>6, <3>2, <4>1, <4>2, ListFacts
    <3>3. CASE wiz.branch = "google"
      BY <2>2, <2>6, <3>1, <3>3 DEF BackToLicenses
    <3> QED BY <3>2, <3>3
  <2>7. ASSUME wiz.step = "license", wiz.at > 1, wiz' = BackTo(wiz.at - 1)
        PROVE  WizardOK(wiz') /\ Screens(wiz', chosen)
    <3>1. wiz.at - 1 \in 1 .. Len(wiz.models)
      BY <2>7 DEF WizardOK, WizardType
    <3>2. \A j \in 1 .. (wiz.at - 1) - 1 : wiz.models[j] \in wiz.accepted
      BY <2>7 DEF WizardOK, WizardType
    <3>3. wiz.review \/ wiz.branch # "google"
      BY <2>7 DEF WizardOK
    <3> QED BY <2>5, <2>7, <3>1, <3>2, <3>3
  <2>8. wiz.step # "license" => ~wiz.review
    BY DEF WizardOK, WizardType
  <2> QED BY <1>11, <2>1, <2>2, <2>3, <2>4, <2>6, <2>7, <2>8 DEF Back
<1> QED BY <1>1, <1>2, <1>3, <1>4, <1>5, <1>6, <1>7, <1>8, <1>9, <1>10, <1>11 DEF Turning

-----------------------------------------------------------------------------
(* All steps.                                                              *)

LEMMA PendingFacts ==
  ASSUME OnboardingTypeOK, NEW conf \in Config, NEW unreadable \in SUBSET conf.local
  PROVE  LET pending == Pending(conf, unreadable)
         IN  /\ pending \in SUBSET conf.local /\ conf.local \in SUBSET Models
             /\ pending \in SUBSET Models
             /\ pending = {} => \A m \in conf.local : version[m] \in consents[m]
BY DEF Pending, Config

LEMMA ReviewFacts ==
  ASSUME NEW pending \in SUBSET Models, pending # {}
  PROVE  WizardOK(Review(pending)) /\ Review(pending).review
<1> DEFINE w == Review(pending)
<1>1. Some(pending) \in Lists
  BY SomeFacts
<1>2. w = [NewWizard EXCEPT !.step = "license", !.models = Some(pending), !.review = TRUE]
  BY DEF Review
<1>3. NewWizard \in WizardType /\ NewWizard.at = 1
  BY NewWizardFacts DEF WizardOK, NewWizard
<1>4. /\ w \in WizardType /\ w.step = "license" /\ w.models = Some(pending) /\ w.review
      /\ w.at = 1
  BY <1>1, <1>2, <1>3 DEF WizardType
<1> HIDE DEF w
<1>5. Len(w.models) \in {1, 2}
  <2>1. w.models = <<"stt">> \/ w.models = <<"mt">> \/ w.models = <<"stt", "mt">>
    BY <1>1, <1>4 DEF Lists
  <2> QED BY <2>1
<1>6. w.at \in 1 .. Len(w.models) /\ 1 .. w.at - 1 = {}
  <2>1. w.at \in 1 .. Len(w.models)
    <3> DEFINE n == Len(w.models)
    <3> HIDE DEF n
    <3>1. n \in {1, 2}
      BY <1>5 DEF n
    <3>2. w.at \in 1 .. n
      BY <1>4, <3>1
    <3> QED BY <3>2 DEF n
  <2>2. 1 .. w.at - 1 = {}
    BY <1>4
  <2> QED BY <2>1, <2>2
<1> QED BY <1>4, <1>6 DEF WizardOK, w

LEMMA LicenceFacts ==
  ASSUME OnboardingTypeOK, NEW S \in SUBSET Models
  PROVE  Licences(S) \in SUBSET (Models \X Nat)
BY DEF OnboardingTypeOK, Licences

LEMMA SetupFacts ==
  ASSUME WizardOK(wiz)
  PROVE  Setup \in Config /\ ModelList \in Seq(Models)
<1>1. Setup \in Config
  BY DEF Setup, Config, WizardOK, WizardType, NeedsKey, UsesLocal
<1>2. ModelList \in Seq(Models)
  BY DEF ModelList, Models
<1> QED BY <1>1, <1>2

LEMMA WizardStep ==
  ASSUME SetupInv, [OnboardingNext]_(onboardingVars)
  PROVE  WizardOK(wiz') /\ ChosenType' /\ ScreensInv'
<1> USE DEF SetupInv, Types
<1> DEFINE Goal == WizardOK(wiz') /\ ChosenType' /\ ScreensInv'
<1>1. CASE Turning
  BY <1>1, TurningKeeps, TurningFrame DEF ScreensInv
<1>2. CASE StartSetup
  BY OnboardingAssumption, <1>2, NewWizardFacts DEF StartSetup, Launch, diskVars, ScreensInv, ChosenType,
    NothingChosen, Screens
<1>3. CASE StartRepair
  BY <1>3 DEF StartRepair, Launch, diskVars, ScreensInv, ChosenType
<1>4. CASE StartNormal
  BY <1>4 DEF StartNormal, Launch, diskVars, ScreensInv, ChosenType
<1>5. CASE StartSkipping
  BY <1>5 DEF StartSkipping, Launch, diskVars, ScreensInv, ChosenType
<1>6. CASE Download
  BY <1>6 DEF Download, runVars, historyVars, boundVars, ScreensInv, ChosenType
<1>7. CASE Checked
  <2>1. boot \in Config
    BY DEF OnboardingTypeOK
  <2>2. PICK unreadable \in SUBSET boot.local :
          LET pending == Pending(boot, unreadable)
          IN  IF pending = {} THEN place' = "starting" /\ wiz' = wiz
                              ELSE place' = "wizard" /\ wiz' = Review(pending)
    BY <1>7 DEF Checked
  <2>3. Pending(boot, unreadable) \in SUBSET Models
    BY <2>1, PendingFacts
  <2> QED BY <1>7, <2>2, <2>3, ReviewFacts
    DEF Screens, Checked, historyVars, ScreensInv, ChosenType
<1>8. CASE Cancelled
  BY OnboardingAssumption, <1>8, NewWizardFacts DEF Cancelled, At, diskVars, runVars, boundVars, Close,
    ScreensInv, ChosenType, NothingChosen, Screens
<1>9. CASE Confirmed
  BY <1>9, NewWizardFacts DEF Confirmed, At, diskVars, runVars, boundVars, Close,
    ScreensInv, ChosenType
<1>10. CASE Reviewed
  BY <1>10, NewWizardFacts DEF Reviewed, diskVars, runVars, boundVars, Close,
    ScreensInv, ChosenType
<1>11. CASE Record
  BY <1>11 DEF Record, runVars, historyVars, boundVars, ScreensInv, ChosenType
<1>12. CASE SetupFails
  BY OnboardingAssumption, <1>12 DEF SetupFails, diskVars, runVars, boundVars, ScreensInv, ChosenType,
    NothingChosen
<1>13. CASE ReviewEnds
  BY <1>13 DEF ReviewEnds, diskVars, runVars, historyVars, boundVars, ScreensInv,
    ChosenType
<1>14. CASE Save
  BY OnboardingAssumption, <1>14 DEF Save, runVars, boundVars, ScreensInv, ChosenType, NothingChosen
<1>15. CASE End
  BY OnboardingAssumption, <1>15, NewWizardFacts DEF End, diskVars, boundVars, ScreensInv, ChosenType,
    NothingChosen
<1>16. CASE Edit
  BY <1>16 DEF Edit, runVars, historyVars, ScreensInv, ChosenType
<1>17. CASE Apply
  BY <1>17 DEF Apply, diskVars, runVars, historyVars, boundVars, ScreensInv,
    ChosenType
<1>18. CASE Command
  BY <1>18 DEF Command, runVars, boundVars, ScreensInv, ChosenType
<1>19. ASSUME NEW m \in Models, CheckFinds(m)
     PROVE  Goal
  BY <1>19 DEF CheckFinds, Check, runVars, boundVars, ScreensInv, ChosenType
<1>20. ASSUME NEW m \in Models, CheckMisses(m)
     PROVE  Goal
  BY <1>20 DEF CheckMisses, Check, runVars, boundVars, ScreensInv, ChosenType
<1>21. ASSUME NEW m \in Models, CheckFails(m)
     PROVE  Goal
  BY <1>21 DEF CheckFails, Check, runVars, boundVars, ScreensInv, ChosenType
<1>22. ASSUME NEW m \in Models, Upgrade(m)
     PROVE  Goal
  BY <1>22 DEF Upgrade, diskVars, runVars, historyVars, ScreensInv, ChosenType
<1>23. CASE UNCHANGED onboardingVars
  BY <1>23 DEF onboardingVars, diskVars, runVars, historyVars, boundVars, ScreensInv,
    ChosenType
<1>24. CASE Build \/ BuildFails
  BY <1>24 DEF Build, BuildFails, diskVars, runVars, historyVars, boundVars,
    ScreensInv, ChosenType
<1> QED BY <1>1, <1>2, <1>3, <1>4, <1>5, <1>6, <1>7, <1>8, <1>9, <1>10, <1>11, <1>12, <1>13,
    <1>14, <1>15, <1>16, <1>17, <1>18, <1>19, <1>20, <1>21, <1>22, <1>23, <1>24
    DEF OnboardingNext, Start, Wizard, Outcome, Turning

LEMMA TypeStep ==
  ASSUME SetupInv, [OnboardingNext]_(onboardingVars)
  PROVE  OnboardingTypeOK' /\ Downloading'
<1> USE DEF SetupInv, Types, Downloading
<1> DEFINE Goal == OnboardingTypeOK' /\ Downloading'
<1>1. CASE Turning
  BY <1>1, TurningFrame DEF OnboardingTypeOK
<1>2. CASE StartSetup
  BY OnboardingAssumption, <1>2 DEF StartSetup, Launch, diskVars, OnboardingTypeOK
<1>3. CASE StartRepair
  BY OnboardingAssumption, <1>3 DEF StartRepair, Launch, diskVars, OnboardingTypeOK
<1>4. CASE StartNormal
  <2>1. boot' \in Config /\ boot'.local \in SUBSET Models
    BY OnboardingAssumption, <1>4 DEF StartNormal, Launch, OnboardingTypeOK, Config
  <2>2. todo' \in Seq(Models)
    BY <1>4, <2>1, SomeFacts DEF StartNormal
  <2> QED BY <1>4, <2>1, <2>2 DEF StartNormal, Launch, diskVars, OnboardingTypeOK
<1>5. CASE StartSkipping
  BY OnboardingAssumption, <1>5 DEF StartSkipping, Launch, diskVars, OnboardingTypeOK
<1>6. CASE Download
  <2>1. todo # <<>> /\ todo \in Seq(Models)
    BY <1>6 DEF Download, OnboardingTypeOK
  <2>2. Head(todo) \in Models /\ Tail(todo) \in Seq(Models) /\ <<>> \in Seq(Models)
    BY <2>1
  <2> QED BY <1>6, <2>2 DEF Download, runVars, historyVars, boundVars, OnboardingTypeOK
<1>7. CASE Checked
  BY <1>7 DEF Checked, diskVars, runVars, historyVars, boundVars, OnboardingTypeOK
<1>8. CASE Cancelled
  BY <1>8 DEF Cancelled, At, diskVars, runVars, boundVars, Close, OnboardingTypeOK
<1>9. CASE Confirmed
  <2>1. /\ patch' \in Config /\ todo' \in Seq(Models)
        /\ granted' \in SUBSET (Models \X Nat)
    <3>1. wiz.accepted \in SUBSET Models /\ <<>> \in Seq(Models)
      BY DEF WizardOK, WizardType
    <3>2. granted \in SUBSET (Models \X Nat)
      BY DEF OnboardingTypeOK
    <3> QED BY <1>9, <3>1, <3>2, LicenceFacts, SetupFacts DEF Confirmed
  <2> QED BY <1>9, <2>1
    DEF Confirmed, At, diskVars, runVars, boundVars, Close, OnboardingTypeOK
<1>10. CASE Reviewed
  <2>1. PICK unreadable \in SUBSET memory.local :
          LET pending == Pending(memory, unreadable)
          IN  /\ todo' = Some(pending)
              /\ unasked' = unasked \cup Licences(pending \ Accept(wiz).accepted)
    BY <1>10 DEF Reviewed
  <2> DEFINE pending == Pending(memory, unreadable)
  <2>2. pending \in SUBSET Models
    BY PendingFacts DEF OnboardingTypeOK
  <2> HIDE DEF pending
  <2>3. todo' = Some(pending) /\ unasked' = unasked \cup Licences(pending \ Accept(wiz).accepted)
    BY <2>1 DEF pending
  <2>4. Accept(wiz).accepted \in SUBSET Models
    <3>1. wiz.models[wiz.at] \in Models /\ wiz \in WizardType
      BY ListFacts DEF WizardOK
    <3> QED BY <3>1 DEF Accept, WizardType
  <2>5. Licences(Accept(wiz).accepted) \in SUBSET (Models \X Nat)
    BY <2>4, LicenceFacts
  <2>6. Licences(pending \ Accept(wiz).accepted) \in SUBSET (Models \X Nat)
    BY <2>2, LicenceFacts
  <2>7. todo' \in Seq(Models)
    BY <2>2, <2>3, SomeFacts
  <2>8. granted' = granted \cup Licences(Accept(wiz).accepted)
    BY <1>10 DEF Reviewed
  <2> QED BY <1>10, <2>3, <2>5, <2>6, <2>7, <2>8
    DEF Reviewed, diskVars, runVars, boundVars, Close, OnboardingTypeOK
<1>11. CASE Record
  BY <1>11 DEF Record, runVars, historyVars, boundVars, OnboardingTypeOK
<1>12. CASE SetupFails
  BY <1>12 DEF SetupFails, diskVars, runVars, boundVars, OnboardingTypeOK
<1>13. CASE ReviewEnds
  BY <1>13 DEF ReviewEnds, diskVars, runVars, historyVars, boundVars, OnboardingTypeOK
<1>14. CASE Save
  BY <1>14 DEF Save, runVars, boundVars, OnboardingTypeOK
<1>15. CASE End
  <2>1. <<>> \in Seq(Models)
    OBVIOUS
  <2> QED BY OnboardingAssumption, <1>15, <2>1 DEF End, diskVars, boundVars, OnboardingTypeOK
<1>16. CASE Edit
  BY OnboardingAssumption, <1>16 DEF Edit, runVars, historyVars, OnboardingTypeOK
<1>17. CASE Apply
  BY <1>17 DEF Apply, diskVars, runVars, historyVars, boundVars, OnboardingTypeOK
<1>18. CASE Command
  <2>1. "mt" \in Models /\ "stt" \in Models
    BY DEF Models
  <2>2. Licences({"mt"}) \in SUBSET (Models \X Nat)
    BY <2>1, LicenceFacts
  <2>3. version["mt"] \in Nat /\ [consents EXCEPT !["mt"] = @ \cup {version["mt"]}] \in [Models -> SUBSET Nat]
    BY <2>1 DEF OnboardingTypeOK
  <2>4. /\ consents' \in [Models -> SUBSET Nat] /\ granted' \in SUBSET (Models \X Nat)
        /\ present' \in SUBSET Models
    BY <1>18, <2>1, <2>2, <2>3 DEF Command, OnboardingTypeOK
  <2> QED BY <1>18, <2>4 DEF Command, runVars, boundVars, OnboardingTypeOK
<1>19. ASSUME NEW m \in Models, CheckFinds(m)
     PROVE  Goal
  BY <1>19 DEF CheckFinds, Check, runVars, boundVars, OnboardingTypeOK
<1>20. ASSUME NEW m \in Models, CheckMisses(m)
     PROVE  Goal
  BY <1>20 DEF CheckMisses, Check, runVars, boundVars, OnboardingTypeOK
<1>21. ASSUME NEW m \in Models, CheckFails(m)
     PROVE  Goal
  BY <1>21 DEF CheckFails, Check, runVars, boundVars, OnboardingTypeOK
<1>22. ASSUME NEW m \in Models, Upgrade(m)
     PROVE  Goal
  BY <1>22 DEF Upgrade, diskVars, runVars, historyVars, OnboardingTypeOK
<1>23. CASE UNCHANGED onboardingVars
  BY <1>23 DEF onboardingVars, diskVars, runVars, historyVars, boundVars, OnboardingTypeOK
<1>24. CASE Build \/ BuildFails
  <2>1. Uses(memory) \in SUBSET Models
    BY DEF Uses, Config, OnboardingTypeOK
  <2> QED BY <1>24, <2>1 DEF Build, BuildFails, diskVars, runVars, historyVars, boundVars,
        OnboardingTypeOK
<1> QED BY <1>1, <1>2, <1>3, <1>4, <1>5, <1>6, <1>7, <1>8, <1>9, <1>10, <1>11, <1>12, <1>13,
    <1>14, <1>15, <1>16, <1>17, <1>18, <1>19, <1>20, <1>21, <1>22, <1>23, <1>24
    DEF OnboardingNext, Start, Wizard, Outcome, Turning

\* The records, at a step that changes neither them nor the licences.
LEMMA RecordsSame ==
  ASSUME SetupInv, UNCHANGED <<consents, version, granted, unasked>>
  PROVE  OnRecord'
BY DEF SetupInv, OnRecord

LEMMA RecordStep ==
  ASSUME SetupInv, [OnboardingNext]_(onboardingVars)
  PROVE  OnRecord' /\ ToRecord' /\ Covered'
<1> USE DEF SetupInv, Types
<1> DEFINE Goal == OnRecord' /\ ToRecord' /\ Covered'
<1>1. CASE Turning
  BY <1>1, TurningFrame DEF OnRecord, ToRecord, Covered
<1>2. CASE StartSetup
  BY <1>2 DEF StartSetup, Launch, diskVars, OnRecord, ToRecord, Covered
<1>3. CASE StartRepair
  BY <1>3 DEF StartRepair, Launch, diskVars, OnRecord, ToRecord, Covered
<1>4. CASE StartNormal
  BY <1>4 DEF StartNormal, Launch, diskVars, OnRecord, ToRecord, Covered
<1>5. CASE StartSkipping
  BY <1>5 DEF StartSkipping, Launch, diskVars, OnRecord, ToRecord, Covered
<1>6. CASE Download
  BY <1>6 DEF Download, runVars, historyVars, boundVars, OnRecord, ToRecord, Covered
<1>7. CASE Checked
  <2>1. boot \in Config
    BY DEF OnboardingTypeOK
  <2>2. PICK unreadable \in SUBSET boot.local :
          LET pending == Pending(boot, unreadable)
          IN  IF pending = {} THEN place' = "starting" /\ wiz' = wiz
                              ELSE place' = "wizard" /\ wiz' = Review(pending)
    BY <1>7 DEF Checked
  <2>3. place' = "starting" => \A m \in boot.local : version[m] \in consents[m]
    BY <2>1, <2>2, PendingFacts
  <2>4. place' \in {"starting", "wizard"}
    BY <2>2
  <2> QED BY <1>7, <2>3, <2>4
    DEF Checked, diskVars, runVars, historyVars, OnRecord, ToRecord, Covered
<1>8. CASE Cancelled
  BY <1>8 DEF Cancelled, At, diskVars, runVars, boundVars, Close, OnRecord,
    ToRecord, Covered
<1>9. CASE Confirmed
  <2>1. OnRecord' /\ Covered'
    BY <1>9 DEF Confirmed, At, diskVars, Close, OnRecord, Covered
  <2>2. CASE UsesLocal(wiz.branch)
    <3>1. wiz.accepted = Models
      BY <1>9, <2>2 DEF Confirmed, At, WizardOK
    <3>2. \A m \in Models : <<m, version[m]>> \in granted'
      BY <1>9, <3>1 DEF Confirmed, Licences
    <3>3. \A i \in 1 .. Len(todo') : todo'[i] \in Models
      BY <1>9, <2>2, SetupFacts DEF Confirmed
    <3> QED BY <1>9, <2>1, <3>2, <3>3 DEF Confirmed, At, ToRecord
  <2>3. CASE ~UsesLocal(wiz.branch)
    <3>1. todo' = <<>>
      BY <1>9, <2>3 DEF Confirmed
    <3> QED BY <2>1, <3>1 DEF ToRecord
  <2> QED BY <2>2, <2>3
<1>10. CASE Reviewed
  <2>1. PICK unreadable \in SUBSET memory.local :
          LET pending == Pending(memory, unreadable)
          IN  /\ todo' = Some(pending)
              /\ unasked' = unasked \cup Licences(pending \ Accept(wiz).accepted)
    BY <1>10 DEF Reviewed
  <2> DEFINE pending == Pending(memory, unreadable)
  <2>2. pending \in SUBSET Models
    BY PendingFacts DEF OnboardingTypeOK
  <2> HIDE DEF pending
  <2>3. \A i \in 1 .. Len(todo') : todo'[i] \in pending
    BY <2>1, <2>2, SomeFacts DEF pending
  <2>4. \A m \in pending : <<m, version[m]>> \in granted' \cup unasked'
    <3>1. unasked' = unasked \cup Licences(pending \ Accept(wiz).accepted)
      BY <2>1 DEF pending
    <3>2. granted' = granted \cup Licences(Accept(wiz).accepted)
      BY <1>10 DEF Reviewed
    <3> QED BY <3>1, <3>2 DEF Licences
  <2>5. /\ UNCHANGED <<consents, version>> /\ place' = "record"
        /\ granted \subseteq granted' /\ unasked \subseteq unasked'
    BY <1>10, <2>1 DEF Reviewed, diskVars, Close
  <2> QED BY <2>3, <2>4, <2>5 DEF OnRecord, ToRecord, Covered
<1>11. CASE Record
  <2>1. /\ todo # <<>> /\ todo \in Seq(Models) /\ place = "record" /\ place' = "record"
        /\ UNCHANGED <<version, granted, unasked>> /\ todo' = Tail(todo)
        /\ consents' = [consents EXCEPT ![Head(todo)] = @ \cup {version[Head(todo)]}]
    BY <1>11 DEF Record, historyVars, OnboardingTypeOK
  <2>2. \A i \in 1 .. Len(todo) : <<todo[i], version[todo[i]]>> \in granted \cup unasked
    BY <2>1 DEF ToRecord
  <2>3. Head(todo) \in Models /\ Head(todo) = todo[1] /\ 1 \in 1 .. Len(todo)
    BY <2>1
  <2>4. OnRecord'
    BY <2>1, <2>2, <2>3 DEF OnRecord, OnboardingTypeOK
  <2>5. \A i \in 1 .. Len(todo') : i + 1 \in 1 .. Len(todo) /\ todo'[i] = todo[i + 1]
    BY <2>1
  <2> QED BY <2>1, <2>2, <2>4, <2>5 DEF ToRecord, Covered
<1>12. CASE SetupFails
  BY <1>12 DEF SetupFails, diskVars, runVars, boundVars, OnRecord, ToRecord, Covered
<1>13. CASE ReviewEnds
  BY <1>13 DEF ReviewEnds, diskVars, runVars, historyVars, boundVars, OnRecord,
    ToRecord, Covered
<1>14. CASE Save
  BY <1>14 DEF Save, runVars, boundVars, OnRecord, ToRecord, Covered
<1>15. CASE End
  BY <1>15 DEF End, diskVars, boundVars, OnRecord, ToRecord, Covered
<1>16. CASE Edit
  BY <1>16 DEF Edit, runVars, historyVars, OnRecord, ToRecord, Covered
<1>17. CASE Apply
  BY <1>17 DEF Apply, diskVars, runVars, historyVars, boundVars, OnRecord, ToRecord,
    Covered
<1>18. CASE Command
  <2>1. "mt" \in Models
    BY DEF Models
  <2>2. /\ UNCHANGED <<version, unasked, place, todo, skip, boot>> /\ granted \subseteq granted'
        /\ consents' = consents \/
             /\ consents' = [consents EXCEPT !["mt"] = @ \cup {version["mt"]}]
             /\ <<"mt", version["mt"]>> \in granted'
    BY <1>18 DEF Command, Licences, runVars
  <2>3. ASSUME NEW k \in Models, NEW v \in consents'[k] PROVE <<k, v>> \in granted' \cup unasked'
    <3>1. v \in consents[k] \/ (k = "mt" /\ v = version["mt"] /\ <<"mt", version["mt"]>> \in granted')
      BY <2>1, <2>2, <2>3 DEF OnboardingTypeOK
    <3> QED BY <2>2, <3>1 DEF OnRecord
  <2>4. \A k \in Models : consents[k] \subseteq consents'[k]
    BY <2>1, <2>2 DEF OnboardingTypeOK
  <2>5. ToRecord'
    BY <2>2 DEF ToRecord
  <2>6. Covered'
    BY <2>2, <2>4 DEF Covered, OnboardingTypeOK, Config
  <2> QED BY <2>3, <2>5, <2>6 DEF OnRecord
<1>19. ASSUME NEW m \in Models, CheckFinds(m)
     PROVE  Goal
  BY <1>19 DEF CheckFinds, Check, runVars, boundVars, OnRecord, ToRecord, Covered
<1>20. ASSUME NEW m \in Models, CheckMisses(m)
     PROVE  Goal
  <2>1. /\ UNCHANGED <<version, granted>> /\ place' = "download" /\ unasked \subseteq unasked'
        /\ consents' = consents \/
             /\ m = "mt" /\ consents' = [consents EXCEPT ![m] = @ \cup {version[m]}]
             /\ <<m, version[m]>> \in unasked'
    BY <1>20 DEF CheckMisses, Check
  <2>2. ASSUME NEW k \in Models, NEW v \in consents'[k] PROVE <<k, v>> \in granted' \cup unasked'
    <3>1. v \in consents[k] \/ (k = m /\ v = version[m] /\ <<m, version[m]>> \in unasked')
      BY <2>1, <2>2 DEF OnboardingTypeOK
    <3> QED BY <2>1, <3>1 DEF OnRecord
  <2> QED BY <2>1, <2>2 DEF OnRecord, ToRecord, Covered
<1>21. ASSUME NEW m \in Models, CheckFails(m)
     PROVE  Goal
  BY <1>21 DEF CheckFails, Check, runVars, boundVars, OnRecord, ToRecord, Covered
<1>22. ASSUME NEW m \in Models, Upgrade(m)
     PROVE  Goal
  BY <1>22 DEF Upgrade, diskVars, runVars, historyVars, OnRecord, ToRecord, Covered
<1>23. CASE UNCHANGED onboardingVars
  BY <1>23 DEF onboardingVars, diskVars, runVars, historyVars, boundVars, OnRecord, ToRecord,
    Covered
<1>24. CASE Build \/ BuildFails
  BY <1>24 DEF Build, BuildFails, diskVars, runVars, historyVars, boundVars,
    OnRecord, ToRecord, Covered
<1> QED BY <1>1, <1>2, <1>3, <1>4, <1>5, <1>6, <1>7, <1>8, <1>9, <1>10, <1>11, <1>12, <1>13,
    <1>14, <1>15, <1>16, <1>17, <1>18, <1>19, <1>20, <1>21, <1>22, <1>23, <1>24
    DEF OnboardingNext, Start, Wizard, Outcome, Turning

LEMMA PatchStep ==
  ASSUME SetupInv, [OnboardingNext]_(onboardingVars)
  PROVE  Patched'
<1> USE DEF SetupInv, Types
<1>1. CASE Turning
  BY <1>1, TurningFrame DEF Patched
<1>2. CASE StartSetup
  BY <1>2 DEF StartSetup, Launch, diskVars, Patched
<1>3. CASE StartRepair
  BY <1>3 DEF StartRepair, Launch, diskVars, Patched
<1>4. CASE StartNormal
  BY <1>4 DEF StartNormal, Launch, diskVars, Patched
<1>5. CASE StartSkipping
  BY <1>5 DEF StartSkipping, Launch, diskVars, Patched
<1>6. CASE Download
  BY <1>6 DEF Download, runVars, historyVars, boundVars, Patched
<1>7. CASE Checked
  BY <1>7 DEF Checked, diskVars, runVars, historyVars, boundVars, Patched
<1>8. CASE Cancelled
  BY <1>8 DEF Cancelled, At, diskVars, runVars, boundVars, Close, Patched
<1>9. CASE Confirmed
  <2>1. /\ place' = "record" /\ patch' = Setup /\ chosen' = chosen
        /\ wiz.step = "confirm" /\ place = "wizard" /\ UNCHANGED version
        /\ granted' = granted \cup Licences(wiz.accepted)
        /\ todo' = IF UsesLocal(wiz.branch) THEN ModelList ELSE <<>>
    BY <1>9 DEF Confirmed, At, Close
  <2>2. ~wiz.review
    BY <2>1 DEF WizardOK, WizardType
  <2>3. chosen.branch = wiz.branch /\ chosen.preset = wiz.preset
    BY <2>1, <2>2 DEF ScreensInv, Screens
  <2>4. /\ Setup.local = (IF UsesLocal(wiz.branch) THEN Models ELSE {})
        /\ Setup.dual = FALSE /\ Setup.key = NeedsKey(wiz.branch) /\ Setup.preset = wiz.preset
    BY DEF Setup
  <2>5. \A m \in patch'.local :
          <<m, version'[m]>> \in granted' /\ \E i \in 1 .. Len(todo') : todo'[i] = m
    <3>1. CASE UsesLocal(wiz.branch)
      <4>1. wiz.accepted = Models
        BY <2>1, <3>1 DEF WizardOK
      <4>2. \A m \in Models : \E i \in 1 .. Len(ModelList) : ModelList[i] = m
        BY DEF Models, ModelList
      <4>3. todo' = ModelList /\ patch'.local = Models
        BY <2>1, <2>4, <3>1
      <4> QED BY <2>1, <4>1, <4>2, <4>3 DEF Licences
    <3>2. CASE ~UsesLocal(wiz.branch)
      BY <2>1, <2>4, <3>2
    <3> QED BY <3>1, <3>2
  <2> QED BY <2>1, <2>3, <2>4, <2>5 DEF Patched
<1>10. CASE Reviewed
  BY <1>10 DEF Reviewed, diskVars, runVars, boundVars, Close, Patched
<1>11. CASE Record
  <2>1. /\ todo # <<>> /\ todo \in Seq(Models) /\ place = "record" /\ place' = "record"
        /\ UNCHANGED <<version, granted, patch, chosen>> /\ todo' = Tail(todo)
        /\ consents' = [consents EXCEPT ![Head(todo)] = @ \cup {version[Head(todo)]}]
    BY <1>11 DEF Record, historyVars, OnboardingTypeOK
  <2> SUFFICES ASSUME patch # Missing, NEW m \in patch.local
               PROVE  version[m] \in consents'[m] \/ \E i \in 1 .. Len(todo') : todo'[i] = m
    BY <2>1 DEF Patched
  <2>2. m \in Models
    BY DEF OnboardingTypeOK, Config
  <2>3. CASE version[m] \in consents[m] \/ m = Head(todo)
    BY <2>1, <2>2, <2>3 DEF OnboardingTypeOK
  <2>4. CASE version[m] \notin consents[m] /\ m # Head(todo)
    <3>1. PICK i \in 1 .. Len(todo) : todo[i] = m
      BY <2>4 DEF Patched
    <3>2. i - 1 \in 1 .. Len(todo') /\ todo'[i - 1] = m
      BY <2>1, <2>4, <3>1
    <3> QED BY <3>2
  <2> QED BY <2>3, <2>4
<1>12. CASE SetupFails
  BY <1>12 DEF SetupFails, diskVars, runVars, boundVars, Patched
<1>13. CASE ReviewEnds
  BY <1>13 DEF ReviewEnds, diskVars, runVars, historyVars, boundVars, Patched
<1>14. CASE Save
  BY <1>14 DEF Save, runVars, boundVars, Patched
<1>15. CASE End
  BY <1>15 DEF End, diskVars, boundVars, Patched
<1>16. CASE Edit
  BY <1>16 DEF Edit, runVars, historyVars, Patched
<1>17. CASE Apply
  BY <1>17 DEF Apply, diskVars, runVars, historyVars, boundVars, Patched
<1>18. CASE Command
  <2>1. "mt" \in Models
    BY DEF Models
  <2>2. /\ UNCHANGED <<version, place, todo, patch, chosen>> /\ granted \subseteq granted'
        /\ consents' = consents \/ consents' = [consents EXCEPT !["mt"] = @ \cup {version["mt"]}]
    BY <1>18 DEF Command
  <2>3. \A k \in Models : consents[k] \subseteq consents'[k]
    BY <2>1, <2>2 DEF OnboardingTypeOK
  <2>4. patch # Missing => patch.local \in SUBSET Models
    BY DEF OnboardingTypeOK, Config
  <2> QED BY <2>2, <2>3, <2>4 DEF Patched
<1>19. ASSUME NEW m \in Models, CheckFinds(m)
     PROVE  Patched'
  BY <1>19 DEF CheckFinds, Check, runVars, boundVars, Patched
<1>20. ASSUME NEW m \in Models, CheckMisses(m)
     PROVE  Patched'
  BY <1>20 DEF CheckMisses, Check, runVars, boundVars, Patched
<1>21. ASSUME NEW m \in Models, CheckFails(m)
     PROVE  Patched'
  BY <1>21 DEF CheckFails, Check, runVars, boundVars, Patched
<1>22. ASSUME NEW m \in Models, Upgrade(m)
     PROVE  Patched'
  BY <1>22 DEF Upgrade, diskVars, runVars, historyVars, Patched
<1>23. CASE UNCHANGED onboardingVars
  BY <1>23 DEF onboardingVars, diskVars, runVars, historyVars, boundVars, Patched
<1>24. CASE Build \/ BuildFails
  BY <1>24 DEF Build, BuildFails, diskVars, runVars, historyVars, boundVars,
    Patched
<1> QED BY <1>1, <1>2, <1>3, <1>4, <1>5, <1>6, <1>7, <1>8, <1>9, <1>10, <1>11, <1>12, <1>13,
    <1>14, <1>15, <1>16, <1>17, <1>18, <1>19, <1>20, <1>21, <1>22, <1>23, <1>24
    DEF OnboardingNext, Start, Wizard, Outcome, Turning

LEMMA SetupStep ==
  ASSUME SetupInv, [OnboardingNext]_(onboardingVars)
  PROVE  SetupInv'
BY WizardStep, TypeStep, RecordStep, PatchStep DEF SetupInv, Types

LEMMA SetupAlways == OnboardingSpec => []SetupInv
<1>1. OnboardingInit => SetupInv
  BY SetupInit
<1>2. SetupInv /\ [OnboardingNext]_(onboardingVars) => SetupInv'
  BY SetupStep
<1> QED BY <1>1, <1>2, PTL DEF OnboardingSpec

\* For any configurations, presets, starts and edits: a run that translates with local
\* models does so under licences of their present versions, on record and accepted, but for
\* those the program records by itself, and but for models the checks of the start did not
\* look at: those only a slot names, and those of an edit applied after the checks.
THEOREM ModelsByConsent ==
  OnboardingSpec => []ModelsRunByConsent
<1>1. SetupInv => ModelsRunByConsent
  <2> SUFFICES ASSUME SetupInv, place = "running", ~skip, NEW m \in used, m \in boot.local
               PROVE  version[m] \in consents[m] /\ <<m, version[m]>> \in granted \cup unasked
    BY DEF ModelsRunByConsent
  <2>1. m \in Models
    BY DEF SetupInv, Types, OnboardingTypeOK, Config
  <2> QED BY <2>1 DEF SetupInv, Covered, OnRecord
<1> QED BY <1>1, SetupAlways, PTL

\* The same: the configuration a first run leaves behind is the one the user confirmed, and
\* the records of its licences are on disk before it.
THEOREM SetupConfirmed ==
  OnboardingSpec => SetupIsWhole
<1>1. SetupInv /\ [OnboardingNext]_(onboardingVars) =>
        [file' # file /\ file' \notin {Missing, Invalid} /\ file'.by = "wizard" =>
           /\ Uses(file') = (IF UsesLocal(chosen.branch) THEN Models ELSE {})
           /\ NeedsKey(chosen.branch) => file'.key
           /\ \A m \in Uses(file') : version[m] \in consents[m] /\ <<m, version[m]>> \in granted
           /\ file'.preset = chosen.preset]_(onboardingVars)
  <2> SUFFICES ASSUME OnboardingNext, SetupInv, file' # file, file' \notin {Missing, Invalid},
                      file'.by = "wizard"
               PROVE  /\ Uses(file') = (IF UsesLocal(chosen.branch) THEN Models ELSE {})
                      /\ NeedsKey(chosen.branch) => file'.key
                      /\ \A m \in Uses(file') :
                           version[m] \in consents[m] /\ <<m, version[m]>> \in granted
                      /\ file'.preset = chosen.preset
    OBVIOUS
  <2>1. Save \/ Edit
    BY TurningFrame DEF OnboardingNext, Start, Wizard, Outcome, Turning, diskVars, StartSetup,
      StartRepair, StartNormal, StartSkipping, Launch, CheckFinds, CheckMisses,
      CheckFails, Check, Upgrade, Download, Checked, Build, BuildFails, Cancelled, Confirmed,
      Reviewed, At, Record, SetupFails, ReviewEnds, End, Apply, Command
  <2>2. CASE Edit
    BY OnboardingAssumption, <2>2 DEF Edit
  <2>3. CASE Save
    <3>1. file' = patch /\ patch # Missing /\ todo = <<>>
      BY <2>3 DEF Save
    <3> QED BY <3>1 DEF SetupInv, Patched, Uses
  <2> QED BY <2>1, <2>2, <2>3
<1> QED BY <1>1, SetupAlways, PTL DEF OnboardingSpec, SetupIsWhole

\* The same: types.
THEOREM SetupTypes == OnboardingSpec => []OnboardingTypeOK
<1>1. SetupInv => OnboardingTypeOK
  BY DEF SetupInv, Types
<1> QED BY <1>1, SetupAlways, PTL

=============================================================================
