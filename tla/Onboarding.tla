----------------------------- MODULE Onboarding -----------------------------
(***************************************************************************)
(* From the start of the program to the moment translation runs, or does   *)
(* not: the modes of the start (src/src/main.rs), the installation of      *)
(* missing models (src/src/local_model_startup.rs), the wizard             *)
(* (src/src/tui/onboarding.rs), the records of accepted licences           *)
(* (providers/local/bootstrap/consent.rs) and the configuration written at *)
(* the end.  The program is started again and again, may be killed at any  *)
(* moment and be replaced by a newer one; the user edits the file and uses *)
(* the command line meanwhile.                                             *)
(*                                                                         *)
(* A licence belongs to a model and its version.  Of a key only whether    *)
(* there is one matters, and of a configuration what the wizard writes,    *)
(* but for the device of the virtual microphone, and the providers of the  *)
(* two slots: the checks of the start read the providers at the top level  *)
(* only, which a program with two slots does not use.  Speech synthesis,   *)
(* where it is built in, is installed as the translation model is.         *)
(*                                                                         *)
(* Consent_proofs extends this module and SlotRuntime, so the two share no *)
(* name.                                                                   *)
(***************************************************************************)
EXTENDS Integers, Sequences

CONSTANTS Gates,        \* subset of BOOLEAN: with the gate for the virtual cable (Windows)
          Presets,       \* QualityPreset
          Recommended,   \* Auto, resolved for what the wizard knows of the machine
          Default,       \* AppConfig::default()
          Edits,         \* configurations the user writes
          Missing, Invalid,
          MaxStarts, MaxEdits, MaxUpgrades   \* BOUNDS

ModelList == <<"stt", "mt">>         \* all_local_consent_manifests
Models == {"stt", "mt"}
Some(models) == (IF "stt" \in models THEN <<"stt">> ELSE <<>>) \o
                (IF "mt" \in models THEN <<"mt">> ELSE <<>>)

\* local are the models of stt_provider and mt_provider, slots those of slot_a and slot_b.
Config == [local : SUBSET Models, dual : BOOLEAN, slots : SUBSET Models, key : BOOLEAN,
           preset : Presets, by : {"user", "wizard"}]

\* What the providers of a run are built for.
Uses(conf) == IF conf.dual THEN conf.slots ELSE conf.local

ASSUME OnboardingAssumption ==
  /\ Gates \subseteq BOOLEAN
  /\ Recommended \in Presets
  /\ Default \in Config /\ Edits \subseteq Config
  /\ \A c \in Edits : c.by = "user"
  /\ {MaxStarts, MaxEdits, MaxUpgrades} \subseteq Nat

VARIABLES
  gate,       \* gate_enabled: fixed by the build
  file,       \* config.json
  consents,   \* consents[m]: the versions of m with a record on disk
  version,    \* version[m]: what the program in use ships
  present,    \* the models that are installed
  place,      \* off, models, download, wizard, record, idle, starting, running
  skip,       \* TUI_TRANSLATOR_SKIP_ONBOARDING is set for this run
  boot,       \* the configuration this run started with
  used,       \* the models that the providers of this run use
  memory,     \* current_config
  wiz,        \* OnboardingWizardState
  todo,       \* the models still to be checked, or recorded
  patch,      \* the configuration the wizard has decided on, or Missing
  granted,    \* history: the licences accepted, as pairs
  unasked,    \* history: the licences the program recorded without asking
  chosen,     \* history: what was last confirmed on each screen
  starts, edits, upgrades

diskVars == <<file, consents, present>>
runVars == <<skip, boot, used>>
historyVars == <<granted, unasked, chosen>>
boundVars == <<starts, edits, upgrades>>
onboardingVars == <<gate, diskVars, version, place, runVars, memory, wiz, todo, patch, historyVars, boundVars>>

UsesLocal(branch) == branch # "google"
NeedsKey(branch) == branch # "local"

NothingChosen == [branch |-> "local", preset |-> Recommended]

\* OnboardingWizardState::new; shown is the preset the survey shows, and preset is
\* hardware_survey_selection.
NewWizard == [step |-> "branch", branch |-> "local", models |-> ModelList, at |-> 1,
              accepted |-> {}, key |-> FALSE, shown |-> Recommended,
              preset |-> Recommended, review |-> FALSE]
Review(models) == [NewWizard EXCEPT !.step = "license", !.models = Some(models), !.review = TRUE]

OnboardingInit ==
  /\ gate \in Gates
  /\ file = Missing /\ consents = [m \in Models |-> {}] /\ present = {}
  /\ version = [m \in Models |-> 1]
  /\ place = "off" /\ skip = FALSE /\ boot = Default /\ used = {} /\ memory = Default
  /\ wiz = NewWizard /\ todo = <<>> /\ patch = Missing
  /\ granted = {} /\ unasked = {} /\ chosen = NothingChosen
  /\ starts = 0 /\ edits = 0 /\ upgrades = 0

-----------------------------------------------------------------------------
(* The start: load_for_startup and startup_config_mode.                    *)

Launch(skipping) ==
  /\ place = "off" /\ starts < MaxStarts
  /\ starts' = starts + 1
  /\ skip' = skipping
  /\ boot' = IF file \in {Missing, Invalid} THEN Default ELSE file
  /\ memory' = boot'
  /\ UNCHANGED <<gate, diskVars, version, used, patch, granted, unasked, edits, upgrades>>

\* The first run: no file, and none was named on the way.
StartSetup ==
  /\ file = Missing
  /\ Launch(FALSE)
  /\ place' = "wizard" /\ wiz' = NewWizard /\ chosen' = NothingChosen
  /\ UNCHANGED todo

\* The settings are opened to repair the file; nothing else runs.
StartRepair ==
  /\ file = Invalid
  /\ Launch(FALSE)
  /\ place' = "idle"
  /\ UNCHANGED <<wiz, todo, chosen>>

\* A missing file that was named explicitly counts as the default one.
StartNormal ==
  /\ file # Invalid
  /\ Launch(FALSE)
  /\ place' = "models" /\ todo' = Some(boot'.local)
  /\ UNCHANGED <<wiz, chosen>>

StartSkipping ==
  /\ Launch(TRUE)
  /\ place' = "starting"
  /\ UNCHANGED <<wiz, todo, chosen>>

Start == StartSetup \/ StartRepair \/ StartNormal \/ StartSkipping

-----------------------------------------------------------------------------
(* run_startup_local_model_check, of the providers at the top level: the   *)
(* first failure ends it, and the start goes on without the models.        *)

Check(m) ==
  /\ place = "models" /\ todo # <<>> /\ m = Head(todo)
  /\ UNCHANGED <<gate, file, version, runVars, memory, wiz, patch, granted, chosen, boundVars>>

CheckFinds(m) ==
  /\ Check(m) /\ m \in present
  /\ todo' = Tail(todo)
  /\ UNCHANGED <<consents, present, place, unasked>>

\* The speech model is downloaded as it is; the translation model has its consent
\* recorded first, by the program itself.
CheckMisses(m) ==
  /\ Check(m) /\ m \notin present
  /\ place' = "download"
  /\ consents' = IF m = "mt" THEN [consents EXCEPT ![m] = @ \cup {version[m]}] ELSE consents
  /\ unasked' = IF m = "mt" THEN unasked \cup {<<m, version[m]>>} ELSE unasked
  /\ UNCHANGED <<present, todo>>

\* The directory or the record cannot be written.
CheckFails(m) ==
  /\ Check(m) /\ m \notin present
  /\ todo' = <<>>
  /\ UNCHANGED <<consents, present, place, unasked>>

Download ==
  /\ place = "download"
  /\ place' = "models"
  /\ \/ present' = present \cup {Head(todo)} /\ todo' = Tail(todo)
     \/ present' = present /\ todo' = <<>>
  /\ UNCHANGED <<gate, file, consents, version, runVars, memory, wiz, patch, historyVars, boundVars>>

\* MUTANT of Pending: any record of the model will do.
PendingAnyVersion(conf, unreadable) ==
  {m \in conf.local : consents[m] = {} \/ m \in unreadable}

\* collect_pending_consent_manifests: no record of this version, or one that cannot be read.
Pending(conf, unreadable) ==
  {m \in conf.local : version[m] \notin consents[m] \/ m \in unreadable}

Checked ==
  /\ place = "models" /\ todo = <<>>
  /\ \E unreadable \in SUBSET boot.local :
       LET pending == Pending(boot, unreadable)
       IN  IF pending = {} THEN place' = "starting" /\ wiz' = wiz
                           ELSE place' = "wizard" /\ wiz' = Review(pending)
  /\ UNCHANGED <<gate, diskVars, version, runVars, memory, todo, patch, historyVars, boundVars>>

\* The providers of one slot, or of two, are built from the configuration of this moment,
\* which the watcher may have replaced since it was checked.
Build ==
  /\ place = "starting"
  /\ place' = "running" /\ used' = Uses(memory)
  /\ UNCHANGED <<gate, diskVars, version, skip, boot, memory, wiz, todo, patch, historyVars,
                 boundVars>>

\* There is no capture, no key, or no provider.
BuildFails ==
  /\ place = "starting"
  /\ place' = "idle"
  /\ UNCHANGED <<gate, diskVars, version, runVars, memory, wiz, todo, patch, historyVars, boundVars>>

-----------------------------------------------------------------------------
(* The wizard: handle, advance and go_back.                                *)

At(page) ==
  /\ place = "wizard" /\ wiz.step = page
  /\ UNCHANGED <<gate, diskVars, version, runVars, memory, unasked, boundVars>>
Stay == UNCHANGED <<place, todo, patch, granted>>
Turn(w) == wiz' = w /\ Stay

PickBranch ==
  /\ At("branch")
  /\ \E branch \in {"local", "fallback", "google"} : Turn([wiz EXCEPT !.branch = branch])
  /\ UNCHANGED chosen

\* advance_past_branch.
ToSurvey(w) == [w EXCEPT !.step = "survey", !.shown = Recommended]

\* A cable that is there is taken without a question.
BranchTaken ==
  /\ At("branch")
  /\ \/ Turn(ToSurvey(wiz))
     \/ gate /\ Turn([wiz EXCEPT !.step = "gate"])
  /\ chosen' = [chosen EXCEPT !.branch = wiz.branch]

\* The cable is taken, if one is found now, or skipped.  Which it is, is not kept here.
PastGate ==
  /\ At("gate")
  /\ Turn(ToSurvey(wiz))
  /\ UNCHANGED chosen

PickPreset ==
  /\ At("survey")
  /\ \E preset \in Presets : Turn([wiz EXCEPT !.shown = preset, !.preset = preset])
  /\ UNCHANGED chosen

ToLicense(w, i) == [w EXCEPT !.step = "license", !.at = i]
\* What follows the licences.
PastLicenses(w) == [w EXCEPT !.step = IF NeedsKey(w.branch) THEN "key" ELSE "confirm"]

\* MUTANT of SurveyTaken: the choice is what was picked, not what is shown.
SurveyTakenUnread ==
  /\ At("survey")
  /\ Turn(IF UsesLocal(wiz.branch) THEN ToLicense(wiz, 1) ELSE PastLicenses(wiz))
  /\ chosen' = [chosen EXCEPT !.preset = wiz.shown]

SurveyTaken ==
  /\ At("survey")
  /\ LET w == [wiz EXCEPT !.preset = wiz.shown]
     IN  Turn(IF UsesLocal(w.branch) THEN ToLicense(w, 1) ELSE PastLicenses(w))
  /\ chosen' = [chosen EXCEPT !.preset = wiz.shown]

Accept(w) == [w EXCEPT !.accepted = @ \cup {w.models[w.at]}]
LastLicense == wiz.at = Len(wiz.models)

LicenseAccepted ==
  /\ At("license") /\ ~(wiz.review /\ LastLicense)
  /\ Turn(IF LastLicense THEN PastLicenses(Accept(wiz)) ELSE ToLicense(Accept(wiz), wiz.at + 1))
  /\ UNCHANGED chosen

KeyTyped ==
  /\ At("key")
  /\ Turn([wiz EXCEPT !.key = TRUE])
  /\ UNCHANGED chosen

KeyErased ==
  /\ At("key") /\ wiz.key
  /\ Turn([wiz EXCEPT !.key = FALSE])
  /\ UNCHANGED chosen

KeyTaken ==
  /\ At("key")
  /\ Turn([wiz EXCEPT !.step = "confirm"])
  /\ UNCHANGED chosen

\* Enter on the confirmation, without the key the branch needs.
KeyMissing ==
  /\ At("confirm") /\ NeedsKey(wiz.branch) /\ ~wiz.key
  /\ Turn([wiz EXCEPT !.step = "key"])
  /\ UNCHANGED chosen

\* Back to licence i, which has to be accepted again.
BackTo(i) == [ToLicense(wiz, i) EXCEPT !.accepted = @ \ {wiz.models[i]}]
BackToLicenses == IF UsesLocal(wiz.branch) THEN BackTo(Len(wiz.models))
                  ELSE [wiz EXCEPT !.step = "branch"]

Back ==
  /\ \/ At("branch") /\ Turn([wiz EXCEPT !.step = "cancel"])
     \/ At("gate") /\ Turn([wiz EXCEPT !.step = "branch"])
     \/ At("survey") /\ Turn([wiz EXCEPT !.step = IF gate THEN "gate" ELSE "branch"])
     \/ At("license") /\ wiz.at > 1 /\ Turn(BackTo(wiz.at - 1))
     \/ At("license") /\ wiz.at = 1 /\ ~wiz.review /\ Turn([wiz EXCEPT !.step = "branch"])
     \/ At("key") /\ Turn(BackToLicenses)
     \/ At("confirm") /\ Turn(IF NeedsKey(wiz.branch) THEN [wiz EXCEPT !.step = "key"]
                              ELSE BackToLicenses)
     \/ At("cancel") /\ Turn([wiz EXCEPT !.step = "branch"])
  /\ UNCHANGED chosen

-----------------------------------------------------------------------------
(* handle_wizard_outcome and apply_wizard_patch_to_config.                 *)

\* close_wizard.
Close(next) == place' = next /\ wiz' = NewWizard

\* Without a file the wizard begins anew, whichever it was; it may also begin anew if
\* the file cannot be looked at.
Cancelled ==
  /\ \/ At("cancel")
     \/ At("license") /\ wiz.review /\ wiz.at = 1
  /\ \/ wiz' = NewWizard /\ chosen' = NothingChosen /\ UNCHANGED place
     \/ file # Missing /\ Close("idle") /\ chosen' = NothingChosen
  /\ UNCHANGED <<todo, patch, granted>>

Licences(models) == {<<m, version[m]>> : m \in models}

Setup == [local |-> IF UsesLocal(wiz.branch) THEN Models ELSE {},
          dual |-> FALSE,
          slots |-> {},
          key |-> NeedsKey(wiz.branch),
          preset |-> wiz.preset,
          by |-> "wizard"]

\* The first run is confirmed: every local model of the program is recorded, if the
\* branch uses any.
Confirmed ==
  /\ At("confirm") /\ (NeedsKey(wiz.branch) => wiz.key)
  /\ Close("record") /\ patch' = Setup
  /\ todo' = IF UsesLocal(wiz.branch) THEN ModelList ELSE <<>>
  /\ granted' = granted \cup Licences(wiz.accepted)
  /\ UNCHANGED chosen

\* A review is through: what is recorded is what is pending now, by the configuration
\* as it is now.
Reviewed ==
  /\ place = "wizard" /\ wiz.step = "license" /\ wiz.review /\ LastLicense
  /\ \E unreadable \in SUBSET memory.local :
       LET pending == Pending(memory, unreadable)
       IN  /\ todo' = Some(pending)
           /\ unasked' = unasked \cup Licences(pending \ Accept(wiz).accepted)
  /\ granted' = granted \cup Licences(Accept(wiz).accepted)
  /\ Close("record")
  /\ UNCHANGED <<gate, diskVars, version, runVars, memory, patch, chosen, boundVars>>

Record ==
  /\ place = "record" /\ todo # <<>>
  /\ consents' = [consents EXCEPT ![Head(todo)] = @ \cup {version[Head(todo)]}]
  /\ todo' = Tail(todo)
  /\ UNCHANGED <<gate, file, present, version, place, runVars, memory, wiz, patch, historyVars,
                 boundVars>>

\* A record, or the configuration, cannot be written: the setup has failed, and the
\* wizard is closed.
SetupFails ==
  /\ place = "record" /\ (todo # <<>> \/ patch # Missing)
  /\ place' = "idle" /\ todo' = <<>> /\ patch' = Missing /\ chosen' = NothingChosen
  /\ UNCHANGED <<gate, diskVars, version, runVars, memory, wiz, granted, unasked, boundVars>>

\* After a review the configuration stays; what was to run does so after a restart.
ReviewEnds ==
  /\ place = "record" /\ todo = <<>> /\ patch = Missing
  /\ place' = "idle"
  /\ UNCHANGED <<gate, diskVars, version, runVars, memory, wiz, todo, patch, historyVars, boundVars>>

Save ==
  /\ place = "record" /\ todo = <<>> /\ patch # Missing
  /\ file' = patch /\ memory' = patch
  /\ place' = "idle" /\ patch' = Missing /\ chosen' = NothingChosen
  /\ UNCHANGED <<gate, consents, present, version, runVars, wiz, todo, granted, unasked, boundVars>>

Wizard ==
  \/ PickBranch \/ BranchTaken \/ PastGate \/ PickPreset
  \/ SurveyTaken \/ LicenseAccepted \/ KeyTyped \/ KeyErased \/ KeyTaken \/ KeyMissing \/ Back
  \/ Cancelled \/ Confirmed \/ Reviewed
Outcome == Record \/ SetupFails \/ ReviewEnds \/ Save

-----------------------------------------------------------------------------
(* The world around.                                                       *)

\* The program is ended or killed; memory is forgotten.
End ==
  /\ place # "off"
  /\ place' = "off" /\ skip' = FALSE /\ boot' = Default /\ used' = {} /\ memory' = Default
  /\ wiz' = NewWizard /\ todo' = <<>> /\ patch' = Missing /\ chosen' = NothingChosen
  /\ UNCHANGED <<gate, diskVars, version, granted, unasked, boundVars>>

\* The file is edited, broken or removed by hand.
Edit ==
  /\ edits < MaxEdits
  /\ edits' = edits + 1
  /\ file' \in (Edits \cup {Missing, Invalid}) \ {file}
  /\ UNCHANGED <<gate, consents, present, version, place, runVars, memory, wiz, todo, patch,
                 historyVars, starts, upgrades>>

\* The watcher applies a valid file.  Providers are built at the start only.
Apply ==
  /\ place \in {"wizard", "record", "idle", "starting", "running"}
  /\ file \notin {Missing, Invalid} /\ memory # file
  /\ memory' = file
  /\ UNCHANGED <<gate, diskVars, version, place, runVars, wiz, todo, patch, historyVars, boundVars>>

\* run_local_mt_model_install with --yes shows the licence and records it; the speech
\* model is fetched without.  Models can be removed by hand.
Command ==
  /\ \/ /\ consents' = [consents EXCEPT !["mt"] = @ \cup {version["mt"]}]
        /\ granted' = granted \cup Licences({"mt"})
        /\ present' \in {present, present \cup {"mt"}}
     \/ present' = present \cup {"stt"} /\ UNCHANGED <<consents, granted>>
     \/ \E m \in present : present' = present \ {m} /\ UNCHANGED <<consents, granted>>
  /\ UNCHANGED <<gate, file, version, place, runVars, memory, wiz, todo, patch, unasked, chosen,
                 boundVars>>

\* A newer program ships a newer model.
Upgrade(m) ==
  /\ place = "off" /\ upgrades < MaxUpgrades
  /\ upgrades' = upgrades + 1
  /\ version' = [version EXCEPT ![m] = @ + 1]
  /\ UNCHANGED <<gate, diskVars, place, runVars, memory, wiz, todo, patch, historyVars,
                 starts, edits>>

OnboardingNext ==
  \/ Start \/ \E m \in Models : CheckFinds(m) \/ CheckMisses(m) \/ CheckFails(m) \/ Upgrade(m)
  \/ Download \/ Checked \/ Build \/ BuildFails
  \/ Wizard \/ Outcome \/ End \/ Edit \/ Apply \/ Command

OnboardingSpec == OnboardingInit /\ [][OnboardingNext]_onboardingVars

-----------------------------------------------------------------------------
(* Properties.                                                             *)

OnboardingTypeOK ==
  /\ gate \in BOOLEAN
  /\ file \in Config \cup {Missing, Invalid}
  /\ consents \in [Models -> SUBSET Nat] /\ version \in [Models -> Nat] /\ present \subseteq Models
  /\ place \in {"off", "models", "download", "wizard", "record", "idle", "starting", "running"}
  /\ skip \in BOOLEAN /\ boot \in Config /\ memory \in Config /\ patch \in Config \cup {Missing}
  /\ used \subseteq Models
  /\ todo \in Seq(Models)
  /\ granted \subseteq Models \X Nat /\ unasked \subseteq Models \X Nat

\* Unless setup is skipped, a run that translates with local models does so under
\* licences of their present versions that are on record, and whose text the user has
\* accepted in a wizard that was not gone back on, or on the command line.  Excepted are
\* the records the program writes by itself: of a translation model it is about to
\* download, and of a model that became pending while a review was open.  Nothing can be
\* said of a model the checks of the start did not look at: one that only a slot names, or
\* that came in with an edit applied after the checks and before the providers were built.
ModelsRunByConsent ==
  place = "running" /\ ~skip =>
    \A m \in used :
      \/ version[m] \in consents[m] /\ <<m, version[m]>> \in granted \cup unasked
      \/ m \notin boot.local

\* The configuration the first run leaves behind is the one the user saw: the branch and
\* the preset as confirmed last, with the key the branch needs and the records of its
\* licences on disk before it, so that no kill leaves a setup without them.
SetupIsWhole ==
  [][file' # file /\ file' \notin {Missing, Invalid} /\ file'.by = "wizard" =>
       /\ Uses(file') = (IF UsesLocal(chosen.branch) THEN Models ELSE {})
       /\ NeedsKey(chosen.branch) => file'.key
       /\ \A m \in Uses(file') : version[m] \in consents[m] /\ <<m, version[m]>> \in granted
       /\ file'.preset = chosen.preset]_onboardingVars
=============================================================================
