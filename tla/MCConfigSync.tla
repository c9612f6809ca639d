---------------------------- MODULE MCConfigSync ----------------------------
(* Instances of ConfigSync for TLC. *)
EXTENDS ConfigSync

MCBoot == [lang |-> "vi", device |-> "mic", provider |-> "google", gain |-> 0]

\* A file that is not valid, one with another language and device, and one that
\* needs a restart.
MCEdits ==
  {Bad, [MCBoot EXCEPT !.lang = "ja", !.device = "line"], [MCBoot EXCEPT !.provider = "local"]}

\* The same two, from the settings.
MCSettings ==
  {[lang |-> "ja", device |-> "line", provider |-> "google"],
   [lang |-> "vi", device |-> "mic", provider |-> "local"]}
=============================================================================
