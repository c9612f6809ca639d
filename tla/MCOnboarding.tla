---------------------------- MODULE MCOnboarding ----------------------------
(* Instances of Onboarding for TLC. *)
EXTENDS Onboarding

UserConfig(local, dual, slots) ==
  [local |-> local, dual |-> dual, slots |-> slots, key |-> FALSE, preset |-> "auto", by |-> "user"]
MCDefault == UserConfig({"stt"}, FALSE, {})
\* Both models in one slot, and two slots that use more than the top level says.
MCEdits == {UserConfig({"stt", "mt"}, FALSE, {}), UserConfig({"stt"}, TRUE, {"stt", "mt"})}
=============================================================================
