--------------------------- MODULE MCSlotRuntime ---------------------------
EXTENDS SlotRuntime

Of(a, b) == [A |-> a, B |-> b]

\* One slot: every combination of providers, consents and key.
SingleConfigs ==
  {[dual |-> FALSE, topStt |-> stt, stt |-> Of(stt, stt), mt |-> Of(mtP, mtP), target |-> Of("vi", "vi"),
    key |-> key, policy |-> policy, mtFallback |-> back, ttsProvider |-> voice, ttsEnabled |-> on,
    ttsSource |-> "off"] :
     stt \in {"google", "local"}, mtP \in {"google", "local", "llm"}, key \in BOOLEAN,
     policy \in {None, "google-when-keyed"}, back \in {None, "google"}, voice \in {"google", "local"},
     on \in BOOLEAN}

\* Two slots: slot A local, with Google behind it or not, slot B with either STT.
DualConfigs ==
  {[dual |-> TRUE, topStt |-> "local", stt |-> Of("local", stt), mt |-> Of("local", "google"),
    target |-> Of("vi", "vi"), key |-> key, policy |-> policy, mtFallback |-> None,
    ttsProvider |-> "google", ttsEnabled |-> FALSE, ttsSource |-> IF stt = "google" THEN "B" ELSE "A"] :
     stt \in {"google", "local"}, key \in BOOLEAN, policy \in {None, "google-when-keyed"}}

MCConfigs == SingleConfigs \cup DualConfigs
MCBuilds == {{"local-stt", "local-mt"}, {"local-stt", "local-mt", "local-tts", "local-llm-mt"}}
=============================================================================
