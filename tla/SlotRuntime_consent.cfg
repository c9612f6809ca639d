\* Every configuration of one slot, the telling ones of two, two builds.
\* Slots halt and the user may do nothing: no deadlock check.
SPECIFICATION FairSpec
CONSTANTS
  Configs <- MCConfigs
  Builds <- MCBuilds
  Languages = {"ja", "vi"}
INVARIANTS
  CloudOnlyByConsent
  RefusedIsNotAskedAgain
  FlagsTellWhoIsAsked
PROPERTIES
  HaltIsShown
CHECK_DEADLOCK FALSE
