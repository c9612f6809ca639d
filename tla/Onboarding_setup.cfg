\* Two starts of the program, one edit of the file, one newer model, any keys and any
\* commands.  Users stop when they like: no deadlock check.
SPECIFICATION OnboardingSpec
CONSTANTS
  Gates = {FALSE, TRUE}
  Presets = {"auto", "performance"}
  Recommended = "performance"
  Default <- MCDefault
  Edits <- MCEdits
  Missing = Missing
  Invalid = Invalid
  MaxStarts = 2
  MaxEdits = 1
  MaxUpgrades = 1
INVARIANTS
  ModelsRunByConsent
PROPERTIES
  SetupIsWhole
CHECK_DEADLOCK FALSE
