\* The start of the program and a command install the same two files.
\* Nobody has to do anything: no deadlock check.
SPECIFICATION Spec
CONSTANTS
  program = program
  command = command
  encoder = encoder
  vocab = vocab
  None = None
  Starts <- MCStarts
  Commands <- MCCommands
  Bundle <- MCBundle
  Looked <- MCLooked
  Size <- MCLength
  Length <- MCLength
INVARIANTS
  InstalledIsRight
  RetriesEnd
CHECK_DEADLOCK FALSE
