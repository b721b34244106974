SPECIFICATION Spec
CONSTANTS
  Commands <- AllCommands
  WordCounts = {1, 2, 3, 4, 5, 6, 8}
  Paths <- ThreePaths
  MaxCommandArgs = 7
  MaxFiles = 2
INVARIANTS
  
  UsesOwnWords
  DocumentedAccepted
CHECK_DEADLOCK FALSE
PROPERTIES
  PromptShowsCwd
