SPECIFICATION Spec
CONSTANTS
  N <- CodeN
  Tf <- CodeTf
  Kind <- CodeKind
  Target <- CodeTarget
  Entries = {1, 7, 11}
  Bare = {11}
  MaxTaken = 1
  MaxCommands = 2
  MaxSessions = 1
INVARIANT FlowConserved
INVARIANT CountsRight
INVARIANT KernelTraced
CHECK_DEADLOCK FALSE
