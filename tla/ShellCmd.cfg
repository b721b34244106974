SPECIFICATION FairSpec
CONSTANTS
  monitor = monitor
  display = display
  Clients = {monitor, display}
  Lockers = {monitor}
  MaxCmds = 3
  Quotas <- OneOrTwo
  StartRunning = {"NOT_YET", "YES", "NEVER"}
INVARIANTS
  PassesMatchCommands
  AtMostTwice
PROPERTIES
  WaiterResumes
  ImplementsService
CHECK_DEADLOCK FALSE
