SPECIFICATION FairSpec
CONSTANTS
  Apps = {"app1", "app2", "board"}
  Hosted = {"app1", "app2"}
  MaxCmds = 2
  MaxSleep = 1
  MaxCalls <- Calls
  MaxWork = 1
INVARIANT TimerNotLost
INVARIANT SyscallsTaken
INVARIANT IdleIsQuiet
INVARIANT StandsStillOnlyEarly
PROPERTY WaitsReturn
CHECK_DEADLOCK FALSE
