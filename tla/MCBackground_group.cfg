SPECIFICATION Spec
CONSTANTS
  Listener = {"pmpermit", "afk"}
  MaxFails = 0
  None = None
  Notice = {"m1"}
  Process = {"worker"}
  CatchUpLimit = 1
  Day = 1
  Minute = 1
  Limits = {1}
  Variation = {0}
  FirstDelay = 1
  Jitter = 0
  MaxDelay = 1
  MaxWait = 1
  Never = 2
  Sender = {"s1"}
  WarnLimits = {1}
  DefaultLimit = 1
  MaxTold = 1
  MaxLog = 1
  Scenes <- MCScenes
INVARIANT NoticesReachTheMonitor
CHECK_DEADLOCK FALSE
