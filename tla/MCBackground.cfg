SPECIFICATION FairSpec
CONSTANTS
  Listener = {"pmpermit", "afk"}
  MaxFails = 1
  None = None
  Notice = {"m1", "m2"}
  Process = {"worker", "bot"}
  CatchUpLimit = 2
  Day = 3
  Minute = 1
  Limits = {0, 1, 5}
  Variation = {1}
  FirstDelay = 1
  Jitter = 1
  MaxDelay = 4
  MaxWait = 4
  Never = 6
  Sender = {"s1", "s2"}
  WarnLimits = {1, 3}
  DefaultLimit = 3
  MaxTold = 1
  MaxLog = 4
  Scenes <- MCScenes
INVARIANTS TypeOK AlertedOnce KnowsEveryNotice ToldOncePerAway GroupsKeepTheirDistance
PROPERTIES ListenersFollowTheirSwitch BlockedAtTheLimit
CHECK_DEADLOCK FALSE
