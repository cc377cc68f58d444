SPECIFICATION FairSpec
CONSTANTS
  Account = {a1}
  Tool = {t1}
  LockedTool = {}
  Proxy = {p1, p2}
  NoProxy = NoProxy
  NoAccount = NoAccount
  MaxSession = 0
  MaxProxyRetries = 2
  Role = "bot"
  May = {"pause_timeout", "lease_expiry", "stop_timeout", "release_error", "abort", "edit", "readd", "running_error", "bot_crash"}
PROPERTY LeaseIsAnswered
PROPERTY UnlistedAccountsAreStopped
PROPERTY ListedAccountsAreServed
INVARIANT AckedMeansStopped
