SPECIFICATION FairSpec
CONSTANTS
  Account = {a1}
  Tool = {t1}
  LockedTool = {t1}
  Proxy = {p1}
  NoProxy = NoProxy
  NoAccount = NoAccount
  MaxSession = 0
  MaxProxyRetries = 1
  Role = "bot"
  May = {}
PROPERTY ListedAccountsAreServed
