SPECIFICATION Spec
CONSTANTS
  Account = {a1}
  Tool = {t1, t2}
  LockedTool = {}
  Proxy = {p1}
  NoProxy = NoProxy
  NoAccount = NoAccount
  MaxSession = 0
  MaxProxyRetries = 1
  Role = "bot"
  May = {}
SYMMETRY Symmetry
INVARIANT NotTwoSessions
