SPECIFICATION Spec
CONSTANTS
  Account = {a1, a2}
  Tool = {t1}
  LockedTool = {}
  Proxy = {p1}
  NoProxy = NoProxy
  NoAccount = NoAccount
  MaxSession = 1
  MaxProxyRetries = 1
  Role = "all"
  May = {"plan_error", "edit", "readd"}
SYMMETRY Symmetry
INVARIANT RunningMeansServing
INVARIANT DeadSlotIsUnwanted
