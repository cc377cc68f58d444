SPECIFICATION Spec
CONSTANTS
  Account = {a1}
  Tool = {t1, t2}
  LockedTool = {t1, t2}
  Proxy = {p1, p2}
  NoProxy = NoProxy
  NoAccount = NoAccount
  MaxSession = 0
  MaxProxyRetries = 2
  Role = "bot"
  May = {"ack_error", "plan_error", "running_error", "status_error", "release_error", "worker_crash", "bot_crash", "shutdown", "abort", "edit"}
SYMMETRY Symmetry
INVARIANT ToolHoldsAckedLease
PROPERTY ExclusiveSessionSpec
INVARIANT TypeOK
