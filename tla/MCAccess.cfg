SPECIFICATION MCSpec
CONSTANTS
  User = {"u1", "u2"}
  Self = "acc"
  None = None
  Admin = {"u1"}
  Plan = {"p1", "p2"}
  Plugin = {"groups", "delegates", "tools"}
  Columns = {"groups"}
  DefaultOn = {"delegates", "tools"}
  Name = {"n1", "n2"}
  Limit = {"l1"}
  MaxAdmins = 1
  MaxLinks = 1
  Call = {1}
  Window = 2
  AdminLimit = 1
  OwnerLimit = 2
  AccountLimit = 2
  Password = {"a", "b"}
  Typist = {"u1"}
  Task = {1, 2}
  Scenes <- MCScenes
INVARIANTS TypeOK AnswersAreComplete AppointedByOwners AdminsNearlyWithinLimit AnswersPerWindow
CHECK_DEADLOCK FALSE
