SPECIFICATION Spec
CONSTANTS
  User = {u1, u2}
  Phone = {p1, p2}
  None = None
  MaxAccounts = 1
  Newcomer = {u1}
  Client = {c1, c2}
  Slot = {1, 2}
  MaxEvents = 6
SYMMETRY Symmetry
INVARIANTS TypeOK SessionsMatch ConnectedClientsAreKept SavedForThePrompted
PROPERTIES MovesAreTheOwners
CHECK_DEADLOCK FALSE
