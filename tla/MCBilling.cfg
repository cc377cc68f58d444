SPECIFICATION MCSpec
CONSTANTS
  u1 = u1  u2 = u2  p1 = p1  c1 = c1  c2 = c2  r1 = r1  r2 = r2  a1 = a1  i1 = i1
  Users = {u1, u2}  Plans = {p1}  Codes = {c1, c2}  Redeemers = {r1, r2}
  Admins = {a1}  Invoices = {i1}  Prices = {1, 2}
  PlanDays <- OneDay  Days = {1}  LegacyRows <- MixedRows
  Issuers = {a1}  MaxIssuing = 2
  MaxNow = 2  MaxEnd = 4  MaxSending = 2  MaxEdits = 2  MaxGrants = 2
  None = None  Never = Never  DbFails = TRUE
SYMMETRY Symmetry
INVARIANTS TypeOK RedeemedWhileValid SubscribersAreKnown RefusedOnlyForAnEdit
PROPERTIES VoucherSpec RedeemAddsItsDays OnlyTheseShorten
CHECK_DEADLOCK FALSE
