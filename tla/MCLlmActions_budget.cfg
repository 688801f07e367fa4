SPECIFICATION Spec
CONSTANTS
  u1 = u1
  u2 = u2
  p1 = p1
  r1 = r1
  r2 = r2
  r3 = r3
  r4 = r4
  r5 = r5
  NoRun = NoRun
  Runs = {r1, r2, r3, r4, r5}
  Polish = {r2}
  Sources = {p1}
  Users = {u1, u2}
  UserOf <- Owners
  Params <- Inputs
  Cause <- Causes
  Workers = {w1, w2}
  Daily = 1
  HasCeiling = TRUE
  Ceiling = 2
  MaxCost = 1
  LastDay = 3
  MonthStart <- Months
  MaxTries = 4
CHECK_DEADLOCK FALSE
SYMMETRY Symmetry
INVARIANTS
  TypeOK
  DailyOvershoot
  CeilingOvershoot
  LedgerExact
  OwnDataOnly
