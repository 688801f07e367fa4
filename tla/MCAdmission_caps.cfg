SPECIFICATION Spec
CONSTANTS
  s1 = s1
  u1 = u1
  u2 = u2
  k1 = k1
  q1 = q1
  q2 = q2
  q3 = q3
  q4 = q4
  q5 = q5
  NoKey = NoKey
  Requests = {q1, q2, q3, q4, q5}
  Servers = {s1}
  ServerOf <- OneServer
  Users = {u1, u2}
  UserOf <- TwoUsers
  Operator = u2
  KeyOf <- RetryKeys
  Recurring = {q1, q2, q3, q4}
  Limit = 2
  Burst = 2
  Daily = 3
  RecurringCap = 1
  TotalCap = 2
  GlobalCap = 2
  Depths = {"low", "flooded"}
CHECK_DEADLOCK FALSE
SYMMETRY Symmetry
INVARIANTS
  TypeOK
  OvershootBounded
  SlotsExact
  OneJobPerKey
