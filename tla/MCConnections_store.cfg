SPECIFICATION Spec
CONSTANTS
  Providers = {"github", "google"}
  Refreshed = {"google"}
  Workers = {w1}
  MaxFlows = 3
  MaxGrants = 2
  NoRow = NoRow
CHECK_DEADLOCK FALSE
INVARIANTS
  TypeOK
  NoExpiredUse
  DroppedStaysDropped
