SPECIFICATION Spec
CONSTANTS
  Providers = {"github", "google"}
  Refreshed = {"google"}
  Workers = {w1}
  MaxFlows = 2
  MaxGrants = 1
  NoRow = NoRow
CHECK_DEADLOCK FALSE
INVARIANTS
  RefreshIsStored
