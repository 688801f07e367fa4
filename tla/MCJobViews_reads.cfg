SPECIFICATION ViewSpec
CONSTANTS
  root = root
  child = child
  side = side
  Jobs = {root, child, side}
  NoJob = NoJob
  Recurring = {root}
  Trigger <- Chain
  TriggerOn <- Predicates
  Existing = {root}
  Consumers = {c1}
  MaxDepth = 2
  MaxTicks = 2
  MaxAborts = 0
  PageSize = 1
CHECK_DEADLOCK FALSE
CONSTRAINT SideIdle
INVARIANTS
  ViewTypeOK
  StatusWasTrue
  PagesComplete
  FoundUnderItsStatus
