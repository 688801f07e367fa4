SPECIFICATION Spec
CONSTANTS
  root = root
  child = child
  leaf = leaf
  Jobs = {root, child}
  NoJob = NoJob
  Recurring = {root}
  Trigger <- Chain
  TriggerOn <- Predicates
  Existing = {root, child}
  Consumers = {c1}
  MaxDepth = 3
  MaxTicks = 3
  MaxAborts = 1
CHECK_DEADLOCK FALSE
INVARIANTS
  RecurrenceAlive
  NotStranded
  TriggerAccounted
