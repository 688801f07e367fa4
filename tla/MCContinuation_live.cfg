SPECIFICATION LiveSpec
CONSTANTS
  root = root
  child = child
  leaf = leaf
  Jobs = {root, child, leaf}
  NoJob = NoJob
  Recurring = {}
  Trigger <- Chain
  TriggerOn <- Predicates
  Existing = {root, child, leaf}
  Consumers = {c1}
  MaxDepth = 3
  MaxTicks = 1
  MaxAborts = 1
CHECK_DEADLOCK FALSE
INVARIANTS
  SettledExhausted
PROPERTIES
  AllSettle
