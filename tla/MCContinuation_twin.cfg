SPECIFICATION Spec
CONSTANTS
  root = root
  child = child
  leaf = leaf
  Jobs = {root, child, leaf}
  NoJob = NoJob
  Recurring = {root}
  Trigger <- Chain
  TriggerOn <- Predicates
  Existing = {}
  Consumers = {c1, c2}
  MaxDepth = 2
  MaxTicks = 3
  MaxAborts = 1
CHECK_DEADLOCK FALSE
SYMMETRY Symmetry
CONSTRAINT Horizon
INVARIANTS
  OneExecutingRun
  DepthBounded
PROPERTIES
  CreatedOnce
