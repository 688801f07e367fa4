SPECIFICATION Spec
CONSTANTS
  Runs = {r1, r2}
  Workers = {w1, w2}
  Watchers = {watcher}
  Reconcilers = {reconciler}
  Msgs = {m1, m2}
  NoRun = NoRun
  NoMsg = NoMsg
  Idempotent = {r1}
  BadAction = {r2}
  OneShot = {r2}
  BatchSize = 2
  MaxReceive = 1
  Grace = 1
  MaxMissed = 0
  MaxCrashes = 1
CHECK_DEADLOCK FALSE
SYMMETRY Symmetry
INVARIANTS
  ExclusiveExecution
  NoEarlyDispatch
PROPERTIES
  TerminalFinal
