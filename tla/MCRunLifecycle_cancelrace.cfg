SPECIFICATION Spec
CONSTANTS
  Runs = {r1}
  Workers = {w1}
  Watchers = {watcher}
  Reconcilers = {reconciler}
  Msgs = {m1}
  NoRun = NoRun
  NoMsg = NoMsg
  Idempotent = {}
  BadAction = {}
  OneShot = {r1}
  BatchSize = 2
  MaxReceive = 2
  Grace = 2
  MaxMissed = 1
  MaxCrashes = 0
CHECK_DEADLOCK FALSE
PROPERTIES
  RunningLeftUntouched
