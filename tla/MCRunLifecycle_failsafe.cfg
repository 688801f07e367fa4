SPECIFICATION LiveSpec
CONSTANTS
  Runs = {r1}
  Workers = {w1, w2}
  Watchers = {watcher}
  Reconcilers = {reconciler}
  Msgs = {m1, m2}
  NoRun = NoRun
  NoMsg = NoMsg
  Idempotent = {}
  BadAction = {}
  OneShot = {r1}
  BatchSize = 2
  MaxReceive = 2
  Grace = 2
  MaxMissed = 1
  MaxCrashes = 1
CHECK_DEADLOCK FALSE
INVARIANTS
  TypeOK
  OneTerminalEvent
PROPERTIES
  OnlyOrphansSwept
  InterruptedNotRerun
  CancelStopsDispatch
  ImplementsContract
  EventuallyTerminal
