SPECIFICATION Spec
CONSTANTS
  Runs = {r1}
  MaxAttempts = 3
CHECK_DEADLOCK FALSE
INVARIANTS
  TypeOK
  SuccessMeansSent
  DuplicatesOwedToDoubt
PROPERTIES
  SentBlocksPost
  CrashNotResent
