SPECIFICATION DriversSpec
CONSTANTS
  t1 = t1
  t2 = t2
  t3 = t3
  NULL = NULL
  Tasks <- MCTasks
  Callers <- MCCallers
  InitTasks <- MCInitTasks
  Ports = {0}
  MaxFrames = 4
INVARIANTS
  MutexOwned
  OwnAnswer
  LocksOwned
  AnswersOwn
  ServersBound
  PadTrue
PROPERTY CallsEnd
