SPECIFICATION Spec
CONSTANTS
  t1 = t1
  t2 = t2
  t3 = t3
  t4 = t4
  NULL = NULL
  None = None
  Task = {t1, t2, t3, t4}
  MAX_WORKER = 2
  Script <- mcScript
INVARIANTS
  TypeOK
  NoTaskTwice
  FuncGiven
PROPERTIES
  PoolDrains
CHECK_DEADLOCK FALSE
