SPECIFICATION Spec
CONSTANTS
  N = 3
  TimeMod = 3
INVARIANTS
  TypeOK
  NoLostWakeup
  ExitedLast
PROPERTIES
  TickAlone
  ImplementsBarrier
  NextSlotReturns
  TimerExits
CHECK_DEADLOCK FALSE
