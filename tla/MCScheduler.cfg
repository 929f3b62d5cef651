SPECIFICATION Spec
CONSTANTS
  p1 = p1
  p2 = p2
  p3 = p3
  p4 = p4
  p5 = p5
  c1 = c1
  c2 = c2
  NULL = NULL
  Pcb = {p1, p2, p3, p4, p5}
  CPU = {c1, c2}
  prio <- mcPrio
  MAX_PRIO = 3
  MAX_QUEUE_SIZE = 2
INVARIANTS
  TypeOK
  AtMostOnePlace
  NoProcessLost
  ProcCountRight
  SlotCountRight
PROPERTIES
  NullOnlyWhenEmpty
  BoundedOvertaking
