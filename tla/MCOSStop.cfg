SPECIFICATION Spec
CONSTANTS
  p1 = p1
  p2 = p2
  p3 = p3
  p4 = p4
  p5 = p5
  c1 = c1
  c2 = c2
  c3 = c3
  NULL = NULL
  Loader = Loader
  Pcb = {p1, p2, p3, p4, p5}
  CPU = {c1, c2}
  Device = {c1, c2, Loader}
  ld_processes <- mcProcesses
  prio <- mcPrio
  start_time <- mcStart
  code_size <- mcSize
  time_slot = 2
  MAX_PRIO = 2
  MAX_QUEUE_SIZE = 3
  TimeMod = 8
PROPERTY
  CpusStop
