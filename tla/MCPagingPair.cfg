SPECIFICATION Spec
CONSTANTS
  p1 = p1
  p2 = p2
  zero = zero
  one = one
  f1 = f1
  f2 = f2
  s1 = s1
  s2 = s2
  s3 = s3
  s4 = s4
  None = None
  Proc = {p1, p2}
  Data = {zero, one}
  Zero = zero
  MaxPages = 2
  RamFrame = {f1, f2}
  SwpFrame = {s1, s2, s3, s4}
SYMMETRY Symmetry
INVARIANTS
  TypeOK
  NoFrameShared
  NoFrameLost
  FifoRight
PROPERTIES
  ImplementsFlatMemory
