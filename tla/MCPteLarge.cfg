SPECIFICATION Spec
CONSTANTS
  FPN_HIBIT = 12
  RAM_BITS = 10
  SWPOFF_LOBIT = 5
  SWPOFF_HIBIT = 25
  SWPTYP = 0
  RamFrame <- mcLargeRam
  SwpFrame <- mcSwap
INVARIANT
  ReadsBack
