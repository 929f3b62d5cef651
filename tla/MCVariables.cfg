SPECIFICATION VarSpec
CONSTANTS
  r1 = r1
  r2 = r2
  r3 = r3
  Reg = {r1, r2, r3}
  b0 = b0
  b1 = b1
  Byte = {b0, b1}
  NUL = b0
  NoVariable = NoVariable
  PAGESZ = 2
  Sizes = {0, 1, 3}
  MaxBrk = 4
SYMMETRY Symmetry
INVARIANTS
  TypeOK
  VariablesDisjoint
  BytesAccountedFor
  AreaTight
  AreaMapped
PROPERTIES
  ImplementsVariables
