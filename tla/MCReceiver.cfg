SPECIFICATION Spec
CONSTANTS
  Codes = {c1, c2, c3}
  Sessions = {0, 1, 2}
  LastSequence = 3
  None = None
SYMMETRY CodeSymmetry
INVARIANTS
  TypeOK
  NothingForgotten
PROPERTIES
  LeaseSpec
