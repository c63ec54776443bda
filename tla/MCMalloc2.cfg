SPECIFICATION Spec
CONSTANTS
  Vars = {x, y, z}
  Sizes = {0, 1, 2, 4, 24, 31}
  SizeLimit = 30
  Meta = 2
  HeapMax = 22
SYMMETRY Symmetry
INVARIANTS HeapSound BlocksOwnedOnce
