SPECIFICATION Spec
CONSTANTS
  Vars = {x, y, z}
  Sizes = {1, 3, 7}
  SizeLimit = 13
  SbrkPayload = 24
  RedundantPayload = 1
  HeapMax = 24
  MaxMaps = 1
  MapCells = 26
  MaxOom = 1
SYMMETRY Symmetry
INVARIANT CopiesOldBlock
