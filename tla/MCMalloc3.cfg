SPECIFICATION SoundSpec
CONSTANTS
  Vars = {x, y, z}
  Sizes = {0, 1, 5, 14, 15}
  SizeLimit = 14
  SbrkPayload = 14
  RedundantPayload = 1
  HeapMax = 15
  MaxMaps = 1
  MapCells = 16
  MaxOom = 1
SYMMETRY Symmetry
INVARIANTS NoFault HeapWellFormed CountersExact ClientIntact
PROPERTIES
  SfreeCoalesces
  GrowsOnlyWhenNothingFits
