SPECIFICATION SoundSpec4
CONSTANTS
  Vars = {x, y, z}
  Sizes = {0, 1, 3, 12, 14}
  SizeLimit = 14
  SbrkPayload = 11
  RedundantPayload = 1
  HeapMax = 12
  MaxMaps = 2
  MapCells = 16
  MaxOom = 1
  Align = 2
  HugePageLimit = 16
  ScallocHugeLimit = 11
SYMMETRY Symmetry
INVARIANTS
  NoFault
  ClientIntact
  Aligned
PROPERTY HugeStaysHuge
