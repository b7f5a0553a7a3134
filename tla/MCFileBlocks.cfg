SPECIFICATION Spec
CONSTANTS
  GroupSize = 7
  GroupCount = 2
  Foreign = {0, 1, 4, 6, 8, 10}
  RootMax = 2
  LeafMax = 3
  MaxExtentLen = 2
  UnitsPerBlock = 1
  MaxBlocks = 4
  MaxWrite = 2
  NewSizes = {0, 3}
  NodeHint = 0
  InitialRoots <- AnyFile
INVARIANTS
  TypeOK
  
  ReadersAgree
  IBlocksHonest
PROPERTIES
  NothingLeaked
  
CHECK_DEADLOCK FALSE
