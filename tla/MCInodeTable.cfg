SPECIFICATION Spec
CONSTANTS
  Superblocks <- MCSuperblocks
  TableBlock = {10, 12}
  Root = {0, 1}
  Attr = {0, 1}
  NewRoot = 0
  NewAttr = 0
  Found <- MCFound
  MaxEdits = 4
INVARIANTS
  InodeTypeOK
  SlotsApart
  NoEditReverted
  RootsOnDisk
CHECK_DEADLOCK FALSE
