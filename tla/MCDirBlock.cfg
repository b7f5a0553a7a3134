SPECIFICATION Spec
CONSTANTS
  na = na
  nb = nb
  nm = nm
  nlong = nlong
  i1 = i1
  i2 = i2
  Name = {na, nb, nm, nlong}
  NameLen <- MCNameLen
  Inode = {i1, i2}
  Self = Self
  Parent = Parent
  Free = Free
  BlockUnits = 12
  MaxBlocks = 2
  Other = Other
SYMMETRY Symmetry
INVARIANTS
  TypeOK
  Listable
  DotsComeFirst
PROPERTY ImplementsDirectory
CHECK_DEADLOCK FALSE
