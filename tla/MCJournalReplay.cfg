SPECIFICATION Spec
CONSTANTS
  a = a
  b = b
  c = c
  v1 = v1
  v2 = v2
  Magic = magic
  Zapped = zapped
  Junk = junk
  FsBlock = {a, b, c}
  Value = {v1, v2, magic, zapped, junk}
  First = 1
  Total = 9
  Images <- MCImages
  MaxCrashes = 2
INVARIANTS
  TypeOK
  CleanMeansReplayed
  ReadOnlySeesReplayed
  
PROPERTIES
  LossOnlyBeforeBarrier
  ImplementsRedoLog
  
