SPECIFICATION Spec
CONSTANTS
  old = old
  Block = {a, b, c}
  Val = {old, v1, junk}
  Images <- MCImages
INVARIANTS
  ReplayProgress
  CleanMeansReplayed
