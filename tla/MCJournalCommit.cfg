SPECIFICATION CommitSpec
CONSTANTS
  a = a
  b = b
  c = c
  e = e
  v1 = v1
  v2 = v2
  Magic = magic
  Zapped = zapped
  Junk = junk
  FsBlock = {a, b, c}
  Value = {v1, v2, magic, zapped, junk}
  First = 1
  Total = 8
  Images <- MCImages
  Transactions <- MCTransactions
  Foreign <- Pair
  Buffering = {FALSE, TRUE}
  MaxCrashes = 1
  MaxTags = 2
  MaxCommits = 2
  MaxErrors = 1
INVARIANTS
  CommitTypeOK
  LogReadsBack
  CommittedInPlace
PROPERTIES
  WriteAhead
  
