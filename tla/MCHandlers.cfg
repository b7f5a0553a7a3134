SPECIFICATION Spec
CONSTANTS
  r = r
  i1 = i1
  i2 = i2
  a = a
  b = b
  Root = r
  Inode = {r, i1, i2}
  Name = {a, b}
  None = None
  Idle = Idle
  t1 = t1
  t2 = t2
  Thread = {t1, t2}
  Operations = {"create", "rename", "delete", "rmdir", "write", "set_size", "set_info", "flush", "list"}
  Trees <- MCTrees
  MaxCalls = 3
INVARIANTS
  HandlersTypeOK
  
  TreeIsSound
  NoDeadlock
PROPERTY CallsReturn
CHECK_DEADLOCK FALSE
