SPECIFICATION Spec
CONSTANTS
  a = a
  b = b
  x1 = x1
  x2 = x2
  y1 = y1
  Dirs = {a, b}
  n1 = n1
  n2 = n2
  Names = {n1, n2}
  Name <- TwoNames
  Pos = {x1, x2, y1}
  DirOf <- TwoAndOne
  Inodes = {i1, i2}
  Tags = {t1, t2}
  Empty = Empty
  None = None
  Deleted = Deleted
  MaxLinks = 2
  Failing = {"build", "dotdot"}
SYMMETRY Sym
INVARIANTS OneInode Written DirsRight Unshared
PROPERTY Atomic
CHECK_DEADLOCK FALSE
