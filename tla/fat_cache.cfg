SPECIFICATION Spec
CONSTANTS
  Procs = {p1, p2}
  NoProc = NoProc
  NClusters = 4
  Files <- FewFiles
  MaxCache = 2
  IdSpace = 3
SYMMETRY Sym
INVARIANTS CacheSound RightCluster Places
CHECK_DEADLOCK FALSE
