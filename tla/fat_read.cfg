SPECIFICATION FairSpec
CONSTANTS
  p1 = p1
  p2 = p2
  Procs <- TwoUsers
  NoProc = NoProc
  max_cluster = 5
  blksz = 2
  sec_per_clus = 2
  data_start = 1
  Tables <- SomeTables
  Watched = 3
  Sizes = {0, 5, 10, 12}
  MaxSize = 12
  Counts = {0, 1, 3, 8}
  Fail = {"entry", "block", "user"}
INVARIANTS RightBytes Answer
PROPERTY Returns
