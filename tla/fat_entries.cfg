SPECIFICATION Spec
CONSTANTS
  f1 = f1
  f2 = f2
  Files <- TwoFiles
  NoProc = NoProc
  max_cluster = 6
  Formats <- AllFormats
  Starts <- NextToEachOther
  Failing = {"alloc", "walk"}
INVARIANTS PointersRight SearchRight Settled
PROPERTY Volume
