SPECIFICATION CarefulFairSpec
CONSTANTS
  p1 = p1
  p2 = p2
  p3 = p3
  Procs <- TwoUsers
  Byte = {0, 1}
  Garbage = Garbage
  NoProc = NoProc
  Modes <- OneWay
  BufSizes = {2, 3}
  MaxSize = 3
  MaxCount = 2
INVARIANT WritersNotStranded
PROPERTIES Progress Fifo
