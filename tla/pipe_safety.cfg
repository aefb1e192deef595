SPECIFICATION Spec
CONSTANTS
  p1 = p1
  p2 = p2
  p3 = p3
  Procs <- ThreeUsers
  Byte = {1}
  Garbage = Garbage
  NoProc = NoProc
  Modes <- OneWay
  BufSizes = {1, 2}
  MaxSize = 2
  MaxCount = 2
SYMMETRY Sym
INVARIANTS SemHeld NoUseAfterFree ReadersNotStranded
