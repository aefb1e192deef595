SPECIFICATION StableSpec
CONSTANTS
  p1 = p1
  p2 = p2
  Procs <- TwoUsers
  NoProc = NoProc
  Byte = {0, 1}
  Zero = 0
  Null = Null
  QSets = {1, 2}
  Quanta = {1, 2}
  MaxPos = 3
  MaxCount = 2
SYMMETRY Sym
CONSTRAINT Together
INVARIANT ListRight
PROPERTY File
