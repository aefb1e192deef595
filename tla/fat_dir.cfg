SPECIFICATION DirSpec
CONSTANTS
  s = s
  m = m
  l = l
  b1 = b1
  b2 = b2
  t1 = t1
  t2 = t2
  r1 = r1
  Names = {s, m, l}
  Longs <- Sizes
  Base <- Stems
  Tails <- OneTail
  Random = {r1}
  NoTail = NoTail
  None = None
  dir_per_block = 2
  Start = 1
  MaxBlocks = 3
  Bad = {}
  DirFailures = {{"alloc", "crash", "erase"}, {"alloc", "sync"}}
INVARIANTS AliasUnique ListedOnce
PROPERTY OneStep
CHECK_DEADLOCK FALSE
