SPECIFICATION AccessSpec
CONSTANTS
  p1 = p1
  p2 = p2
  p3 = p3
  p4 = p4
  Tasks <- MCTasks
  Uids <- MCUids
  uid <- MCuid
  euid <- MCeuid
  Override <- MCOverride
  tty <- MCtty
  NoTty = "none"
  NoUid = NoUid
INVARIANTS OneOpen ExactCounts OneUser NotStranded OwnClone
