SPECIFICATION Spec
CONSTANTS
  d1 = d1
  d2 = d2
  Dirs <- TwoDirs
  max_cluster = 7
  PerBlock = 3
  start <- Starts
  Fail <- NotTheLink
INVARIANTS ChainsSound Accounts BackupFollows
