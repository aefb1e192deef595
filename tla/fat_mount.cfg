SPECIFICATION MountedSpec
CONSTANTS
  Clusters = 2
  MaxCharsets = 2
  Failing = {}
  Masks <- SomeMasks
  ClearsSystem = FALSE
  long = long
  a1 = a1
  a2 = a2
  Absent = Absent
  Asked <- SomeNames
  Aliases <- AliasKeys
  Nodes = {f, g, dir}
  Directories = {dir}
  MaxVersion = 6
  Displays <- SomeOpts
  Unheld = {8364, 23383}
INVARIANTS Balanced CountReaches ReadBack Reload CacheTrue
CHECK_DEADLOCK FALSE
