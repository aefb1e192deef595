SPECIFICATION ModuleSpec
CONSTANTS
  scull_nr_devs = 2
  scull_p_nr_devs = 2
  Terminals = {k1, k2}
  MaxFiles = 1
  Failing <- Every
INVARIANT Tidy
