SPECIFICATION ProbeSpec
CONSTANTS
  Bodies <- AllDocs
  Paths <- AllPaths
  Blocks = {1, 3}
  MAX_BUFFER = 20
CHECK_DEADLOCK FALSE
INVARIANT ScalarIsWhole
