\* A put gives up while its commit is being served.
SPECIFICATION Spec
CONSTANTS
  File = {f1}
  NoFile = NoFile
  Block = {b1}
  NoBlock = NoBlock
  Request = {r1, r2}
  Appender = {}
  Collecting = FALSE
  WriteTTL = 1
  MaxTime = 0
SYMMETRY Symmetry
PROPERTY AbortSparesCommitted
CHECK_DEADLOCK FALSE
