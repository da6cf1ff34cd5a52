\* The collector runs during an append.
SPECIFICATION Spec
CONSTANTS
  File = {f1}
  NoFile = NoFile
  Block = {b1, b2}
  NoBlock = NoBlock
  Request = {r1}
  Appender = {a1}
  Collecting = TRUE
  WriteTTL = 1
  MaxTime = 0
SYMMETRY Symmetry
INVARIANT VisibleReadable
CHECK_DEADLOCK FALSE
