\* Two clients append to the same file, without locking it.
SPECIFICATION Spec
CONSTANTS
  File = {f1}
  NoFile = NoFile
  Block = {b1, b2, b3}
  NoBlock = NoBlock
  Request = {r1}
  Appender = {a1, a2}
  Collecting = FALSE
  WriteTTL = 1
  MaxTime = 0
SYMMETRY Symmetry
INVARIANT SizeMatchesBlocks
CHECK_DEADLOCK FALSE
