\* The collector is run again and again over what puts leave behind.
SPECIFICATION FairSpec
CONSTANTS
  File = {f1, f2}
  NoFile = NoFile
  Block = {b1, b2}
  NoBlock = NoBlock
  Request = {r1}
  Appender = {a1}
  Collecting = TRUE
  WriteTTL = 1
  MaxTime = 1
PROPERTY GarbageCollected
CHECK_DEADLOCK FALSE
