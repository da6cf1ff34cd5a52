\* A full report sent before the disk was wiped is applied after the node
\* registered with its new boot.
SPECIFICATION Spec
CONSTANTS
  Node = {d1}
  Block = {b1}
  SuspectAfter = 1
  DeadAfter = 2
  FullEvery = 2
  MaxBoot = 2
  MaxMsgs = 1
CHECK_DEADLOCK FALSE
PROPERTY OldBootIgnored
