\* A node dies while its notices or messages are still on their way: a copy
\* becomes STORED on a node that is DEAD.
SPECIFICATION FairSpec
CONSTANTS
  Node = {d1}
  Block = {b1}
  SuspectAfter = 1
  DeadAfter = 2
  FullEvery = 2
  MaxBoot = 2
  MaxMsgs = 1
CHECK_DEADLOCK FALSE
PROPERTY DeadHidden
