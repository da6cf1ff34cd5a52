\* One DataNode through crashes, wiped disks, broken streams and late
\* messages, and then a calm.  Liveness, so no symmetry.
SPECIFICATION FairSpec
CONSTANTS
  Node = {d1}
  Block = {b1}
  SuspectAfter = 1
  DeadAfter = 2
  FullEvery = 2
  MaxBoot = 2
  MaxMsgs = 1
INVARIANT TypeOK
PROPERTY ViewConverges
PROPERTY JudgementConverges
CHECK_DEADLOCK FALSE
