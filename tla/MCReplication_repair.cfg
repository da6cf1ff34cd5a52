\* One block on three nodes in two racks: crashes, wiped disks, partitions, lost
\* orders, expired tasks and removals, two failures in all.  Liveness: no symmetry.
SPECIFICATION FairSpec
CONSTANTS
  Node <- Nodes
  Block <- OneBlock
  NoNode = NoNode
  Domain <- Domains
  RF = 2
  WriteQuorum = 1
  MaxPerNode = 1
  MaxPerPass = 1
  MaxAttempts = 2
  MaxFaults = 2
  Wipes = TRUE
  Partitions = TRUE
  Removes = TRUE
INVARIANT TypeOK
INVARIANT InFlightHasRow
PROPERTY CopyNotForgotten
PROPERTY GapRepaired
CHECK_DEADLOCK FALSE
