\* A node comes back with an empty disk: its MISSING rows never settle, since its
\* heartbeats are fresh, and nothing is copied.
SPECIFICATION FairSpec
CONSTANTS
  Node <- Nodes
  Block <- OneBlock
  NoNode = NoNode
  Domain <- Domains
  RF = 2
  WriteQuorum = 1
  MaxPerNode = 1
  MaxPerPass = 1
  MaxAttempts = 2
  MaxFaults = 2
  Wipes = TRUE
  Partitions = FALSE
  Removes = FALSE
CHECK_DEADLOCK FALSE
PROPERTY SelfHealing
