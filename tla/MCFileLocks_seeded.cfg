\* Every holder has locked the file before and nobody unlocks it: the rows to
\* lock are always there.
SPECIFICATION Spec
CONSTANTS
  Holder = {ana, beto}
  NoHolder = NoHolder
  Request = {r1, r2}
  NoRequest = NoRequest
  Seeded = {ana, beto}
  Unlockers = {}
  TTL = 2
  MaxTime = 2
  MaxEpoch = 5
SYMMETRY Symmetry
INVARIANT TypeOK
INVARIANT ExclusiveUnlessOverdue
INVARIANT FrozenClientRejected
PROPERTY NobodyLocksUnderAWrite
PROPERTY EpochOnlyRises
CHECK_DEADLOCK FALSE
