\* The first two locks of a file, asked for at the same time.
SPECIFICATION Spec
CONSTANTS
  Holder = {ana, beto}
  NoHolder = NoHolder
  Request = {r1, r2}
  NoRequest = NoRequest
  Seeded = {}
  Unlockers = {}
  TTL = 1
  MaxTime = 1
  MaxEpoch = 2
INVARIANT MutualExclusion
CHECK_DEADLOCK FALSE
