\* Who waits for whom: two requests lock the rows of two holders one by one, in any
\* order, while one holder unlocks; no time passes, so locks live until unlocked.
\* Liveness, so no symmetry.
SPECIFICATION FairSpec
CONSTANTS
  Holder = {ana, beto}
  NoHolder = NoHolder
  Request = {r1, r2}
  NoRequest = NoRequest
  Seeded = {ana, beto}
  Unlockers = {ana}
  TTL = 1
  MaxTime = 0
  MaxEpoch = 4
INVARIANT OpenWriteKeepsGrant
PROPERTY Answered
CHECK_DEADLOCK FALSE
