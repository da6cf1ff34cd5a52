\* Two instances, the monitor's passes, a lease of two units and a clock up to two:
\* readings grow old before the row is granted, a lease is renewed, and it expires
\* and is taken over or taken back.  No epoch beyond five is ever granted, so that
\* MaxEpoch stops nobody.  Liveness, so no symmetry.
SPECIFICATION FairSpec
CONSTANTS
  Instance = {c1, c2}
  NoInstance = NoInstance
  Worker = {"membership"}
  TTL = 2
  Skew = 0
  MaxTime = 2
  MaxEpoch = 6
INVARIANT TypeOK
INVARIANT EpochIdentifiesLeader
INVARIANT WriterHoldsLease
PROPERTY FenceSpec
PROPERTY LiveLeaseNotTaken
PROPERTY Takeover
CHECK_DEADLOCK FALSE
