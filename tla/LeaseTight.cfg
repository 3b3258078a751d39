SPECIFICATION Spec
CONSTANTS
  Interval = 3
  Delay = 2
  MaxMisses = 1
  Lease <- TightLease
INVARIANTS TypeOK NoPhantomExpiry
