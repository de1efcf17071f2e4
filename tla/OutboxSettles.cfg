\* More events than a batch takes, and two faults: due events and expired leases share the
\* batch, and none of them waits for ever or costs more leases than it may.
SPECIFICATION FairSpec
CONSTANTS
  Events = {1, 2}
  Drainers = {d1}
  NoOwner = NoOwner
  BatchSize = 1
  Lease = 2
  MaxAttempts = 2
  MaxBackoff = 1
  MaxStall = 1
  MaxFaults = 2
  MaxLeases = 5
  AttemptLimit = 12
  Caps = {5, 300}
INVARIANTS
  LeasesBounded
  DoublesUpToCap
PROPERTIES
  EveryEventSettles
