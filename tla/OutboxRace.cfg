\* Two drainers over two events; a drain may outlast its lease. The outbox implements
\* EventDelivery.
SPECIFICATION Spec
CONSTANTS
  Events = {1, 2}
  Drainers = {d1, d2}
  NoOwner = NoOwner
  BatchSize = 2
  Lease = 1
  MaxAttempts = 2
  MaxBackoff = 2
  MaxStall = 1
  MaxFaults = 1
  MaxLeases = 2
  AttemptLimit = 12
  Caps = {5, 300}
SYMMETRY DrainerSymmetry
INVARIANTS
  IndInv
  ExclusiveHolder
  PublishedWasStored
  DeadLetterIsExhausted
  SendsWithinAttempts
PROPERTIES
  SettledIsFinal
  LeaseRespected
  ImplementsDelivery
