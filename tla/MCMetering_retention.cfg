CONSTANTS
  Attempts = {a1, a2}
  Consumers = {c1}
  MaxRetries = 1
  BatchSize = 1
  MaxEntries = 2
  MaxFaults = 0
  MaxAged = 2
  ReadWithinRetention = FALSE
SPECIFICATION Spec
INVARIANT NothingLost
