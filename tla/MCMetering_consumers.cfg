CONSTANTS
  Attempts = {a1}
  Consumers = {c1, c2}
  MaxRetries = 1
  BatchSize = 2
  MaxEntries = 3
  MaxFaults = 1
  MaxAged = 2
  ReadWithinRetention = TRUE
SPECIFICATION Spec
SYMMETRY Symmetry
INVARIANTS TypeOK NothingLost LedgerAgrees
