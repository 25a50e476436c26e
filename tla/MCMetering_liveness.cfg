CONSTANTS
  Attempts = {a1, a2}
  Consumers = {c1}
  MaxRetries = 1
  BatchSize = 2
  MaxEntries = 3
  MaxFaults = 1
  MaxAged = 0
  ReadWithinRetention = TRUE
SPECIFICATION FairSpec
PROPERTIES ImplementsAccounting EveryAttemptCloses EveryEntrySettles
