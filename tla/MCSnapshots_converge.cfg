CONSTANTS
  Accounts = {a1}
  Buckets = {1, 2}
  Controls = {c1, c2}
  Gateways = {g1}
  MaxChanges = 1
  MaxFaults = 1
SPECIFICATION FairSpec
INVARIANTS TypeOK OneOwner
PROPERTIES NoMixedVersion Converges
