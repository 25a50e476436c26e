CONSTANTS
  c1 = c1
  c2 = c2
  t1 = t1
  t2 = t2
  m1 = m1
  r1 = r1
  r2 = r2
  q1 = q1
  q2 = q2
  k1 = k1
  Tenants = {t1}
  Requests = {q1}
  Request <- OneTopup
  MovementIds = {k1}
  RunIds = {1, 2, 3}
  MaxFaults = 0
  Controls = {c1}
  Models = {m1}
  Units = {0, 1}
  UnitScale = 2
  Releases = {r1, r2}
  Usage <- OneTenantUsage
  MaxTime = 3
  MaxPrices = 2
  PromptInsert = FALSE
SPECIFICATION Spec
CHECK_DEADLOCK FALSE
INVARIANT BillsReplayable
