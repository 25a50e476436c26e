CONSTANTS
  c1 = c1
  c2 = c2
  t1 = t1
  t2 = t2
  m1 = m1
  r1 = r1
  r2 = r2
  q1 = q1
  q2 = q2
  k1 = k1
  Tenants = {t1}
  Requests = {q1}
  Request <- OneTopup
  MovementIds = {k1}
  RunIds = {1, 2, 3, 4, 5}
  MaxFaults = 1
  Controls = {c1, c2}
  Models = {m1}
  Units = {1}
  UnitScale = 2
  Releases = {r1, r2}
  Usage <- OneTenantUsage
  MaxTime = 2
  MaxPrices = 1
  PromptInsert = TRUE
SPECIFICATION Spec
CHECK_DEADLOCK FALSE
SYMMETRY Symmetry
INVARIANTS TypeOK SettlementsExclusive BooksBalance MoneyConserved
