SPECIFICATION Spec
CONSTANTS
  Controls = {c1, c2}
  Quotas = {q1, q2, q3}
  MaxEvents = 2
  Pool = {a1, a2, a3}
  BlockedCooldown = 1
  UnknownCooldown = 3
  Escalation = 2
  SignalWindow = 1
  MaxDelay = 1
  TenantTokens = {t1}
  Publishers = {p1, p2}
  MaxEdits = 3
  MaxOutages = 2
INVARIANTS TypeOK RotationsKept NoStaleQuota CooldownsEarned
PROPERTIES ImportStands QuotaReaches AccessReaches
