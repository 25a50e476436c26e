SPECIFICATION Spec
CONSTANTS
  Requests = {r1, r2}
  Streams = {r2}
  Pool = {a1, a2}
  Tenant = tenant
  Keys = {tenant, a1, a2}
  FailOpen = {a1}
  Limits <- MCLimits
  Path <- MCPath
  MaxFaults = 1
  MaxChanges = 3
  MaxEvents = 4
INVARIANTS SlotsBound AnsweredAsRecorded CompleteIsWhole
PROPERTIES NoLockout
