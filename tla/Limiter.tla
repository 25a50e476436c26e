------------------------------ MODULE Limiter ------------------------------
(***************************************************************************)
(* The concurrency counters in Redis that bound a tenant and an account.   *)
(*                                                                         *)
(*   internal/gateway/limiter.go   Acquire, AcquireTenant, acquireKeys     *)
(*                                                                         *)
(* A counter lives two minutes from the moment it goes from 0 to 1, however *)
(* long the requests it counts take.  The calls per minute are not counted *)
(* here: they may refuse any request.                                      *)
(***************************************************************************)
EXTENDS Integers, FiniteSets

CONSTANTS
  Requests,
  Keys,         \* the tenant and the accounts
  Limits,       \* Limits[k]: MaxConcurrency of the tenant or account k
  FailOpen,     \* accounts whose DegradePolicy is fail_open
  MaxFaults     \* bound: Redis calls that fail

ASSUME RequestsAssumption == IsFiniteSet(Requests)
ASSUME LimitsAssumption == Limits \in [Keys -> Nat \ {0}]

VARIABLES
  count,     \* count[k]: the counter, 0 when the key does not exist
  holders,   \* holders[k]: requests whose release function will run the script
  lapsed,    \* keys that expired under requests that still run
  faults

limiterVars == <<count, holders, lapsed, faults>>

LimiterInit ==
  /\ count = [k \in Keys |-> 0]
  /\ holders = [k \in Keys |-> {}]
  /\ lapsed = {}
  /\ faults = 0

Fault == faults < MaxFaults /\ faults' = faults + 1

Incremented(k) == [count EXCEPT ![k] = @ + 1]

\* acquireScript counts the request and stays within the limit.
Grant(k, r) ==
  /\ count[k] < Limits[k]
  /\ count' = Incremented(k)
  /\ holders' = [holders EXCEPT ![k] = @ \cup {r}]
  /\ UNCHANGED <<lapsed, faults>>

\* Over the limit, or over the calls per minute: the script takes its increment
\* back.
Refuse(k) == UNCHANGED limiterVars

\* The call of the script fails, before or after the script has counted: either
\* way nobody will release.
Unreachable(k) ==
  /\ Fault
  /\ count' \in {count, IF count[k] < Limits[k] THEN Incremented(k) ELSE count}
  /\ UNCHANGED <<holders, lapsed>>

\* A tenant's limit is never lifted.
MayPass(k) == k \in FailOpen

\* releaseScript: the key is deleted rather than counted down to 0.
Decremented(k) == [count EXCEPT ![k] = IF @ <= 1 THEN 0 ELSE @ - 1]

\* Mutant: the release function of the fallback runs the script as well.
ReleaseAll(k, r) == TRUE

\* noopRelease is what a request has that passed without being counted.
CountsDown(k, r) == r \in holders[k]

\* The error of the script is dropped, so a release may be lost.
Release(k, r) ==
  /\ holders' = [holders EXCEPT ![k] = @ \ {r}]
  /\ lapsed' = IF holders'[k] = {} THEN lapsed \ {k} ELSE lapsed
  /\ \/ count' = (IF CountsDown(k, r) THEN Decremented(k) ELSE count) /\ UNCHANGED faults
     \/ CountsDown(k, r) /\ Fault /\ UNCHANGED count

\* PEXPIRE, set by the increment that created the key.
KeyExpires(k) ==
  /\ count[k] > 0
  /\ count' = [count EXCEPT ![k] = 0]
  /\ lapsed' = IF holders[k] # {} THEN lapsed \cup {k} ELSE lapsed
  /\ UNCHANGED <<holders, faults>>

\* Every request that runs under a counter is counted and the counter stays
\* within its limit, whatever releases are lost and whichever path a request
\* takes, until the counter expires under requests that still run; and without
\* faults the counter is exact, so a handler returns each slot once.
SlotsBound ==
  \A k \in Keys :
    /\ count[k] <= Limits[k]
    /\ k \notin lapsed => Cardinality(holders[k]) <= count[k]
    /\ k \notin lapsed /\ faults = 0 => count[k] = Cardinality(holders[k])
=============================================================================
