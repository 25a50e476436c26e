---------------------------- MODULE AccountProofs ----------------------------
(***************************************************************************)
(* What is kept of an account's credential, quota and cooldown, and of the *)
(* tokens that are published, for any number of control processes,         *)
(* accounts, tokens and events.                                            *)
(***************************************************************************)
EXTENDS MCAccounts, TLAPS

(***************************************************************************)
(* Cooldowns.                                                              *)
(***************************************************************************)

LEMMA MaxPair ==
  ASSUME NEW a \in Int, NEW b \in Int
  PROVE  Max({a, b}) \in {a, b} /\ Max({a, b}) >= a /\ Max({a, b}) >= b
<1>1. PICK x \in {a, b} : \A y \in {a, b} : x >= y OBVIOUS
<1>2. Max({a, b}) \in {a, b} /\ \A y \in {a, b} : Max({a, b}) >= y BY <1>1 DEF Max
<1>3. QED BY <1>2

LEMMA MinPair ==
  ASSUME NEW a \in Int, NEW b \in Int
  PROVE  Min({a, b}) \in {a, b} /\ Min({a, b}) <= a /\ Min({a, b}) <= b
<1>1. PICK x \in {a, b} : \A y \in {a, b} : x <= y OBVIOUS
<1>2. Min({a, b}) \in {a, b} /\ \A y \in {a, b} : Min({a, b}) <= y BY <1>1 DEF Min
<1>3. QED BY <1>2

\* What is left of a cooldown a tick later.
LEMMA Ticked ==
  ASSUME NEW n \in Nat
  PROVE  /\ Max({n - 1, 0}) \in 0 .. n
         /\ \A m \in Nat : n <= m => Max({n - 1, 0}) \in 0 .. m
<1>1. n - 1 \in Int /\ 0 \in Int OBVIOUS
<1>2. Max({n - 1, 0}) \in {n - 1, 0} /\ Max({n - 1, 0}) >= 0 BY <1>1, MaxPair
<1>3. QED BY <1>1, <1>2

\* One more failure, and one more tick, counted up to a limit.
LEMMA CountedUp ==
  ASSUME NEW n \in Nat, NEW m \in 0 .. n
  PROVE  /\ Min({m + 1, n}) \in 0 .. n
         /\ n > 0 => Min({m + 1, n}) > 0
         /\ m + 1 >= n => Min({m + 1, n}) = n
<1>1. m + 1 \in Int /\ n \in Int /\ m + 1 > 0 OBVIOUS
<1>2. Min({m + 1, n}) \in {m + 1, n} /\ Min({m + 1, n}) <= n BY <1>1, MinPair
<1>3. QED BY <1>1, <1>2

LEMMA CountedFacts ==
  ASSUME NEW n \in 0 .. Escalation, NEW class
  PROVE  /\ Counted(n, class) \in 0 .. Escalation
         /\ class # "ok" /\ n = Escalation => Counted(n, class) = Escalation
         /\ class # "ok" /\ (class \in Counting \/ n > 0) => Counted(n, class) > 0
         /\ class # "ok" /\ class \in Counting /\ n + 1 >= Escalation =>
              Counted(n, class) = Escalation
<1>1. Escalation \in Nat /\ Escalation > 0 /\ 0 \in 0 .. Escalation /\ n \in Int BY CooldownAssumption
<1>2. /\ Min({n + 1, Escalation}) \in 0 .. Escalation /\ Min({n + 1, Escalation}) > 0
      /\ n + 1 >= Escalation => Min({n + 1, Escalation}) = Escalation
  BY <1>1, CountedUp
<1>3. CASE class = "ok"
  <2>1. Counted(n, class) = 0 BY <1>3 DEF Counted, Counting
  <2>2. QED BY <1>1, <1>3, <2>1
<1>4. CASE class # "ok" /\ class \in Counting
  <2>1. Counted(n, class) = Min({n + 1, Escalation}) BY <1>4 DEF Counted
  <2>2. QED BY <1>1, <1>2, <1>4, <2>1
<1>5. CASE class # "ok" /\ class \notin Counting
  <2>1. Counted(n, class) = n BY <1>5 DEF Counted
  <2>2. QED BY <1>1, <1>5, <2>1
<1>6. QED BY <1>3, <1>4, <1>5

\* The cooldown after a release is none, what ran, or what the class asks for.
LEMMA CooledFacts ==
  ASSUME NEW a \in Pool, NEW class \in Classes, NEW delay \in 0 .. MaxDelay,
         cool[a] \in 0 .. UnknownCooldown
  PROVE  /\ Cooled(a, class, delay) \in 0 .. UnknownCooldown
         /\ class = "ok" => Cooled(a, class, delay) = 0
         /\ Cooled(a, class, delay) > 0 /\ Cooled(a, class, delay) # cool[a] => class \in Counting
         /\ Cooled(a, class, delay) > BlockedCooldown /\ Cooled(a, class, delay) # cool[a] =>
              class \in Counting /\ Escalates(a)
<1>1. /\ BlockedCooldown \in Nat /\ UnknownCooldown \in Nat /\ MaxDelay \in Nat
      /\ BlockedCooldown <= UnknownCooldown
  BY CooldownAssumption
<1>2. ASSUME NEW n \in Nat, n <= UnknownCooldown
      PROVE  /\ Longest(a, n - delay) \in 0 .. UnknownCooldown
             /\ Longest(a, n - delay) = cool[a] \/ Longest(a, n - delay) <= n
  <2>1. n - delay \in Int /\ n - delay <= n /\ cool[a] \in Int BY <1>1, <1>2
  <2>2. Max({n - delay, cool[a]}) \in {n - delay, cool[a]} /\ Max({n - delay, cool[a]}) >= cool[a]
    BY <2>1, MaxPair
  <2>3. QED BY <1>1, <1>2, <2>1, <2>2 DEF Longest
<1>3. CASE class = "ok"
  <2>1. Cooled(a, class, delay) = 0 BY <1>3 DEF Cooled
  <2>2. QED BY <1>1, <2>1
<1>4. CASE class = "blocked"
  <2>1. Cooled(a, class, delay) = Longest(a, BlockedCooldown - delay) BY <1>4 DEF Cooled
  <2>2. /\ Longest(a, BlockedCooldown - delay) \in 0 .. UnknownCooldown
        /\ Longest(a, BlockedCooldown - delay) = cool[a] \/ Longest(a, BlockedCooldown - delay) <= BlockedCooldown
    BY <1>1, <1>2
  <2>3. QED BY <1>1, <1>4, <2>1, <2>2 DEF Counting
<1>5. CASE class = "rate_limited_unknown" /\ Escalates(a)
  <2>1. Cooled(a, class, delay) = Longest(a, UnknownCooldown - delay) BY <1>5 DEF Cooled
  <2>2. QED BY <1>1, <1>2, <1>5, <2>1 DEF Counting
<1>6. CASE class \notin {"ok", "blocked"} /\ ~(class = "rate_limited_unknown" /\ Escalates(a))
  <2>1. Cooled(a, class, delay) = cool[a] BY <1>6 DEF Cooled
  <2>2. QED BY <1>6, <2>1
<1>7. QED BY <1>3, <1>4, <1>5, <1>6

LEMMA HealthTypesStep ==
  ASSUME HealthTypeOK, [HealthNext]_healthVars
  PROVE  HealthTypeOK'
<1>1. enabled \in [Pool -> BOOLEAN] BY DEF HealthTypeOK
<1>2. streak \in [Pool -> 0 .. Escalation] BY DEF HealthTypeOK
<1>3. seenAt \in [Pool -> 0 .. SignalWindow] BY DEF HealthTypeOK
<1>4. alert \in BOOLEAN BY DEF HealthTypeOK
<1>5. Escalation \in Nat /\ SignalWindow \in Nat /\ UnknownCooldown \in Nat BY CooldownAssumption
<1>6. cool \in [Pool -> 0 .. UnknownCooldown] BY DEF HealthTypeOK
<1>7. ASSUME NEW a \in Pool, NEW class \in Classes, NEW delay \in 0 .. MaxDelay,
             ApplyRelease(a, class, delay)
      PROVE  HealthTypeOK'
  <2>1. enabled' \in [Pool -> BOOLEAN]
    <3>1. enabled' = [enabled EXCEPT ![a] = enabled[a] /\ class # "auth_invalid"] BY <1>7 DEF ApplyRelease
    <3>2. QED BY <1>1, <3>1
  <2>2. streak' \in [Pool -> 0 .. Escalation]
    <3>1. streak' = [streak EXCEPT ![a] = Counted(streak[a], class)] BY <1>7 DEF ApplyRelease
    <3>2. Counted(streak[a], class) \in 0 .. Escalation BY <1>2, CountedFacts DEF Counting
    <3>3. QED BY <1>2, <3>1, <3>2
  <2>4. seenAt' \in [Pool -> 0 .. SignalWindow]
    <3>1. seenAt' = seenAt \/ seenAt' = [seenAt EXCEPT ![a] = 0] BY <1>7 DEF ApplyRelease, Observe
    <3>2. QED BY <1>3, <1>5, <3>1
  <2>5. alert' \in BOOLEAN
    <3> DEFINE n == Cardinality({b \in Pool : seenAt'[b] < SignalWindow})
    <3>1. alert' = alert \/ alert' = (n >= 2) BY <1>7 DEF ApplyRelease, Observe
    <3> HIDE DEF n
    <3>2. (n >= 2) \in BOOLEAN OBVIOUS
    <3>3. QED BY <1>4, <3>1, <3>2, Zenon
  <2>6. cool' \in [Pool -> 0 .. UnknownCooldown]
    <3>1. cool' = [cool EXCEPT ![a] = Cooled(a, class, delay)] BY <1>7 DEF ApplyRelease
    <3>2. Cooled(a, class, delay) \in 0 .. UnknownCooldown BY <1>6, CooledFacts
    <3>3. QED BY <1>6, <3>1, <3>2
  <2>7. QED BY <2>1, <2>2, <2>4, <2>5, <2>6 DEF HealthTypeOK
<1>8. ASSUME NEW a \in Pool, ReleaseStarvedCooldowns(a) \/ ClearCooldown(a)
      PROVE  HealthTypeOK'
  <2>1. /\ cool' = [cool EXCEPT ![a] = 0] /\ streak' = [streak EXCEPT ![a] = 0]
        /\ UNCHANGED <<enabled, seenAt, alert>>
    BY <1>8 DEF ReleaseStarvedCooldowns, ClearCooldown
  <2>2. streak' \in [Pool -> 0 .. Escalation] BY <1>2, <1>5, <2>1
  <2>3. cool' \in [Pool -> 0 .. UnknownCooldown] BY <1>5, <1>6, <2>1
  <2>4. QED BY <1>1, <1>3, <1>4, <2>1, <2>2, <2>3 DEF HealthTypeOK
<1>9. ASSUME NEW a \in Pool, ToggleStatus(a) PROVE HealthTypeOK'
  <2>1. enabled' \in [Pool -> BOOLEAN] BY <1>1, <1>9 DEF ToggleStatus
  <2>2. UNCHANGED <<cool, streak, seenAt, alert>> BY <1>9 DEF ToggleStatus
  <2>3. QED BY <1>2, <1>3, <1>4, <1>6, <2>1, <2>2 DEF HealthTypeOK
<1>10. CASE Passing
  <2>1. \A a \in Pool : Min({seenAt[a] + 1, SignalWindow}) \in 0 .. SignalWindow
    BY <1>3, <1>5, CountedUp
  <2>2. /\ seenAt' = [a \in Pool |-> Min({seenAt[a] + 1, SignalWindow})]
        /\ cool' = [a \in Pool |-> Max({cool[a] - 1, 0})]
        /\ UNCHANGED <<enabled, streak, alert>>
    BY <1>10 DEF Passing
  <2>3. seenAt' \in [Pool -> 0 .. SignalWindow] BY <2>1, <2>2
  <2>4. ASSUME NEW a \in Pool PROVE Max({cool[a] - 1, 0}) \in 0 .. UnknownCooldown
    <3>1. cool[a] \in Nat /\ cool[a] <= UnknownCooldown BY <1>5, <1>6
    <3>2. QED BY <1>5, <3>1, Ticked
  <2>5. cool' \in [Pool -> 0 .. UnknownCooldown] BY <2>2, <2>4
  <2>6. QED BY <1>1, <1>2, <1>4, <2>2, <2>3, <2>5 DEF HealthTypeOK
<1>11. CASE UNCHANGED healthVars BY <1>11 DEF healthVars, HealthTypeOK
<1>12. QED BY <1>7, <1>8, <1>9, <1>10, <1>11 DEF HealthNext

LEMMA EarnedStep ==
  ASSUME HealthTypeOK, CooldownsEarned, [HealthNext]_healthVars
  PROVE  CooldownsEarned'
<1>1. cool \in [Pool -> 0 .. UnknownCooldown] /\ streak \in [Pool -> 0 .. Escalation]
  BY DEF HealthTypeOK
<1>2. /\ Escalation \in Nat /\ Escalation > 0 /\ UnknownCooldown \in Nat /\ BlockedCooldown \in Nat
      /\ \A n \in 0 .. UnknownCooldown : n \in Int /\ n >= 0
  BY CooldownAssumption
<1>3. \A b \in Pool : /\ cool[b] > 0 => streak[b] > 0
                      /\ cool[b] > BlockedCooldown => streak[b] = Escalation
  BY DEF CooldownsEarned
<1>4. ASSUME NEW a \in Pool, NEW class \in Classes, NEW delay \in 0 .. MaxDelay,
             ApplyRelease(a, class, delay)
      PROVE  CooldownsEarned'
  <2>1. /\ cool' = [cool EXCEPT ![a] = Cooled(a, class, delay)]
        /\ streak' = [streak EXCEPT ![a] = Counted(streak[a], class)]
    BY <1>4 DEF ApplyRelease
  <2>2. \A b \in Pool \ {a} : cool'[b] = cool[b] /\ streak'[b] = streak[b] BY <1>1, <2>1
  <2>3. cool'[a] = Cooled(a, class, delay) /\ streak'[a] = Counted(streak[a], class)
    BY <1>1, <2>1
  <2>4. cool[a] \in 0 .. UnknownCooldown /\ streak[a] \in 0 .. Escalation BY <1>1
  <2>5. /\ cool'[a] \in 0 .. UnknownCooldown /\ (class = "ok" => cool'[a] = 0)
        /\ cool'[a] > 0 /\ cool'[a] # cool[a] => class \in Counting
        /\ cool'[a] > BlockedCooldown /\ cool'[a] # cool[a] => class \in Counting /\ Escalates(a)
    BY <2>3, <2>4, CooledFacts
  <2>6. /\ class # "ok" /\ streak[a] = Escalation => streak'[a] = Escalation
        /\ class # "ok" /\ (class \in Counting \/ streak[a] > 0) => streak'[a] > 0
        /\ class # "ok" /\ class \in Counting /\ streak[a] + 1 >= Escalation => streak'[a] = Escalation
    BY <2>3, <2>4, CountedFacts DEF Counting
  <2>7. cool'[a] > 0 => streak'[a] > 0 BY <1>2, <1>3, <2>4, <2>5, <2>6
  <2>8. cool'[a] > BlockedCooldown => streak'[a] = Escalation
    BY <1>2, <1>3, <2>4, <2>5, <2>6 DEF Escalates
  <2>9. QED BY <1>3, <2>2, <2>7, <2>8 DEF CooldownsEarned
<1>5. ASSUME NEW a \in Pool, ReleaseStarvedCooldowns(a) \/ ClearCooldown(a)
      PROVE  CooldownsEarned'
  <2>1. cool' = [cool EXCEPT ![a] = 0] /\ streak' = [streak EXCEPT ![a] = 0]
    BY <1>5 DEF ReleaseStarvedCooldowns, ClearCooldown
  <2>2. \A b \in Pool \ {a} : cool'[b] = cool[b] /\ streak'[b] = streak[b] BY <1>1, <2>1
  <2>3. cool'[a] = 0 BY <1>1, <2>1
  <2>4. ~(cool'[a] > 0) /\ ~(cool'[a] > BlockedCooldown) BY <1>2, <2>3
  <2>5. QED BY <1>3, <2>2, <2>4 DEF CooldownsEarned
<1>6. CASE Passing
  <2>1. cool' = [a \in Pool |-> Max({cool[a] - 1, 0})] /\ streak' = streak BY <1>6 DEF Passing
  <2>2. ASSUME NEW a \in Pool PROVE Max({cool[a] - 1, 0}) \in 0 .. cool[a]
    <3>1. cool[a] \in Nat BY <1>1, <1>2
    <3>2. QED BY <3>1, Ticked
  <2>3. \A a \in Pool : cool'[a] \in 0 .. cool[a] /\ cool[a] \in Nat BY <1>1, <2>1, <2>2
  <2>4. QED BY <1>2, <1>3, <2>1, <2>3 DEF CooldownsEarned
<1>7. CASE UNCHANGED <<cool, streak>> BY <1>7, <1>3 DEF CooldownsEarned
<1>8. QED BY <1>4, <1>5, <1>6, <1>7 DEF HealthNext, healthVars, ToggleStatus

LEMMA HealthStart == HealthInit => HealthTypeOK /\ CooldownsEarned
<1>1. /\ 0 \in 0 .. UnknownCooldown /\ 0 \in 0 .. Escalation /\ SignalWindow \in 0 .. SignalWindow
      /\ ~(0 > 0) /\ ~(0 > BlockedCooldown)
  BY CooldownAssumption
<1>2. HealthInit => HealthTypeOK BY <1>1 DEF HealthInit, HealthTypeOK
<1>3. HealthInit => CooldownsEarned BY <1>1 DEF HealthInit, CooldownsEarned
<1>4. QED BY <1>2, <1>3

\* For any pool, any cooldowns and any delay: a cooldown stands on failures that
\* are still counted, and the long one on unknownRateLimitEscalation of them
\* (applyReleaseAuthority, ReleaseStarvedCooldowns).
THEOREM CooldownsAreEarned == HealthSpec => []CooldownsEarned
<1>1. HealthTypeOK /\ CooldownsEarned /\ [HealthNext]_healthVars => HealthTypeOK' /\ CooldownsEarned'
  BY HealthTypesStep, EarnedStep
<1>2. QED BY <1>1, HealthStart, PTL DEF HealthSpec

(***************************************************************************)
(* Where the processes are, and what they have in hand.                    *)
(***************************************************************************)

Items == {NoItem} \cup [quota : Quotas, fresh : BOOLEAN, ready : BOOLEAN]

\* Which loop a process is in shows in where it is; the snapshot loop and an
\* idle process have no lock, and a quota about to be stored is one the provider
\* gave.
Placed(c) ==
  /\ task[c] = "none" <=> pc[c] = "idle"
  /\ task[c] = "snapshot" <=> pc[c] \in {"epoch", "script"}
  /\ lock = c => task[c] \in {"refresh", "quota", "reconcile"}
  /\ pc[c] = "queue" => got[c] \in Quotas

CredInv == CredTypeOK /\ \A c \in Controls : Placed(c)

\* The actions of Credentials, in groups that touch the same state.
Fencing(c) ==
  \/ \E t \in {"refresh", "quota"} : ListAccounts(c, t)
  \/ TryLock(c) \/ Acquire(c) \/ ReadCredential(c) \/ Fail(c) \/ Commit(c)

Calling(c) ==
  \/ \E rotated \in BOOLEAN : Refreshed(c, rotated)
  \/ Refused(c) \/ CallFails(c) \/ AnswerLost(c) \/ \E q \in Quotas : QuotaAnswer(c, q)

Storing(c) ==
  CommitQuotaAndQueue(c) \/ LoadBucket(c) \/ PublishQuota(c) \/ CallToStoreFails(c)

Reconciling(c) ==
  \/ AckQuotaOutbox(c) \/ ClaimQuotaOutbox(c) \/ LockItem(c) \/ CheckFence(c)
  \/ DropStale(c) \/ RetryQuotaOutbox(c)

Listing(c) ==
  \/ ListSnapshotAccounts(c) \/ ReadEpoch(c) \/ PublishBucket(c)
  \/ LoseSession(c) \/ Crash(c)

Operating ==
  ItemDue \/ SetStatus \/ ClearAccount \/ Import \/ ReleaseRejected


\* A mark that is set to what it is.
LEMMA SameMark ==
  ASSUME NEW a, NEW b, NEW d
  PROVE  /\ [[quota |-> a, fresh |-> b, ready |-> d] EXCEPT !.fresh = b] = [quota |-> a, fresh |-> b, ready |-> d]
         /\ [[quota |-> a, fresh |-> b, ready |-> d] EXCEPT !.ready = d] = [quota |-> a, fresh |-> b, ready |-> d]
OBVIOUS

\* Moving the epoch, leasing and releasing a row keep it a row.
LEMMA ItemMarks ==
  ASSUME NEW o \in Items
  PROVE  /\ o.fresh \in BOOLEAN /\ o.quota \in Quotas \cup {Absent}
         /\ [o EXCEPT !.fresh = FALSE] \in Items /\ [o EXCEPT !.ready = FALSE] \in Items
         /\ o # NoItem => /\ [o EXCEPT !.ready = TRUE] \in Items
                          /\ [o EXCEPT !.fresh = FALSE] # NoItem
                          /\ [o EXCEPT !.ready = FALSE] # NoItem
                          /\ [o EXCEPT !.ready = TRUE] # NoItem
<1>1. CASE o = NoItem
  <2>1. o.fresh = FALSE /\ o.ready = FALSE /\ o.quota = Absent BY <1>1 DEF NoItem
  <2>2. [o EXCEPT !.fresh = FALSE] = NoItem /\ [o EXCEPT !.ready = FALSE] = NoItem
    BY <1>1, SameMark DEF NoItem
  <2>3. NoItem \in Items BY DEF Items
  <2>4. QED BY <1>1, <2>1, <2>2, <2>3
<1>2. CASE o \in [quota : Quotas, fresh : BOOLEAN, ready : BOOLEAN]
  <2>1. o.fresh \in BOOLEAN /\ o.quota \in Quotas BY <1>2
  <2>2. ASSUME NEW r \in [quota : Quotas, fresh : BOOLEAN, ready : BOOLEAN]
        PROVE  r \in Items /\ r # NoItem
    <3>1. r.quota # Absent BY QuotasAssumption
    <3>2. NoItem.quota = Absent BY DEF NoItem
    <3>3. QED BY <3>1, <3>2 DEF Items
  <2>3. [o EXCEPT !.fresh = FALSE] \in [quota : Quotas, fresh : BOOLEAN, ready : BOOLEAN] BY <1>2
  <2>4. [o EXCEPT !.ready = FALSE] \in [quota : Quotas, fresh : BOOLEAN, ready : BOOLEAN] BY <1>2
  <2>5. [o EXCEPT !.ready = TRUE] \in [quota : Quotas, fresh : BOOLEAN, ready : BOOLEAN] BY <1>2
  <2>6. QED BY <2>1, <2>2, <2>3, <2>4, <2>5
<1>3. QED BY <1>1, <1>2 DEF Items

LEMMA CredInvStep ==
  ASSUME CredInv, [CredNext]_credVars
  PROVE  CredInv'
<1>1. status \in {"active", "disabled", "refused", "expired"} BY DEF CredInv, CredTypeOK
<1>2. secret \in Tokens /\ held \in [Controls -> Tokens] BY DEF CredInv, CredTypeOK
<1>3. quota \in Quotas /\ got \in [Controls -> Quotas \cup {Absent}] /\ snap \in Quotas \cup {Absent}
  BY DEF CredInv, CredTypeOK
<1>4. lock \in Controls \cup {Nobody} BY DEF CredInv, CredTypeOK
<1>5. task \in [Controls -> Tasks] /\ pc \in [Controls -> Steps] BY DEF CredInv, CredTypeOK
<1>6. fenced \in [Controls -> BOOLEAN] BY DEF CredInv, CredTypeOK
<1>7. mine \in [Controls -> BOOLEAN] /\ valid \in [Controls -> BOOLEAN] BY DEF CredInv, CredTypeOK
<1>8. events \in 0 .. MaxEvents BY DEF CredInv, CredTypeOK
<1>9. interfered \in BOOLEAN /\ lostLock \in BOOLEAN BY DEF CredInv, CredTypeOK
<1>10. \A d \in Controls : Placed(d) BY DEF CredInv
<1>11. outbox \in Items BY DEF CredInv, CredTypeOK, Items
<1>12. \A d \in Controls : mine[d] => outbox # NoItem BY DEF CredInv, CredTypeOK
<1>13. outbox.fresh \in BOOLEAN /\ outbox.quota \in Quotas \cup {Absent} BY <1>11, ItemMarks
<1>14. \A d \in Controls : pc[d] = "queue" => got[d] \in Quotas BY <1>10 DEF Placed
<1>21. ASSUME NEW c \in Controls, Fencing(c) PROVE CredInv'
  <2> USE <1>21 DEF Fencing, ListAccounts, TryLock, Acquire, Bump, ReadCredential, Fail, Commit,
      Goto, Return, Leave, account
  <2>1. status' \in {"active", "disabled", "refused", "expired"} BY <1>1
  <2>2. secret' \in Tokens BY <1>2 DEF Tokens
  <2>3. held' \in [Controls -> Tokens] BY <1>2 DEF Tokens
  <2>4. quota' \in Quotas BY <1>3, <1>14
  <2>5. got' \in [Controls -> Quotas \cup {Absent}] BY <1>3, <1>13
  <2>6. snap' \in Quotas \cup {Absent} BY <1>3
  <2>7. lock' \in Controls \cup {Nobody} BY <1>4 DEF Unlocked
  <2>8. task' \in [Controls -> Tasks] BY <1>5 DEF Tasks
  <2>9. pc' \in [Controls -> Steps] BY <1>5 DEF Steps
  <2>10. fenced' \in [Controls -> BOOLEAN] BY <1>6, <1>13
  <2>11. mine' \in [Controls -> BOOLEAN] BY <1>7
  <2>12. valid' \in [Controls -> BOOLEAN] BY <1>7 DEF EpochIsCurrent
  <2>13. events' \in 0 .. MaxEvents BY <1>8, EventsAssumption DEF Event
  <2>14. interfered' \in BOOLEAN BY <1>9 DEF history
  <2>15. lostLock' \in BOOLEAN BY <1>9 DEF history
  <2>16. outbox' \in Items /\ (outbox # NoItem => outbox' # NoItem)
    <3>1. outbox' \in {outbox, [outbox EXCEPT !.fresh = FALSE]} OBVIOUS
    <3>2. QED BY <1>11, <3>1, ItemMarks
  <2>17. \A d \in Controls : mine'[d] => outbox' # NoItem BY <1>7, <1>12, <2>16
  <2>18. \A d \in Controls \ {c} : Placed(d)'
    <3>1. \A d \in Controls \ {c} : pc'[d] = pc[d] /\ task'[d] = task[d] BY <1>5
    <3>2. \A d \in Controls \ {c} : got'[d] = got[d] BY <1>3
    <3>3. \A d \in Controls \ {c} : lock' = d => lock = d BY ControlsAssumption DEF Unlocked
    <3>4. QED BY <1>10, <3>1, <3>2, <3>3 DEF Placed
  <2>19. Placed(c)'
    <3>1. Placed(c) /\ task[c] \in Tasks BY <1>5, <1>10
    <3>2. /\ task'[c] = "none" <=> pc'[c] = "idle"
          /\ task'[c] = "snapshot" <=> pc'[c] \in {"epoch", "script"}
      BY <1>5, <3>1 DEF Placed
    <3>3. lock' = c => task'[c] \in {"refresh", "quota", "reconcile"}
      BY <1>5, <3>1, ControlsAssumption DEF Placed, Tasks, Unlocked
    <3>4. pc'[c] = "queue" => got'[c] \in Quotas BY <1>3, <1>5, <3>1 DEF Placed
    <3>5. QED BY <3>2, <3>3, <3>4 DEF Placed
  <2>20. QED
    BY <2>1, <2>2, <2>3, <2>4, <2>5, <2>6, <2>7, <2>8, <2>9, <2>10, <2>11, <2>12, <2>13, <2>14,
       <2>15, <2>16, <2>17, <2>18, <2>19
    DEF CredInv, CredTypeOK, Items, Placed
<1>22. ASSUME NEW c \in Controls, Calling(c) PROVE CredInv'
  <2> USE <1>22 DEF Calling, Refreshed, Refused, CallFails, AnswerLost, QuotaAnswer, At, Goto,
      Return, Leave, account
  <2>1. status' \in {"active", "disabled", "refused", "expired"} BY <1>1
  <2>2. secret' \in Tokens BY <1>2 DEF Tokens
  <2>3. held' \in [Controls -> Tokens] BY <1>2 DEF Tokens
  <2>4. quota' \in Quotas BY <1>3, <1>14
  <2>5. got' \in [Controls -> Quotas \cup {Absent}] BY <1>3, <1>13
  <2>6. snap' \in Quotas \cup {Absent} BY <1>3
  <2>7. lock' \in Controls \cup {Nobody} BY <1>4 DEF Unlocked
  <2>8. task' \in [Controls -> Tasks] BY <1>5 DEF Tasks
  <2>9. pc' \in [Controls -> Steps] BY <1>5 DEF Steps
  <2>10. fenced' \in [Controls -> BOOLEAN] BY <1>6, <1>13
  <2>11. mine' \in [Controls -> BOOLEAN] BY <1>7
  <2>12. valid' \in [Controls -> BOOLEAN] BY <1>7 DEF EpochIsCurrent
  <2>13. events' \in 0 .. MaxEvents BY <1>8, EventsAssumption DEF Event
  <2>14. interfered' \in BOOLEAN BY <1>9 DEF history
  <2>15. lostLock' \in BOOLEAN BY <1>9 DEF history
  <2>16. outbox' \in Items /\ (outbox # NoItem => outbox' # NoItem) BY <1>11
  <2>17. \A d \in Controls : mine'[d] => outbox' # NoItem BY <1>7, <1>12, <2>16
  <2>18. \A d \in Controls \ {c} : Placed(d)'
    <3>1. \A d \in Controls \ {c} : pc'[d] = pc[d] /\ task'[d] = task[d] BY <1>5
    <3>2. \A d \in Controls \ {c} : got'[d] = got[d] BY <1>3
    <3>3. \A d \in Controls \ {c} : lock' = d => lock = d BY ControlsAssumption DEF Unlocked
    <3>4. QED BY <1>10, <3>1, <3>2, <3>3 DEF Placed
  <2>19. Placed(c)'
    <3>1. Placed(c) /\ task[c] \in Tasks BY <1>5, <1>10
    <3>2. /\ task'[c] = "none" <=> pc'[c] = "idle"
          /\ task'[c] = "snapshot" <=> pc'[c] \in {"epoch", "script"}
      BY <1>5, <3>1 DEF Placed
    <3>3. lock' = c => task'[c] \in {"refresh", "quota", "reconcile"}
      BY <1>5, <3>1, ControlsAssumption DEF Placed, Tasks, Unlocked
    <3>4. pc'[c] = "queue" => got'[c] \in Quotas BY <1>3, <1>5, <3>1 DEF Placed
    <3>5. QED BY <3>2, <3>3, <3>4 DEF Placed
  <2>20. QED
    BY <2>1, <2>2, <2>3, <2>4, <2>5, <2>6, <2>7, <2>8, <2>9, <2>10, <2>11, <2>12, <2>13, <2>14,
       <2>15, <2>16, <2>17, <2>18, <2>19
    DEF CredInv, CredTypeOK, Items, Placed
<1>23. ASSUME NEW c \in Controls, Storing(c) PROVE CredInv'
  <2> USE <1>23 DEF Storing, CommitQuotaAndQueue, LoadBucket, PublishQuota, CallToStoreFails,
      PublishFails, Script, Goto, Return, Leave, account
  <2>1. status' \in {"active", "disabled", "refused", "expired"} BY <1>1
  <2>2. secret' \in Tokens BY <1>2 DEF Tokens
  <2>3. held' \in [Controls -> Tokens] BY <1>2 DEF Tokens
  <2>4. quota' \in Quotas BY <1>3, <1>14
  <2>5. got' \in [Controls -> Quotas \cup {Absent}] BY <1>3, <1>13
  <2>6. snap' \in Quotas \cup {Absent} BY <1>3
  <2>7. lock' \in Controls \cup {Nobody} BY <1>4 DEF Unlocked
  <2>8. task' \in [Controls -> Tasks] BY <1>5 DEF Tasks
  <2>9. pc' \in [Controls -> Steps] BY <1>5 DEF Steps
  <2>10. fenced' \in [Controls -> BOOLEAN] BY <1>6, <1>13
  <2>11. mine' \in [Controls -> BOOLEAN] BY <1>7
  <2>12. valid' \in [Controls -> BOOLEAN] BY <1>7 DEF EpochIsCurrent
  <2>13. events' \in 0 .. MaxEvents BY <1>8, EventsAssumption DEF Event
  <2>14. interfered' \in BOOLEAN BY <1>9 DEF history
  <2>15. lostLock' \in BOOLEAN BY <1>9 DEF history
  <2>16. outbox' \in Items /\ (outbox # NoItem => outbox' # NoItem)
    <3>1. \/ outbox' = outbox
          \/ pc[c] = "queue" /\ outbox' = [quota |-> got[c], fresh |-> TRUE, ready |-> TRUE]
      OBVIOUS
    <3>2. CASE outbox' = outbox BY <1>11, <3>2
    <3>3. CASE pc[c] = "queue" /\ outbox' = [quota |-> got[c], fresh |-> TRUE, ready |-> TRUE]
      <4>1. got[c] \in Quotas /\ got[c] # Absent BY <1>14, <3>3, QuotasAssumption
      <4>2. outbox' \in Items BY <3>3, <4>1 DEF Items
      <4>3. outbox'.quota # NoItem.quota BY <3>3, <4>1 DEF NoItem
      <4>4. QED BY <4>2, <4>3
    <3>4. QED BY <3>1, <3>2, <3>3
  <2>17. \A d \in Controls : mine'[d] => outbox' # NoItem 
    <3>1. (\A d \in Controls : mine'[d] => mine[d]) \/ outbox' # NoItem BY <1>7 DEF NoItem
    <3>2. QED BY <1>12, <2>16, <3>1
  <2>18. \A d \in Controls \ {c} : Placed(d)'
    <3>1. \A d \in Controls \ {c} : pc'[d] = pc[d] /\ task'[d] = task[d] BY <1>5
    <3>2. \A d \in Controls \ {c} : got'[d] = got[d] BY <1>3
    <3>3. \A d \in Controls \ {c} : lock' = d => lock = d BY ControlsAssumption DEF Unlocked
    <3>4. QED BY <1>10, <3>1, <3>2, <3>3 DEF Placed
  <2>19. Placed(c)'
    <3>1. Placed(c) /\ task[c] \in Tasks BY <1>5, <1>10
    <3>2. /\ task'[c] = "none" <=> pc'[c] = "idle"
          /\ task'[c] = "snapshot" <=> pc'[c] \in {"epoch", "script"}
      BY <1>5, <3>1 DEF Placed
    <3>3. lock' = c => task'[c] \in {"refresh", "quota", "reconcile"}
      BY <1>5, <3>1, ControlsAssumption DEF Placed, Tasks, Unlocked
    <3>4. pc'[c] = "queue" => got'[c] \in Quotas BY <1>3, <1>5, <3>1 DEF Placed
    <3>5. QED BY <3>2, <3>3, <3>4 DEF Placed
  <2>20. QED
    BY <2>1, <2>2, <2>3, <2>4, <2>5, <2>6, <2>7, <2>8, <2>9, <2>10, <2>11, <2>12, <2>13, <2>14,
       <2>15, <2>16, <2>17, <2>18, <2>19
    DEF CredInv, CredTypeOK, Items, Placed
<1>24. ASSUME NEW c \in Controls, Reconciling(c) PROVE CredInv'
  <2> USE <1>24 DEF Reconciling, AckQuotaOutbox, ClaimQuotaOutbox, LockItem, CheckFence,
      DropStale, RetryQuotaOutbox, Remove, Goto, Return, Leave, account
  <2>1. status' \in {"active", "disabled", "refused", "expired"} BY <1>1
  <2>2. secret' \in Tokens BY <1>2 DEF Tokens
  <2>3. held' \in [Controls -> Tokens] BY <1>2 DEF Tokens
  <2>4. quota' \in Quotas BY <1>3, <1>14
  <2>5. got' \in [Controls -> Quotas \cup {Absent}] BY <1>3, <1>13
  <2>6. snap' \in Quotas \cup {Absent} BY <1>3
  <2>7. lock' \in Controls \cup {Nobody} BY <1>4 DEF Unlocked
  <2>8. task' \in [Controls -> Tasks] BY <1>5 DEF Tasks
  <2>9. pc' \in [Controls -> Steps] BY <1>5 DEF Steps
  <2>10. fenced' \in [Controls -> BOOLEAN] BY <1>6, <1>13
  <2>11. mine' \in [Controls -> BOOLEAN] BY <1>7
  <2>12. valid' \in [Controls -> BOOLEAN] BY <1>7 DEF EpochIsCurrent
  <2>13. events' \in 0 .. MaxEvents BY <1>8, EventsAssumption DEF Event
  <2>14. interfered' \in BOOLEAN BY <1>9 DEF history
  <2>15. lostLock' \in BOOLEAN BY <1>9 DEF history
  <2>16. outbox' \in Items
    <3>1. outbox' \in {outbox, NoItem, [outbox EXCEPT !.ready = FALSE]} OBVIOUS
    <3>2. NoItem \in Items BY DEF Items
    <3>3. QED BY <1>11, <3>1, <3>2, ItemMarks
  <2>17. \A d \in Controls : mine'[d] => outbox' # NoItem 
    <3>1. \/ \A d \in Controls : ~mine'[d]
          \/ outbox' = outbox /\ \A d \in Controls : mine'[d] => mine[d]
          \/ /\ outbox' = [outbox EXCEPT !.ready = FALSE]
             /\ outbox # NoItem \/ \A d \in Controls : mine'[d] => mine[d]
      BY <1>7
    <3>2. QED BY <1>11, <1>12, <3>1, ItemMarks
  <2>18. \A d \in Controls \ {c} : Placed(d)'
    <3>1. \A d \in Controls \ {c} : pc'[d] = pc[d] /\ task'[d] = task[d] BY <1>5
    <3>2. \A d \in Controls \ {c} : got'[d] = got[d] BY <1>3
    <3>3. \A d \in Controls \ {c} : lock' = d => lock = d BY ControlsAssumption DEF Unlocked
    <3>4. QED BY <1>10, <3>1, <3>2, <3>3 DEF Placed
  <2>19. Placed(c)'
    <3>1. Placed(c) /\ task[c] \in Tasks BY <1>5, <1>10
    <3>2. /\ task'[c] = "none" <=> pc'[c] = "idle"
          /\ task'[c] = "snapshot" <=> pc'[c] \in {"epoch", "script"}
      BY <1>5, <3>1 DEF Placed
    <3>3. lock' = c => task'[c] \in {"refresh", "quota", "reconcile"}
      BY <1>5, <3>1, ControlsAssumption DEF Placed, Tasks, Unlocked
    <3>4. pc'[c] = "queue" => got'[c] \in Quotas BY <1>3, <1>5, <3>1 DEF Placed
    <3>5. QED BY <3>2, <3>3, <3>4 DEF Placed
  <2>20. QED
    BY <2>1, <2>2, <2>3, <2>4, <2>5, <2>6, <2>7, <2>8, <2>9, <2>10, <2>11, <2>12, <2>13, <2>14,
       <2>15, <2>16, <2>17, <2>18, <2>19
    DEF CredInv, CredTypeOK, Items, Placed
<1>25. ASSUME NEW c \in Controls, Listing(c) PROVE CredInv'
  <2> USE <1>25 DEF Listing, ListSnapshotAccounts, ReadEpoch, PublishBucket, LoseSession, Crash,
      Goto, Return, Leave, account, process
  <2>1. status' \in {"active", "disabled", "refused", "expired"} BY <1>1
  <2>2. secret' \in Tokens BY <1>2 DEF Tokens
  <2>3. held' \in [Controls -> Tokens] BY <1>2 DEF Tokens
  <2>4. quota' \in Quotas BY <1>3, <1>14
  <2>5. got' \in [Controls -> Quotas \cup {Absent}] BY <1>3, <1>13
  <2>6. snap' \in Quotas \cup {Absent} BY <1>3
  <2>7. lock' \in Controls \cup {Nobody} BY <1>4 DEF Unlocked
  <2>8. task' \in [Controls -> Tasks] BY <1>5 DEF Tasks
  <2>9. pc' \in [Controls -> Steps] BY <1>5 DEF Steps
  <2>10. fenced' \in [Controls -> BOOLEAN] BY <1>6, <1>13
  <2>11. mine' \in [Controls -> BOOLEAN] BY <1>7
  <2>12. valid' \in [Controls -> BOOLEAN] BY <1>7 DEF EpochIsCurrent
  <2>13. events' \in 0 .. MaxEvents BY <1>8, EventsAssumption DEF Event
  <2>14. interfered' \in BOOLEAN BY <1>9 DEF history
  <2>15. lostLock' \in BOOLEAN BY <1>9 DEF history
  <2>16. outbox' \in Items /\ (outbox # NoItem => outbox' # NoItem) BY <1>11
  <2>17. \A d \in Controls : mine'[d] => outbox' # NoItem BY <1>7, <1>12, <2>16
  <2>18. \A d \in Controls \ {c} : Placed(d)'
    <3>1. \A d \in Controls \ {c} : pc'[d] = pc[d] /\ task'[d] = task[d] BY <1>5
    <3>2. \A d \in Controls \ {c} : got'[d] = got[d] BY <1>3
    <3>3. \A d \in Controls \ {c} : lock' = d => lock = d BY ControlsAssumption DEF Unlocked
    <3>4. QED BY <1>10, <3>1, <3>2, <3>3 DEF Placed
  <2>19. Placed(c)'
    <3>1. Placed(c) /\ task[c] \in Tasks BY <1>5, <1>10
    <3>2. /\ task'[c] = "none" <=> pc'[c] = "idle"
          /\ task'[c] = "snapshot" <=> pc'[c] \in {"epoch", "script"}
      BY <1>5, <3>1 DEF Placed
    <3>3. lock' = c => task'[c] \in {"refresh", "quota", "reconcile"}
      BY <1>5, <3>1, ControlsAssumption DEF Placed, Tasks, Unlocked
    <3>4. pc'[c] = "queue" => got'[c] \in Quotas BY <1>3, <1>5, <3>1 DEF Placed
    <3>5. QED BY <3>2, <3>3, <3>4 DEF Placed
  <2>20. QED
    BY <2>1, <2>2, <2>3, <2>4, <2>5, <2>6, <2>7, <2>8, <2>9, <2>10, <2>11, <2>12, <2>13, <2>14,
       <2>15, <2>16, <2>17, <2>18, <2>19
    DEF CredInv, CredTypeOK, Items, Placed
<1>26. CASE Operating
  <2> USE <1>26 DEF Operating, ItemDue, SetStatus, ClearAccount, AccountAction, Import,
      ReleaseRejected, BumpAll, process
  <2>1. status' \in {"active", "disabled", "refused", "expired"} BY <1>1
  <2>2. secret' \in Tokens BY <1>2 DEF Tokens
  <2>3. held' \in [Controls -> Tokens] BY <1>2 DEF Tokens
  <2>4. quota' \in Quotas BY <1>3, <1>14
  <2>5. got' \in [Controls -> Quotas \cup {Absent}] BY <1>3, <1>13
  <2>6. snap' \in Quotas \cup {Absent} BY <1>3
  <2>7. lock' \in Controls \cup {Nobody} BY <1>4 DEF Unlocked
  <2>8. task' \in [Controls -> Tasks] BY <1>5 DEF Tasks
  <2>9. pc' \in [Controls -> Steps] BY <1>5 DEF Steps
  <2>10. fenced' \in [Controls -> BOOLEAN] BY <1>6, <1>13
  <2>11. mine' \in [Controls -> BOOLEAN] BY <1>7
  <2>12. valid' \in [Controls -> BOOLEAN] BY <1>7 DEF EpochIsCurrent
  <2>13. events' \in 0 .. MaxEvents 
    <3>1. events' = events \/ (events < MaxEvents /\ events' = events + 1) BY DEF Event
    <3>2. QED BY <1>8, <3>1, EventsAssumption
  <2>14. interfered' \in BOOLEAN BY <1>9 DEF history
  <2>15. lostLock' \in BOOLEAN BY <1>9 DEF history
  <2>16. outbox' \in Items /\ (outbox # NoItem => outbox' # NoItem)
    <3>1. \/ outbox' \in {outbox, [outbox EXCEPT !.fresh = FALSE]}
          \/ outbox # NoItem /\ outbox' = [outbox EXCEPT !.ready = TRUE]
      OBVIOUS
    <3>2. QED BY <1>11, <3>1, ItemMarks
  <2>17. \A d \in Controls : mine'[d] => outbox' # NoItem BY <1>7, <1>12, <2>16
  <2>18. \A d \in Controls : Placed(d)'
    <3>1. UNCHANGED <<pc, task, got, lock>> OBVIOUS
    <3>2. QED BY <1>10, <3>1 DEF Placed
  <2>20. QED
    BY <2>1, <2>2, <2>3, <2>4, <2>5, <2>6, <2>7, <2>8, <2>9, <2>10, <2>11, <2>12, <2>13, <2>14,
       <2>15, <2>16, <2>17, <2>18
    DEF CredInv, CredTypeOK, Items, Placed
<1>27. CASE UNCHANGED credVars
  BY <1>27 DEF credVars, account, process, history, CredInv, CredTypeOK, Placed
<1>28. QED
  BY <1>21, <1>22, <1>23, <1>24, <1>25, <1>26, <1>27
  DEF CredNext, CredStep, RefreshStep, QuotaStep, SnapshotStep, Fencing, Calling, Storing,
      Reconciling, Listing, Operating

LEMMA CredInvInit == CredInit => CredInv
<1>1. (CHOOSE q \in Quotas : TRUE) \in Quotas BY QuotasAssumption
<1>2. SUFFICES ASSUME CredInit PROVE CredInv OBVIOUS
<1>3. quota \in Quotas /\ snap \in Quotas BY <1>1, <1>2 DEF CredInit
<1>4. CredTypeOK
  <2>1. /\ task \in [Controls -> Tasks] /\ pc \in [Controls -> Steps]
        /\ held \in [Controls -> Tokens] /\ secret \in Tokens
    BY <1>2 DEF CredInit, Tokens, Tasks, Steps
  <2>2. /\ fenced \in [Controls -> BOOLEAN] /\ mine \in [Controls -> BOOLEAN]
        /\ valid \in [Controls -> BOOLEAN] /\ interfered \in BOOLEAN /\ lostLock \in BOOLEAN
    BY <1>2 DEF CredInit
  <2>3. /\ status \in {"active", "disabled", "refused", "expired"} /\ outbox = NoItem
        /\ lock \in Controls \cup {Nobody} /\ got \in [Controls -> Quotas \cup {Absent}]
        /\ events \in 0 .. MaxEvents
    BY <1>2, EventsAssumption DEF CredInit
  <2>4. ASSUME NEW c \in Controls
        PROVE  task[c] = "none" /\ pc[c] = "idle" /\ lock # c /\ ~mine[c]
    BY <1>2, ControlsAssumption DEF CredInit
  <2>5. QED BY <1>3, <2>1, <2>2, <2>3, <2>4 DEF CredTypeOK
<1>5. \A c \in Controls : Placed(c) BY <1>2, ControlsAssumption DEF CredInit, Placed
<1>6. QED BY <1>4, <1>5 DEF CredInv

(***************************************************************************)
(* Refreshes and imports.                                                  *)
(***************************************************************************)

\* Where a refresh works with an epoch of its own.
Epoched == {"read", "call", "commit", "fail"}

FencedTypes ==
  /\ pc \in [Controls -> Steps] /\ task \in [Controls -> Tasks]
  /\ fenced = [c \in Controls |-> fenced[c]] /\ held \in [Controls -> Tokens]
  /\ secret \in Tokens

\* A refresh from before an import has lost its fence.
NotReplaced(c) == pc[c] \in {"call", "commit", "fail"} /\ fenced[c] => held[c] # "old"

\* While nothing has cut into a refresh, who works with the current epoch has
\* the lock, and the token that the provider accepts.
Undisturbed(c) ==
  /\ pc[c] = "acquire" => lock = c
  /\ pc[c] \in Epoched /\ fenced[c] => lock = c
  /\ InFlight(c) => fenced[c]
  /\ pc[c] \in {"call", "commit"} /\ fenced[c] => held[c] = "live"
  /\ task[c] = "refresh" /\ pc[c] = "fail" => ~fenced[c]

\* What the account's row has, whoever works on it.
Stored == secret # "old" /\ (status = "refused" => interfered)

\* A token that has been used up has its successor on the way.
Rotating ==
  secret = "dead" /\ ~interfered =>
    \E c \in Controls : At(c, "refresh", "commit") /\ held[c] = "live" /\ fenced[c]

FenceInv ==
  /\ FencedTypes /\ Stored /\ Rotating
  /\ \A c \in Controls : NotReplaced(c)
  /\ interfered \/ \A c \in Controls : Undisturbed(c)

\* A process goes on where no fence or token of its own matters.
Retires(c) ==
  /\ \A d \in Controls \ {c} : /\ pc'[d] = pc[d] /\ task'[d] = task[d]
                               /\ fenced'[d] = fenced[d] /\ held'[d] = held[d]
                               /\ lock = d => lock' = d
  /\ pc'[c] \notin Epoched \cup {"acquire"}
  /\ UNCHANGED <<secret, status>>
  /\ interfered => interfered'
  /\ InFlight(c) /\ pc[c] = "commit" /\ fenced[c] => interfered'

\* The steps that do not matter to the credential.
LEMMA RetiresCases ==
  ASSUME FencedTypes, NEW c \in Controls,
         \/ \E t \in {"refresh", "quota"} : ListAccounts(c, t)
         \/ TryLock(c) /\ pc'[c] # "acquire"
         \/ ReadCredential(c) /\ pc'[c] # "call"
         \/ CallFails(c) \/ \E q \in Quotas : QuotaAnswer(c, q)
         \/ CommitQuotaAndQueue(c) \/ LoadBucket(c) \/ PublishQuota(c) \/ CallToStoreFails(c)
         \/ AckQuotaOutbox(c) \/ ClaimQuotaOutbox(c) \/ LockItem(c) \/ CheckFence(c) \/ DropStale(c)
         \/ RetryQuotaOutbox(c) \/ ListSnapshotAccounts(c) \/ ReadEpoch(c) \/ PublishBucket(c)
         \/ Crash(c)
  PROVE  Retires(c)
<1>0. /\ pc \in [Controls -> Steps] /\ task \in [Controls -> Tasks]
      /\ fenced = [d \in Controls |-> fenced[d]] /\ held \in [Controls -> Tokens]
  BY DEF FencedTypes
<1>1. \A d \in Controls \ {c} : pc'[d] = pc[d] /\ task'[d] = task[d]
  BY <1>0 DEF ListAccounts, TryLock, ReadCredential, CallFails, QuotaAnswer, CommitQuotaAndQueue,
     LoadBucket, PublishQuota, PublishFails, CallToStoreFails, AckQuotaOutbox, ClaimQuotaOutbox,
     LockItem, CheckFence, DropStale, RetryQuotaOutbox, ListSnapshotAccounts, ReadEpoch,
     PublishBucket, Crash, Goto, Return, Leave
<1>2. \A d \in Controls \ {c} : fenced'[d] = fenced[d]
  BY <1>0 DEF ListAccounts, TryLock, ReadCredential, CallFails, QuotaAnswer, CommitQuotaAndQueue,
     LoadBucket, PublishQuota, PublishFails, CallToStoreFails, AckQuotaOutbox, ClaimQuotaOutbox,
     LockItem, CheckFence, DropStale, RetryQuotaOutbox, ListSnapshotAccounts, ReadEpoch,
     PublishBucket, Crash, Return, Leave
<1>3. \A d \in Controls \ {c} : held'[d] = held[d]
  BY <1>0 DEF ListAccounts, TryLock, ReadCredential, CallFails, QuotaAnswer, CommitQuotaAndQueue,
     LoadBucket, PublishQuota, PublishFails, CallToStoreFails, AckQuotaOutbox, ClaimQuotaOutbox,
     LockItem, CheckFence, DropStale, RetryQuotaOutbox, ListSnapshotAccounts, ReadEpoch,
     PublishBucket, Crash, Return, Leave
<1>4. \A d \in Controls \ {c} : lock = d => lock' = d
  BY ControlsAssumption
  DEF ListAccounts, TryLock, LockFree, ReadCredential, CallFails, QuotaAnswer, CommitQuotaAndQueue,
     LoadBucket, PublishQuota, PublishFails, CallToStoreFails, AckQuotaOutbox, ClaimQuotaOutbox,
     LockItem, CheckFence, DropStale, RetryQuotaOutbox, ListSnapshotAccounts, ReadEpoch,
     PublishBucket, Crash, Return, Leave, Unlocked
<1>5. pc'[c] \notin Epoched \cup {"acquire"}
  BY <1>0 DEF ListAccounts, TryLock, ReadCredential, CallFails, QuotaAnswer, CommitQuotaAndQueue,
     LoadBucket, PublishQuota, PublishFails, CallToStoreFails, AckQuotaOutbox, ClaimQuotaOutbox,
     LockItem, CheckFence, DropStale, RetryQuotaOutbox, ListSnapshotAccounts, ReadEpoch,
     PublishBucket, Crash, Goto, Return, Leave, Epoched
<1>6. UNCHANGED <<secret, status>> /\ (interfered => interfered')
  <2>1. UNCHANGED <<secret, status>>
    BY DEF ListAccounts, TryLock, ReadCredential, CallFails, QuotaAnswer, CommitQuotaAndQueue,
       LoadBucket, PublishQuota, PublishFails, CallToStoreFails, AckQuotaOutbox, ClaimQuotaOutbox,
       LockItem, CheckFence, DropStale, RetryQuotaOutbox, ListSnapshotAccounts, ReadEpoch,
       PublishBucket, Crash, account
  <2>2. UNCHANGED interfered \/ Crash(c)
    BY DEF ListAccounts, TryLock, ReadCredential, CallFails, QuotaAnswer, CommitQuotaAndQueue,
       LoadBucket, PublishQuota, PublishFails, CallToStoreFails, AckQuotaOutbox, ClaimQuotaOutbox,
       LockItem, CheckFence, DropStale, RetryQuotaOutbox, ListSnapshotAccounts, ReadEpoch,
       PublishBucket, history
  <2>3. CASE UNCHANGED interfered BY <2>1, <2>3
  <2>4. CASE Crash(c)
    <3>1. interfered' = (interfered \/ (InFlight(c) /\ pc[c] = "commit")) BY <2>4 DEF Crash
    <3>2. QED BY <2>1, <3>1, Zenon
  <2>5. QED BY <2>2, <2>3, <2>4
<1>7. InFlight(c) /\ pc[c] = "commit" /\ fenced[c] => interfered'
  BY DEF ListAccounts, TryLock, ReadCredential, CallFails, QuotaAnswer, CommitQuotaAndQueue,
     LoadBucket, PublishQuota, PublishFails, CallToStoreFails, AckQuotaOutbox, ClaimQuotaOutbox,
     LockItem, CheckFence, DropStale, RetryQuotaOutbox, ListSnapshotAccounts, ReadEpoch,
     PublishBucket, Crash, At
<1>8. QED BY <1>1, <1>2, <1>3, <1>4, <1>5, <1>6, <1>7 DEF Retires

LEMMA RetiresInv ==
  ASSUME FenceInv, NEW c \in Controls, Retires(c), FencedTypes'
  PROVE  FenceInv'
<1>1. Stored' BY DEF FenceInv, Stored, Retires
<1>2. \A d \in Controls : NotReplaced(d)'
  <2>1. NotReplaced(c)' BY DEF NotReplaced, Retires, Epoched
  <2>2. ASSUME NEW d \in Controls \ {c} PROVE NotReplaced(d)'
    BY DEF FenceInv, NotReplaced, Retires
  <2>3. QED BY <2>1, <2>2
<1>3. interfered' \/ \A d \in Controls : Undisturbed(d)'
  <2>1. SUFFICES ASSUME ~interfered' PROVE \A d \in Controls : Undisturbed(d)' OBVIOUS
  <2>2. Undisturbed(c)' BY DEF Undisturbed, Retires, Epoched, InFlight
  <2>3. ASSUME NEW d \in Controls \ {c} PROVE Undisturbed(d)'
    <3>1. Undisturbed(d) BY <2>1 DEF FenceInv, Retires
    <3>2. QED BY <3>1 DEF Undisturbed, Retires, InFlight
  <2>4. QED BY <2>2, <2>3
<1>4. Rotating'
  <2>1. SUFFICES ASSUME secret' = "dead", ~interfered'
                 PROVE  \E d \in Controls : (At(d, "refresh", "commit") /\ held[d] = "live" /\ fenced[d])'
    BY DEF Rotating
  <2>2. PICK d \in Controls : At(d, "refresh", "commit") /\ held[d] = "live" /\ fenced[d]
    BY <2>1 DEF FenceInv, Rotating, Retires
  <2>3. d # c BY <2>1, <2>2 DEF Retires, InFlight, At
  <2>4. QED BY <2>2, <2>3 DEF Retires, At
<1>5. QED BY <1>1, <1>2, <1>3, <1>4 DEF FenceInv

LEMMA LockStep ==
  ASSUME FenceInv, FencedTypes', NEW c \in Controls,
         \/ TryLock(c) /\ pc'[c] = "acquire"
         \/ Acquire(c)
  PROVE  FenceInv'
<1>0. pc \in [Controls -> Steps] /\ Nobody \notin Controls
  BY ControlsAssumption DEF FenceInv, FencedTypes
<1>1. CASE TryLock(c) /\ pc'[c] = "acquire"
  <2>1. /\ lock = Nobody /\ lock' = c /\ pc' = [pc EXCEPT ![c] = "acquire"]
        /\ UNCHANGED <<secret, status, task, fenced, held, interfered>>
    BY <1>0, <1>1 DEF TryLock, LockFree, Leave, Return, Goto, account, history
  <2>2. \A d \in Controls : NotReplaced(d)' BY <1>0, <2>1 DEF FenceInv, NotReplaced
  <2>3. interfered' \/ \A d \in Controls : Undisturbed(d)'
    BY <1>0, <2>1 DEF FenceInv, Undisturbed, Epoched, InFlight
  <2>4. Stored' BY <2>1 DEF FenceInv, Stored
  <2>5. Rotating'
    <3>1. SUFFICES ASSUME secret = "dead", ~interfered PROVE FALSE BY <2>1 DEF Rotating
    <3>2. PICK d \in Controls : pc[d] = "commit" /\ fenced[d]
      BY <3>1 DEF FenceInv, Rotating, At
    <3>3. lock = d BY <3>1, <3>2 DEF FenceInv, Undisturbed, Epoched
    <3>4. QED BY <1>0, <2>1, <3>3
  <2>6. QED BY <2>2, <2>3, <2>4, <2>5 DEF FenceInv
<1>2. CASE Acquire(c)
  <2>1. /\ pc[c] = "acquire" /\ pc' = [pc EXCEPT ![c] = "read"]
        /\ fenced' = [d \in Controls |-> d = c]
        /\ UNCHANGED <<secret, status, task, lock, held, interfered>>
    BY <1>2 DEF Acquire, Bump, Goto, history
  <2>2. \A d \in Controls : NotReplaced(d)' BY <1>0, <2>1 DEF FenceInv, NotReplaced
  <2>3. ASSUME ~interfered, NEW d \in Controls, d # c
        PROVE  ~(pc[d] \in Epoched /\ fenced[d])
    <3>1. lock = c BY <2>1, <2>3 DEF FenceInv, Undisturbed
    <3>2. pc[d] \in Epoched /\ fenced[d] => lock = d BY <2>3 DEF FenceInv, Undisturbed
    <3>3. QED BY <2>3, <3>1, <3>2
  <2>4. interfered' \/ \A d \in Controls : Undisturbed(d)'
    <3>1. SUFFICES ASSUME ~interfered, NEW d \in Controls PROVE Undisturbed(d)' BY <2>1
    <3>2. Undisturbed(d) /\ Undisturbed(c) BY <3>1 DEF FenceInv
    <3>3. CASE d = c BY <1>0, <2>1, <3>2, <3>3 DEF Undisturbed, Epoched, InFlight
    <3>4. CASE d # c
      <4>1. ~(pc[d] \in Epoched /\ fenced[d]) /\ pc'[d] = pc[d] /\ ~fenced'[d]
        BY <1>0, <2>1, <2>3, <3>1, <3>4
      <4>2. ~InFlight(d) BY <3>2, <4>1 DEF Undisturbed, Epoched, InFlight
      <4>3. ~InFlight(d)' BY <2>1, <4>1, <4>2 DEF InFlight
      <4>4. QED BY <2>1, <3>2, <4>1, <4>3 DEF Undisturbed
    <3>5. QED BY <3>3, <3>4
  <2>5. Stored' BY <2>1 DEF FenceInv, Stored
  <2>6. Rotating'
    <3>1. SUFFICES ASSUME secret = "dead", ~interfered PROVE FALSE BY <2>1 DEF Rotating
    <3>2. PICK d \in Controls : pc[d] = "commit" /\ fenced[d]
      BY <3>1 DEF FenceInv, Rotating, At
    <3>3. d # c BY <2>1, <3>2
    <3>4. QED BY <2>3, <3>1, <3>2, <3>3 DEF Epoched
  <2>7. QED BY <2>2, <2>4, <2>5, <2>6 DEF FenceInv
<1>3. QED BY <1>1, <1>2

LEMMA CallStep ==
  ASSUME FenceInv, FencedTypes', NEW c \in Controls,
         \/ ReadCredential(c) /\ pc'[c] = "call"
         \/ Refused(c)
         \/ \E rotated \in BOOLEAN : Refreshed(c, rotated)
  PROVE  FenceInv'
<1>0. pc \in [Controls -> Steps] /\ held \in [Controls -> Tokens] /\ secret \in Tokens
  BY DEF FenceInv, FencedTypes
<1>1. CASE ReadCredential(c) /\ pc'[c] = "call"
  <2>1. /\ pc[c] = "read" /\ fenced[c]
        /\ pc' = [pc EXCEPT ![c] = "call"] /\ held' = [held EXCEPT ![c] = secret]
        /\ UNCHANGED <<secret, status, task, lock, fenced, interfered>>
    BY <1>0, <1>1 DEF ReadCredential, Leave, Return, Goto, account, history
  <2>2. secret # "old" BY DEF FenceInv, Stored
  <2>3. \A d \in Controls : NotReplaced(d)' BY <1>0, <2>1, <2>2 DEF FenceInv, NotReplaced
  <2>4. ASSUME ~interfered PROVE secret = "live"
    <3>1. SUFFICES ASSUME secret = "dead" PROVE FALSE BY <1>0, <2>2 DEF Tokens
    <3>2. PICK d \in Controls : pc[d] = "commit" /\ fenced[d]
      BY <2>4, <3>1 DEF FenceInv, Rotating, At
    <3>3. lock = d /\ lock = c BY <2>1, <2>4, <3>2 DEF FenceInv, Undisturbed, Epoched
    <3>4. QED BY <2>1, <3>2, <3>3
  <2>5. interfered' \/ \A d \in Controls : Undisturbed(d)'
    <3>1. SUFFICES ASSUME ~interfered, NEW d \in Controls PROVE Undisturbed(d)' BY <2>1
    <3>2. Undisturbed(d) BY <3>1 DEF FenceInv
    <3>3. CASE d = c BY <1>0, <2>1, <2>4, <3>1, <3>2, <3>3 DEF Undisturbed, Epoched, InFlight
    <3>4. CASE d # c BY <1>0, <2>1, <3>2, <3>4 DEF Undisturbed, InFlight
    <3>5. QED BY <3>3, <3>4
  <2>6. Stored' BY <2>1 DEF FenceInv, Stored
  <2>7. Rotating'
    <3>1. CASE interfered BY <2>1, <3>1 DEF Rotating
    <3>2. CASE ~interfered
      <4>1. secret' = "live" BY <2>1, <2>4, <3>2
      <4>2. QED BY <4>1 DEF Rotating
    <3>3. QED BY <3>1, <3>2
  <2>8. QED BY <2>3, <2>5, <2>6, <2>7 DEF FenceInv
<1>2. CASE Refused(c)
  <2>1. /\ pc[c] = "call" /\ (task[c] = "refresh" => held[c] # "live") /\ pc' = [pc EXCEPT ![c] = "fail"]
        /\ UNCHANGED <<secret, status, task, lock, fenced, held, interfered>>
    BY <1>2 DEF Refused, Goto, account, history
  <2>2. \A d \in Controls : NotReplaced(d)' BY <1>0, <2>1 DEF FenceInv, NotReplaced
  <2>3. interfered' \/ \A d \in Controls : Undisturbed(d)'
    <3>1. SUFFICES ASSUME ~interfered, NEW d \in Controls PROVE Undisturbed(d)' BY <2>1
    <3>2. Undisturbed(d) BY <3>1 DEF FenceInv
    <3>3. CASE d = c BY <1>0, <2>1, <3>2, <3>3 DEF Undisturbed, Epoched, InFlight
    <3>4. CASE d # c BY <1>0, <2>1, <3>2, <3>4 DEF Undisturbed, InFlight
    <3>5. QED BY <3>3, <3>4
  <2>4. Stored' BY <2>1 DEF FenceInv, Stored
  <2>5. Rotating' BY <1>0, <2>1 DEF FenceInv, Rotating, At
  <2>6. QED BY <2>2, <2>3, <2>4, <2>5 DEF FenceInv
<1>3. ASSUME NEW rotated \in BOOLEAN, Refreshed(c, rotated) PROVE FenceInv'
  <2>1. /\ task[c] = "refresh" /\ pc[c] = "call" /\ held[c] # "dead"
        /\ pc' = [pc EXCEPT ![c] = "commit"]
        /\ UNCHANGED <<status, task, lock, fenced, interfered>>
    BY <1>3 DEF Refreshed, At, Goto, history
  <2>2. CASE UNCHANGED <<secret, held>>
    <3>1. \A d \in Controls : NotReplaced(d)' BY <1>0, <2>1, <2>2 DEF FenceInv, NotReplaced
    <3>2. interfered' \/ \A d \in Controls : Undisturbed(d)'
      <4>1. SUFFICES ASSUME ~interfered, NEW d \in Controls PROVE Undisturbed(d)' BY <2>1
      <4>2. Undisturbed(d) BY <4>1 DEF FenceInv
      <4>3. CASE d = c BY <1>0, <2>1, <2>2, <4>2, <4>3 DEF Undisturbed, Epoched, InFlight
      <4>4. CASE d # c BY <1>0, <2>1, <2>2, <4>2, <4>4 DEF Undisturbed, InFlight
      <4>5. QED BY <4>3, <4>4
    <3>3. Stored' BY <2>1, <2>2 DEF FenceInv, Stored
    <3>4. Rotating' BY <1>0, <2>1, <2>2 DEF FenceInv, Rotating, At
    <3>5. QED BY <3>1, <3>2, <3>3, <3>4 DEF FenceInv
  <2>3. CASE rotated /\ held[c] = "live"
    <3>1. /\ secret' = IF secret = "live" THEN "dead" ELSE secret
          /\ held' = [d \in Controls |->
                        IF d # c /\ held[d] = "live" THEN "dead" ELSE held[d]]
      BY <1>3, <2>3 DEF Refreshed
    <3>2. \A d \in Controls : NotReplaced(d)' BY <1>0, <2>1, <3>1 DEF FenceInv, NotReplaced
    <3>3. ASSUME ~interfered PROVE fenced[c] /\ lock = c
      BY <2>1, <2>3, <3>3 DEF FenceInv, Undisturbed, InFlight, Epoched
    <3>4. interfered' \/ \A d \in Controls : Undisturbed(d)'
      <4>1. SUFFICES ASSUME ~interfered, NEW d \in Controls PROVE Undisturbed(d)' BY <2>1
      <4>2. Undisturbed(d) BY <4>1 DEF FenceInv
      <4>3. CASE d = c BY <1>0, <2>1, <2>3, <3>1, <3>3, <4>1, <4>2, <4>3 DEF Undisturbed, Epoched, InFlight
      <4>4. CASE d # c
        <5>1. pc'[d] = pc[d] /\ held'[d] # "live" BY <1>0, <2>1, <3>1, <4>4
        <5>2. ~(pc[d] \in Epoched /\ fenced[d])
          BY <3>3, <4>1, <4>2, <4>4 DEF Undisturbed
        <5>3. QED BY <2>1, <4>2, <5>1, <5>2 DEF Undisturbed, InFlight, Epoched
      <4>5. QED BY <4>3, <4>4
    <3>5. Stored' BY <2>1, <3>1 DEF FenceInv, Stored
    <3>6. Rotating'
      <4>1. SUFFICES ASSUME ~interfered
                     PROVE  (At(c, "refresh", "commit") /\ held[c] = "live" /\ fenced[c])'
        BY <2>1 DEF Rotating
      <4>2. QED BY <1>0, <2>1, <2>3, <3>1, <3>3, <4>1 DEF At
    <3>7. QED BY <3>2, <3>4, <3>5, <3>6 DEF FenceInv
  <2>4. QED BY <1>3, <2>2, <2>3 DEF Refreshed
<1>4. QED BY <1>1, <1>2, <1>3

LEMMA StoreStep ==
  ASSUME FenceInv, FencedTypes', NEW c \in Controls, Commit(c) \/ Fail(c) \/ AnswerLost(c)
  PROVE  FenceInv'
<1>0. /\ pc \in [Controls -> Steps] /\ task \in [Controls -> Tasks]
      /\ fenced = [d \in Controls |-> fenced[d]] /\ held \in [Controls -> Tokens]
      /\ secret \in Tokens
  BY DEF FenceInv, FencedTypes
<1>1. /\ pc'[c] = "idle" /\ task'[c] = "none" /\ ~fenced'[c] /\ held'[c] = "dead"
      /\ \A d \in Controls \ {c} : /\ pc'[d] = pc[d] /\ task'[d] = task[d]
                                   /\ fenced'[d] = fenced[d] /\ held'[d] = held[d]
                                   /\ lock = d => lock' = d
  <2>1. Leave(c) BY DEF Commit, Fail, AnswerLost
  <2>2. pc'[c] = "idle" /\ task'[c] = "none" /\ held'[c] = "dead" BY <1>0, <2>1 DEF Leave, Return
  <2>3. ~fenced'[c] BY <1>0, <2>1 DEF Leave, Return
  <2>4. \A d \in Controls \ {c} : /\ pc'[d] = pc[d] /\ task'[d] = task[d]
                                  /\ fenced'[d] = fenced[d] /\ held'[d] = held[d]
    BY <1>0, <2>1 DEF Leave, Return
  <2>5. \A d \in Controls \ {c} : lock = d => lock' = d BY <2>1 DEF Leave, Return, Unlocked
  <2>6. QED BY <2>2, <2>3, <2>4, <2>5
<1>2. \A d \in Controls : NotReplaced(d)'
  <2>1. NotReplaced(c)' BY <1>1 DEF NotReplaced
  <2>2. ASSUME NEW d \in Controls \ {c} PROVE NotReplaced(d)' BY <1>1 DEF FenceInv, NotReplaced
  <2>3. QED BY <2>1, <2>2
<1>3. (interfered' <=> interfered) \/ interfered' BY DEF Commit, Fail, AnswerLost, history
<1>4. interfered' \/ \A d \in Controls : Undisturbed(d)'
  <2>1. SUFFICES ASSUME ~interfered' PROVE \A d \in Controls : Undisturbed(d)' OBVIOUS
  <2>2. Undisturbed(c)' BY <1>1 DEF Undisturbed, Epoched, InFlight
  <2>3. ASSUME NEW d \in Controls \ {c} PROVE Undisturbed(d)'
    <3>1. Undisturbed(d) BY <1>3, <2>1 DEF FenceInv
    <3>2. QED BY <1>1, <3>1 DEF Undisturbed, InFlight
  <2>4. QED BY <2>2, <2>3
<1>5. CASE AnswerLost(c)
  <2>1. interfered' /\ secret' = "dead" BY <1>5 DEF AnswerLost
  <2>2. Stored' BY <2>1 DEF Stored
  <2>3. Rotating' BY <2>1 DEF Rotating
  <2>4. QED BY <1>2, <1>4, <2>2, <2>3 DEF FenceInv
<1>6. CASE Fail(c)
  <2>1. /\ pc[c] = "fail" /\ UNCHANGED <<secret, interfered>>
        /\ status' \in {status, "expired"} \/ (status' = "refused" /\ fenced[c] /\ task[c] = "refresh")
    BY <1>6 DEF Fail, MayFail, history
  <2>2. fenced[c] /\ task[c] = "refresh" => interfered BY <2>1 DEF FenceInv, Undisturbed, At
  <2>3. Stored'
    <3>1. secret' # "old" BY <2>1 DEF FenceInv, Stored
    <3>2. status = "refused" => interfered BY DEF FenceInv, Stored
    <3>3. status' = "refused" => interfered BY <2>1, <2>2, <3>2
    <3>4. QED BY <2>1, <3>1, <3>3 DEF Stored
  <2>4. Rotating'
    <3>1. SUFFICES ASSUME secret = "dead", ~interfered
                   PROVE  \E d \in Controls : (At(d, "refresh", "commit") /\ held[d] = "live" /\ fenced[d])'
      BY <2>1 DEF Rotating
    <3>2. PICK d \in Controls : At(d, "refresh", "commit") /\ held[d] = "live" /\ fenced[d]
      BY <3>1 DEF FenceInv, Rotating
    <3>3. d # c BY <2>1, <3>2 DEF At
    <3>4. QED BY <1>1, <3>2, <3>3 DEF At
  <2>5. QED BY <1>2, <1>4, <2>3, <2>4 DEF FenceInv
<1>7. CASE Commit(c)
  <2>1. /\ pc[c] = "commit" /\ UNCHANGED <<status, interfered>>
        /\ secret' = IF fenced[c] THEN held[c] ELSE secret
    BY <1>7 DEF Commit, MayCommit, history
  <2>2. fenced[c] => held[c] # "old" BY <2>1 DEF FenceInv, NotReplaced
  <2>3. fenced[c] /\ ~interfered => held[c] = "live" BY <2>1 DEF FenceInv, Undisturbed
  <2>4. Stored'
    <3>1. secret' # "old" BY <2>1, <2>2 DEF FenceInv, Stored
    <3>2. QED BY <2>1, <3>1 DEF FenceInv, Stored
  <2>5. Rotating'
    <3>1. SUFFICES ASSUME secret' = "dead", ~interfered
                   PROVE  \E d \in Controls : (At(d, "refresh", "commit") /\ held[d] = "live" /\ fenced[d])'
      BY <2>1 DEF Rotating
    <3>2. ~fenced[c] /\ secret = "dead" BY <2>1, <2>3, <3>1
    <3>3. PICK d \in Controls : At(d, "refresh", "commit") /\ held[d] = "live" /\ fenced[d]
      BY <3>1, <3>2 DEF FenceInv, Rotating
    <3>4. d # c BY <3>2, <3>3
    <3>5. QED BY <1>1, <3>3, <3>4 DEF At
  <2>6. QED BY <1>2, <1>4, <2>4, <2>5 DEF FenceInv
<1>8. QED BY <1>5, <1>6, <1>7

LEMMA OperatorStep ==
  ASSUME FenceInv, FencedTypes',
         \/ SetStatus \/ ClearAccount \/ Import \/ ReleaseRejected \/ ItemDue
         \/ \E c \in Controls : LoseSession(c)
         \/ UNCHANGED credVars
  PROVE  FenceInv'
<1>0. held \in [Controls -> Tokens] BY DEF FenceInv, FencedTypes
<1>1. CASE ReleaseRejected \/ ItemDue \/ UNCHANGED credVars
  <2>1. /\ UNCHANGED <<secret, lock, task, pc, fenced, held, interfered>>
        /\ status' \in {status, "disabled"}
    BY <1>1 DEF ReleaseRejected, ItemDue, credVars, account, process, history
  <2>2. Stored' BY <2>1 DEF FenceInv, Stored
  <2>3. Rotating' BY <2>1 DEF FenceInv, Rotating, At
  <2>4. \A d \in Controls : NotReplaced(d)' BY <2>1 DEF FenceInv, NotReplaced
  <2>5. interfered' \/ \A d \in Controls : Undisturbed(d)'
    BY <2>1 DEF FenceInv, Undisturbed, InFlight
  <2>6. QED BY <2>2, <2>3, <2>4, <2>5 DEF FenceInv
<1>2. CASE \E c \in Controls : LoseSession(c)
  <2>1. UNCHANGED <<secret, status, task, pc, fenced, held>> /\ interfered'
    BY <1>2 DEF LoseSession, account, process
  <2>2. \A d \in Controls : NotReplaced(d)' BY <2>1 DEF FenceInv, NotReplaced
  <2>3. Stored' BY <2>1 DEF FenceInv, Stored
  <2>4. Rotating' BY <2>1 DEF Rotating
  <2>5. QED BY <2>1, <2>2, <2>3, <2>4 DEF FenceInv
<1>3. CASE SetStatus \/ ClearAccount
  <2>1. /\ UNCHANGED <<secret, lock, task, pc, held>>
        /\ status' \in {status, "active", "disabled"}
        /\ fenced' = [d \in Controls |-> FALSE]
    BY <1>3 DEF SetStatus, ClearAccount, AccountAction, BumpAll
  <2>2. interfered' = (interfered \/ \E c \in Controls : InFlight(c))
    BY <1>3 DEF SetStatus, ClearAccount, AccountAction
  <2>3. (interfered => interfered') /\ \A d \in Controls : InFlight(d) => interfered'
    BY <2>2, Zenon
  <2>4. \A d \in Controls : NotReplaced(d)' BY <2>1 DEF NotReplaced
  <2>5. interfered' \/ \A d \in Controls : Undisturbed(d)'
    <3>1. SUFFICES ASSUME ~interfered', NEW d \in Controls PROVE Undisturbed(d)' OBVIOUS
    <3>2. Undisturbed(d) /\ ~InFlight(d) BY <2>3, <3>1 DEF FenceInv
    <3>3. ~InFlight(d)' BY <2>1, <3>2 DEF InFlight
    <3>4. QED BY <2>1, <3>2, <3>3 DEF Undisturbed
  <2>6. Stored' BY <2>1, <2>3 DEF FenceInv, Stored
  <2>7. Rotating'
    <3>1. SUFFICES ASSUME secret = "dead", ~interfered' PROVE FALSE BY <2>1 DEF Rotating
    <3>2. PICK d \in Controls : At(d, "refresh", "commit") /\ held[d] = "live" /\ fenced[d]
      BY <2>3, <3>1 DEF FenceInv, Rotating
    <3>3. InFlight(d) BY <3>2 DEF InFlight, At
    <3>4. QED BY <2>3, <3>1, <3>3
  <2>8. QED BY <2>4, <2>5, <2>6, <2>7 DEF FenceInv
<1>4. CASE Import
  <2>1. /\ UNCHANGED <<lock, task, pc>> /\ secret' = "live" /\ status' = "active"
        /\ fenced' = [d \in Controls |-> FALSE]
        /\ held' = [c \in Controls |-> IF held[c] = "live" THEN "old" ELSE held[c]]
    BY <1>4 DEF Import, BumpAll
  <2>2. interfered' = \E c \in Controls : pc[c] = "acquire" BY <1>4 DEF Import
  <2>3. \A d \in Controls : pc[d] = "acquire" => interfered' BY <2>2, Zenon
  <2>4. \A d \in Controls : NotReplaced(d)' BY <2>1 DEF NotReplaced
  <2>5. interfered' \/ \A d \in Controls : Undisturbed(d)'
    <3>1. SUFFICES ASSUME ~interfered', NEW d \in Controls PROVE Undisturbed(d)' OBVIOUS
    <3>2. pc'[d] # "acquire" /\ ~fenced'[d] /\ held'[d] # "live" BY <2>1, <2>3, <3>1
    <3>3. QED BY <3>2 DEF Undisturbed, InFlight
  <2>6. Stored' BY <2>1 DEF Stored
  <2>7. Rotating' BY <2>1 DEF Rotating
  <2>8. QED BY <2>4, <2>5, <2>6, <2>7 DEF FenceInv
<1>5. QED BY <1>1, <1>2, <1>3, <1>4

LEMMA FenceStep == CredInv' /\ FenceInv /\ [CredNext]_credVars => FenceInv'
<1>1. SUFFICES ASSUME CredInv', FenceInv, [CredNext]_credVars PROVE FenceInv' OBVIOUS
<1>2. FencedTypes /\ FencedTypes' BY <1>1 DEF FenceInv, CredInv, CredTypeOK, FencedTypes
<1>3. ASSUME NEW c \in Controls, Retires(c) PROVE FenceInv' BY <1>1, <1>2, <1>3, RetiresInv
<1>4. ASSUME NEW c \in Controls,
             CredStep(c) \/ (\E t \in {"refresh", "quota"} : ListAccounts(c, t))
             \/ ClaimQuotaOutbox(c) \/ ListSnapshotAccounts(c)
             \/ AnswerLost(c) \/ CallToStoreFails(c) \/ Crash(c)
      PROVE  FenceInv'
  <2>1. CASE Acquire(c) \/ (TryLock(c) /\ pc'[c] = "acquire") BY <1>1, <1>2, <2>1, LockStep
  <2>2. CASE \/ ReadCredential(c) /\ pc'[c] = "call"
             \/ Refused(c) \/ \E rotated \in BOOLEAN : Refreshed(c, rotated)
    BY <1>1, <1>2, <2>2, CallStep
  <2>3. CASE Commit(c) \/ Fail(c) \/ AnswerLost(c) BY <1>1, <1>2, <2>3, StoreStep
  <2>4. CASE /\ ~(Acquire(c) \/ (TryLock(c) /\ pc'[c] = "acquire"))
             /\ ~(ReadCredential(c) /\ pc'[c] = "call") /\ ~Refused(c)
             /\ ~(\E rotated \in BOOLEAN : Refreshed(c, rotated))
             /\ ~(Commit(c) \/ Fail(c) \/ AnswerLost(c))
    <3>1. Retires(c)
      BY <1>2, <1>4, <2>4, RetiresCases DEF CredStep, RefreshStep, QuotaStep, SnapshotStep
    <3>2. QED BY <1>3, <3>1
  <2>5. QED BY <2>1, <2>2, <2>3, <2>4
<1>5. CASE \/ SetStatus \/ ClearAccount \/ Import \/ ReleaseRejected \/ ItemDue
           \/ \E c \in Controls : LoseSession(c)
           \/ UNCHANGED credVars
  BY <1>1, <1>2, <1>5, OperatorStep
<1>6. QED BY <1>1, <1>4, <1>5 DEF CredNext

LEMMA FenceInit == CredInit => FenceInv
<1>1. SUFFICES ASSUME CredInit PROVE FenceInv OBVIOUS
<1>2. /\ status = "active" /\ secret = "live"
      /\ task = [c \in Controls |-> "none"] /\ pc = [c \in Controls |-> "idle"]
      /\ fenced = [c \in Controls |-> FALSE] /\ held = [c \in Controls |-> "dead"]
  BY <1>1 DEF CredInit
<1>3. FencedTypes BY <1>2 DEF FencedTypes, Steps, Tasks, Tokens
<1>4. Stored /\ Rotating BY <1>2 DEF Stored, Rotating
<1>5. \A c \in Controls : NotReplaced(c) /\ Undisturbed(c)
  BY <1>2 DEF NotReplaced, Undisturbed, InFlight, Epoched
<1>6. QED BY <1>3, <1>4, <1>5 DEF FenceInv

\* For any number of control processes: a refresh token that the provider has
\* rotated is stored, or about to be by the process that has it, and no refresh
\* disables the account, unless a crash, a lost answer, a lost session or a
\* console action cut in (Fencer, Refresh).
THEOREM RotationsAreKept == CredSpec => []RotationsKept
<1>1. FenceInv => RotationsKept BY DEF FenceInv, Stored, Rotating, RotationsKept
<1>2. QED BY <1>1, CredInvInit, CredInvStep, FenceInit, FenceStep, PTL DEF CredSpec

\* What ImportStands says of a step.
Spares ==
  /\ secret' # "old"
  /\ \A c \in Controls :
       pc[c] = "fail" /\ pc'[c] # "fail" /\ held[c] = "old" => status' = status

LEMMA SparesStep ==
  ASSUME FenceInv, FenceInv', [CredNext]_credVars
  PROVE  [Spares]_credVars
<1>1. secret' # "old" BY DEF FenceInv, Stored
<1>2. ASSUME NEW c \in Controls, pc[c] = "fail", pc'[c] # "fail", held[c] = "old", CredNext
      PROVE  status' = status
  <2>1. ~fenced[c] BY <1>2 DEF FenceInv, NotReplaced
  <2>2. pc \in [Controls -> Steps] BY DEF FenceInv, FencedTypes
  <2>3. CASE Fail(c) BY <2>1, <2>3 DEF Fail, MayFail
  <2>4. CASE Crash(c) BY <2>4 DEF Crash, account
  <2>5. QED
    <3>1. ASSUME NEW d \in Controls, d # c,
                 CredStep(d) \/ (\E t \in {"refresh", "quota"} : ListAccounts(d, t))
                 \/ ClaimQuotaOutbox(d) \/ ListSnapshotAccounts(d)
                 \/ AnswerLost(d) \/ CallToStoreFails(d) \/ LoseSession(d) \/ Crash(d)
          PROVE  pc'[c] = pc[c]
      <4>1. pc' = [pc EXCEPT ![d] = pc'[d]]
        BY <2>2, <3>1
        DEF CredStep, RefreshStep, QuotaStep, SnapshotStep, ListAccounts, ClaimQuotaOutbox,
            ListSnapshotAccounts, AnswerLost, CallToStoreFails, LoseSession, Crash, TryLock, Acquire,
            ReadCredential, Fail, Commit, Refreshed, Refused, CallFails, QuotaAnswer,
            CommitQuotaAndQueue, LoadBucket, PublishQuota, PublishFails, AckQuotaOutbox, LockItem,
            CheckFence, DropStale, RetryQuotaOutbox, ReadEpoch, PublishBucket, Goto, Return, Leave,
            process
      <4>2. QED BY <2>2, <3>1, <4>1
    <3>2. ASSUME ItemDue \/ SetStatus \/ ClearAccount \/ Import \/ ReleaseRejected PROVE FALSE
      BY <1>2, <3>2
      DEF ItemDue, SetStatus, ClearAccount, AccountAction, Import, ReleaseRejected, process
    <3>3. CredStep(c) \/ (\E t \in {"refresh", "quota"} : ListAccounts(c, t))
          \/ ClaimQuotaOutbox(c) \/ ListSnapshotAccounts(c)
          \/ AnswerLost(c) \/ CallToStoreFails(c) \/ LoseSession(c) \/ Crash(c)
      BY <1>2, <3>1, <3>2 DEF CredNext
    <3>4. Fail(c) \/ Crash(c) \/ LoseSession(c)
      BY <1>2, <3>3
      DEF CredStep, RefreshStep, QuotaStep, SnapshotStep, ListAccounts, ClaimQuotaOutbox,
          ListSnapshotAccounts, AnswerLost, CallToStoreFails, TryLock, Acquire, ReadCredential,
          Commit, Refreshed, Refused, CallFails, QuotaAnswer, CommitQuotaAndQueue, LoadBucket,
          PublishQuota, AckQuotaOutbox, LockItem, CheckFence, DropStale, RetryQuotaOutbox,
          ReadEpoch, PublishBucket, At
    <3>5. QED BY <1>2, <2>3, <2>4, <3>4 DEF LoseSession, process
<1>3. QED BY <1>1, <1>2 DEF Spares

\* For any number of control processes: neither a refresh nor a quota call from
\* before an import puts the replaced authorization back or disables the account
\* (Save, Commit, Fail).
THEOREM ImportsStand == CredSpec => ImportStands
<1>1. FenceInv /\ FenceInv' /\ [CredNext]_credVars =>
        [/\ secret' # "old"
         /\ \A c \in Controls :
              pc[c] = "fail" /\ pc'[c] # "fail" /\ held[c] = "old" => status' = status]_credVars
  BY SparesStep DEF Spares
<1>2. QED
  BY <1>1, CredInvInit, CredInvStep, FenceInit, FenceStep, PTL DEF CredSpec, ImportStands

(***************************************************************************)
(* Quotas.                                                                 *)
(***************************************************************************)

\* Where a process has the account's lock, and where it can still move the quota.
Locking == {"acquire", "read", "call", "fail", "commit", "queue",
            "check", "drop", "load", "publish", "ack"}
Working == {"read", "call", "fail", "commit", "queue"}

QuotaTypes ==
  /\ pc = [c \in Controls |-> pc[c]]
  /\ fenced = [c \in Controls |-> fenced[c]]
  /\ got = [c \in Controls |-> got[c]]
  /\ outbox = [quota |-> outbox.quota, fresh |-> outbox.fresh, ready |-> outbox.ready]

\* An item of the current epoch has the committed quota, in the table and in the
\* hand of who claimed it, and whoever can commit another has made it stale.
Ordered(c) ==
  /\ pc[c] \in Locking => lock = c
  /\ pc[c] \in {"claimed", "check"} /\ fenced[c] => got[c] = quota
  /\ pc[c] \in {"load", "publish"} => got[c] = quota
  /\ pc[c] \in Working /\ fenced[c] =>
       ~outbox.fresh /\ \A d \in Controls \ {c} : ~fenced[d]

QuotaInv ==
  /\ QuotaTypes
  /\ lostLock \/ /\ outbox.fresh => outbox.quota = quota
                 /\ \A c \in Controls : Ordered(c)

\* A step of c that moves neither the quota nor an epoch forward.
Quiet(c) ==
  /\ \A d \in Controls \ {c} : /\ pc'[d] = pc[d] /\ got'[d] = got[d]
                               /\ fenced'[d] = fenced[d]
                               /\ lock = d => lock' = d
  /\ quota' = quota
  /\ outbox'.fresh => outbox.fresh /\ outbox'.quota = outbox.quota
  /\ pc'[c] \in Locking => lock' = c \/ (pc[c] \in Locking /\ lock' = lock)
  /\ pc'[c] \in {"claimed", "check"} => pc[c] = "claimed" /\ got'[c] = got[c]
  /\ pc'[c] \in {"load", "publish"} =>
       got'[c] = got[c] /\ (pc[c] = "load" \/ (pc[c] = "check" /\ fenced[c]))
  /\ pc'[c] \in Working => pc[c] \in Working
  /\ fenced'[c] => fenced[c]

LEMMA QuietInv ==
  ASSUME QuotaInv, QuotaTypes', NEW c \in Controls, Quiet(c), lostLock => lostLock'
  PROVE  QuotaInv'
<1>1. SUFFICES ASSUME ~lostLock'
               PROVE  /\ (outbox.fresh => outbox.quota = quota)'
                      /\ \A d \in Controls : Ordered(d)'
  BY DEF QuotaInv
<1>2. /\ outbox.fresh => outbox.quota = quota
      /\ \A d \in Controls : Ordered(d)
  BY <1>1 DEF QuotaInv
<1>3. (outbox.fresh => outbox.quota = quota)' BY <1>2 DEF Quiet
<1>4. \A d \in Controls : (pc[d] \in Locking => lock = d)' BY <1>2 DEF Quiet, Ordered
<1>5. \A d \in Controls : (pc[d] \in {"claimed", "check"} /\ fenced[d] => got[d] = quota)'
  BY <1>2 DEF Quiet, Ordered
<1>6. \A d \in Controls : (pc[d] \in {"load", "publish"} => got[d] = quota)'
  BY <1>2 DEF Quiet, Ordered
<1>7. ASSUME NEW d \in Controls, pc'[d] \in Working, fenced'[d]
      PROVE  ~outbox'.fresh /\ \A e \in Controls \ {d} : ~fenced'[e]
  <2>1. pc[d] \in Working /\ fenced[d] BY <1>7 DEF Quiet
  <2>2. ~outbox.fresh /\ \A e \in Controls \ {d} : ~fenced[e] BY <1>2, <2>1 DEF Ordered
  <2>3. QED BY <2>2 DEF Quiet
<1>8. QED BY <1>3, <1>4, <1>5, <1>6, <1>7 DEF Ordered

LEMMA QuietCases ==
  ASSUME QuotaTypes, NEW c \in Controls,
         \/ \E t \in {"refresh", "quota"} : ListAccounts(c, t)
         \/ TryLock(c) \/ ReadCredential(c) \/ Fail(c) \/ Commit(c)
         \/ \E rotated \in BOOLEAN : Refreshed(c, rotated)
         \/ Refused(c) \/ CallFails(c) \/ AnswerLost(c) \/ \E q \in Quotas : QuotaAnswer(c, q)
         \/ CommitQuotaAndQueue(c) /\ ~fenced[c]
         \/ LoadBucket(c) \/ PublishQuota(c) \/ CallToStoreFails(c)
         \/ AckQuotaOutbox(c) \/ LockItem(c) \/ CheckFence(c) \/ DropStale(c)
         \/ RetryQuotaOutbox(c) \/ ListSnapshotAccounts(c) \/ ReadEpoch(c) \/ PublishBucket(c)
         \/ Crash(c)
  PROVE  Quiet(c) /\ QuotaTypes' /\ UNCHANGED lostLock
<1> USE DEF ListAccounts, TryLock, ReadCredential, Fail, Commit, Refreshed, Refused, CallFails,
            AnswerLost, QuotaAnswer, CommitQuotaAndQueue, LoadBucket, PublishQuota, PublishFails,
            CallToStoreFails, AckQuotaOutbox, LockItem, CheckFence, DropStale, RetryQuotaOutbox,
            ListSnapshotAccounts, ReadEpoch, PublishBucket, Crash, Goto, Return, Leave
<1>0. /\ pc = [d \in Controls |-> pc[d]] /\ fenced = [d \in Controls |-> fenced[d]]
      /\ got = [d \in Controls |-> got[d]]
      /\ outbox = [quota |-> outbox.quota, fresh |-> outbox.fresh, ready |-> outbox.ready]
  BY DEF QuotaTypes
<1>1. \A d \in Controls \ {c} : pc'[d] = pc[d] BY <1>0
<1>2. \A d \in Controls \ {c} : got'[d] = got[d] BY <1>0
<1>3. \A d \in Controls \ {c} : fenced'[d] = fenced[d] BY <1>0
<1>4. \A d \in Controls \ {c} : lock = d => lock' = d
  BY ControlsAssumption DEF LockFree, Unlocked
<1>5. quota' = quota BY DEF account
<1>6. outbox' \in {outbox, NoItem, [outbox EXCEPT !.ready = FALSE]} BY DEF account, Remove
<1>7. outbox'.fresh => outbox.fresh /\ outbox'.quota = outbox.quota
  BY <1>0, <1>6 DEF NoItem
<1>8. pc'[c] \in Locking => lock' = c \/ (pc[c] \in Locking /\ lock' = lock)
  BY <1>0 DEF Locking, At
<1>9. pc'[c] \in {"claimed", "check"} => pc[c] = "claimed" /\ got'[c] = got[c] BY <1>0
<1>10. pc'[c] \in {"load", "publish"} =>
         got'[c] = got[c] /\ (pc[c] = "load" \/ (pc[c] = "check" /\ fenced[c]))
  BY <1>0 DEF ItemCurrent
<1>11. pc'[c] \in Working => pc[c] \in Working BY <1>0 DEF Working, At
<1>12. fenced'[c] => fenced[c] BY <1>0
<1>13. UNCHANGED lostLock BY DEF history
<1>14. /\ pc' = [d \in Controls |-> pc'[d]] /\ fenced' = [d \in Controls |-> fenced'[d]]
       /\ got' = [d \in Controls |-> got'[d]]
  BY <1>0
<1>15. outbox' = [quota |-> outbox'.quota, fresh |-> outbox'.fresh, ready |-> outbox'.ready]
  BY <1>0, <1>6 DEF NoItem
<1>16. QED
  BY <1>1, <1>2, <1>3, <1>4, <1>5, <1>7, <1>8, <1>9, <1>10, <1>11, <1>12, <1>13, <1>14, <1>15
  DEF Quiet, QuotaTypes

\* The steps that move an epoch or the quota, or claim an item.
LEMMA EpochStep ==
  ASSUME QuotaInv, NEW c \in Controls,
         Acquire(c) \/ ClaimQuotaOutbox(c) \/ (CommitQuotaAndQueue(c) /\ fenced[c])
  PROVE  QuotaInv'
<1>0. /\ pc = [d \in Controls |-> pc[d]] /\ fenced = [d \in Controls |-> fenced[d]]
      /\ got = [d \in Controls |-> got[d]]
      /\ outbox = [quota |-> outbox.quota, fresh |-> outbox.fresh, ready |-> outbox.ready]
  BY DEF QuotaInv, QuotaTypes
<1>1. lostLock \/ /\ outbox.fresh => outbox.quota = quota
                  /\ \A d \in Controls : Ordered(d)
  BY DEF QuotaInv
<1>2. CASE Acquire(c)
  <2>1. /\ pc[c] = "acquire" /\ pc' = [pc EXCEPT ![c] = "read"]
        /\ fenced' = [d \in Controls |-> d = c] /\ outbox' = [outbox EXCEPT !.fresh = FALSE]
        /\ UNCHANGED <<quota, lock, got, lostLock>>
    BY <1>2 DEF Acquire, Bump, Goto, history
  <2>2. ~outbox'.fresh /\ QuotaTypes' BY <1>0, <2>1 DEF QuotaTypes
  <2>3. ASSUME ~lostLock, NEW d \in Controls PROVE Ordered(d)'
    <3>1. Ordered(c) /\ Ordered(d) BY <1>1, <2>3
    <3>2. CASE d = c
      BY <1>0, <2>1, <2>2, <3>1, <3>2 DEF Ordered, Locking, Working
    <3>3. CASE d # c
      <4>1. pc'[d] = pc[d] /\ ~fenced'[d] BY <1>0, <2>1, <3>3
      <4>2. QED BY <2>1, <3>1, <4>1 DEF Ordered
    <3>4. QED BY <3>2, <3>3
  <2>4. QED BY <2>1, <2>2, <2>3 DEF QuotaInv
<1>3. CASE ClaimQuotaOutbox(c)
  <2>1. /\ pc' = [pc EXCEPT ![c] = "claimed"]
        /\ fenced' = [fenced EXCEPT ![c] = outbox.fresh]
        /\ got' = [got EXCEPT ![c] = outbox.quota] /\ outbox' = [outbox EXCEPT !.ready = FALSE]
        /\ UNCHANGED <<quota, lock, lostLock>>
    BY <1>3 DEF ClaimQuotaOutbox, Goto, history
  <2>2. outbox'.fresh = outbox.fresh /\ outbox'.quota = outbox.quota /\ QuotaTypes'
    BY <1>0, <2>1 DEF QuotaTypes
  <2>3. ASSUME ~lostLock, NEW d \in Controls PROVE Ordered(d)'
    <3>1. Ordered(d) /\ (outbox.fresh => outbox.quota = quota) BY <1>1, <2>3
    <3>2. CASE d = c
      <4>1. pc'[c] = "claimed" /\ fenced'[c] = outbox.fresh /\ got'[c] = outbox.quota
        BY <1>0, <2>1
      <4>2. QED BY <2>1, <3>1, <3>2, <4>1 DEF Ordered, Locking, Working
    <3>3. CASE d # c
      <4>1. pc'[d] = pc[d] /\ fenced'[d] = fenced[d] /\ got'[d] = got[d] BY <1>0, <2>1, <3>3
      <4>2. \A e \in Controls : fenced'[e] = IF e = c THEN outbox.fresh ELSE fenced[e]
        BY <1>0, <2>1
      <4>3. QED BY <2>1, <2>2, <3>1, <4>1, <4>2 DEF Ordered
    <3>4. QED BY <3>2, <3>3
  <2>4. QED BY <1>1, <2>1, <2>2, <2>3 DEF QuotaInv
<1>4. CASE CommitQuotaAndQueue(c) /\ fenced[c]
  <2>1. /\ pc[c] = "queue" /\ pc' = [pc EXCEPT ![c] = "load"]
        /\ fenced' = [fenced EXCEPT ![c] = FALSE] /\ quota' = got[c]
        /\ outbox' = [quota |-> got[c], fresh |-> TRUE, ready |-> TRUE]
        /\ UNCHANGED <<got, lock, lostLock>>
    BY <1>4 DEF CommitQuotaAndQueue, Goto, history
  <2>2. outbox'.quota = quota' /\ QuotaTypes' BY <1>0, <2>1 DEF QuotaTypes
  <2>3. ASSUME ~lostLock, NEW d \in Controls PROVE Ordered(d)'
    <3>1. Ordered(c) /\ Ordered(d) BY <1>1, <2>3
    <3>2. lock = c /\ \A e \in Controls \ {c} : ~fenced[e]
      BY <1>4, <2>1, <3>1 DEF Ordered, Locking, Working
    <3>3. CASE d = c
      <4>1. pc'[c] = "load" /\ got'[c] = quota' BY <1>0, <2>1
      <4>2. QED BY <2>1, <3>2, <3>3, <4>1 DEF Ordered, Locking, Working
    <3>4. CASE d # c
      <4>1. pc'[d] = pc[d] /\ ~fenced'[d] BY <1>0, <2>1, <3>2, <3>4
      <4>2. pc[d] \notin Locking BY <3>1, <3>2, <3>4 DEF Ordered
      <4>3. QED BY <4>1, <4>2 DEF Ordered, Locking
    <3>5. QED BY <3>3, <3>4
  <2>4. QED BY <2>1, <2>2, <2>3 DEF QuotaInv
<1>5. QED BY <1>2, <1>3, <1>4

LEMMA QuotaInvStep == QuotaInv /\ [CredNext]_credVars => QuotaInv'
<1>1. SUFFICES ASSUME QuotaInv, [CredNext]_credVars PROVE QuotaInv' OBVIOUS
<1>2. QuotaTypes BY <1>1 DEF QuotaInv
<1>3. ASSUME NEW c \in Controls,
             CredStep(c) \/ (\E t \in {"refresh", "quota"} : ListAccounts(c, t))
             \/ ClaimQuotaOutbox(c) \/ ListSnapshotAccounts(c)
             \/ AnswerLost(c) \/ CallToStoreFails(c) \/ Crash(c)
      PROVE  QuotaInv'
  <2>1. CASE Acquire(c) \/ ClaimQuotaOutbox(c) \/ (CommitQuotaAndQueue(c) /\ fenced[c])
    BY <1>1, <2>1, EpochStep
  <2>2. CASE ~(Acquire(c) \/ ClaimQuotaOutbox(c) \/ (CommitQuotaAndQueue(c) /\ fenced[c]))
    <3>1. Quiet(c) /\ QuotaTypes' /\ UNCHANGED lostLock
      BY <1>2, <1>3, <2>2, QuietCases DEF CredStep, RefreshStep, QuotaStep, SnapshotStep
    <3>2. QED BY <1>1, <3>1, QuietInv
  <2>3. QED BY <2>1, <2>2
<1>4. CASE (\E c \in Controls : LoseSession(c)) \/ UNCHANGED credVars \/ ReleaseRejected
  <2>1. UNCHANGED <<quota, outbox, pc, fenced, got>> /\ (lostLock' \/ UNCHANGED <<lock, lostLock>>)
    BY <1>4 DEF LoseSession, credVars, ReleaseRejected, account, process, history
  <2>2. QED BY <1>1, <2>1 DEF QuotaInv, QuotaTypes, Ordered
<1>5. CASE SetStatus \/ ClearAccount \/ Import
  <2>1. /\ fenced' = [d \in Controls |-> FALSE] /\ outbox' = [outbox EXCEPT !.fresh = FALSE]
        /\ UNCHANGED <<quota, lock, pc, got, lostLock>>
    BY <1>5 DEF SetStatus, ClearAccount, AccountAction, Import, BumpAll
  <2>2. ~outbox'.fresh /\ QuotaTypes' BY <1>2, <2>1 DEF QuotaTypes
  <2>3. \A d \in Controls : Ordered(d) => Ordered(d)' BY <2>1 DEF Ordered
  <2>4. QED BY <1>1, <2>1, <2>2, <2>3 DEF QuotaInv
<1>6. CASE ItemDue
  <2>1. outbox' = [outbox EXCEPT !.ready = TRUE] /\ UNCHANGED <<quota, lock, pc, fenced, got, lostLock>>
    BY <1>6 DEF ItemDue, process, history
  <2>2. outbox'.fresh = outbox.fresh /\ outbox'.quota = outbox.quota /\ QuotaTypes'
    BY <1>2, <2>1 DEF QuotaTypes
  <2>3. \A d \in Controls : Ordered(d) => Ordered(d)' BY <2>1, <2>2 DEF Ordered
  <2>4. QED BY <1>1, <2>1, <2>2, <2>3 DEF QuotaInv
<1>7. QED BY <1>1, <1>3, <1>4, <1>5, <1>6 DEF CredNext

LEMMA QuotaInit == CredInit => QuotaInv
<1>1. SUFFICES ASSUME CredInit PROVE QuotaInv OBVIOUS
<1>2. QuotaTypes /\ ~outbox.fresh BY <1>1 DEF CredInit, QuotaTypes, NoItem
<1>3. \A c \in Controls : Ordered(c) BY <1>1 DEF CredInit, Ordered, Locking, Working
<1>4. QED BY <1>2, <1>3 DEF QuotaInv

\* For any number of control processes: what PublishQuota carries is the quota
\* that is committed, however late it runs, unless a lock session was lost.
THEOREM QuotasNotStale == CredSpec => []NoStaleQuota
<1>1. QuotaInv => NoStaleQuota BY DEF QuotaInv, Ordered, NoStaleQuota
<1>2. QED BY <1>1, QuotaInit, QuotaInvStep, PTL DEF CredSpec

(***************************************************************************)
(* Types, of the three parts side by side.                                 *)
(***************************************************************************)

\* What a control process has listed is kept for the processes and nobody else.
AccessInv == AccessTypeOK /\ listed = [p \in Publishers |-> listed[p]]

Batches == [busy : BOOLEAN, records : Records]

LEMMA AccessInvStep ==
  ASSUME AccessInv, [AccessNext]_accessVars
  PROVE  AccessInv'
<1>1. /\ rights \in Records /\ shared \in Records /\ local \in Records
      /\ expired \subseteq TenantTokens
  BY DEF AccessInv, AccessTypeOK
<1>2. edits \in 0 .. MaxEdits /\ outages \in 0 .. MaxOutages BY DEF AccessInv, AccessTypeOK
<1>3. listed \in [Publishers -> Batches] BY DEF AccessInv, AccessTypeOK, Batches
<1>4. SUFFICES /\ rights' \in Records /\ shared' \in Records /\ local' \in Records
               /\ expired' \subseteq TenantTokens
               /\ edits' \in 0 .. MaxEdits /\ outages' \in 0 .. MaxOutages
               /\ listed' \in [Publishers -> Batches]
  BY DEF AccessInv, AccessTypeOK, Batches
<1>5. ASSUME NEW t \in TenantTokens, Expire(t) \/ \E r \in Rights : SetRights(t, r)
      PROVE  rights' \in Records /\ expired' \subseteq TenantTokens /\ edits' \in 0 .. MaxEdits
             /\ UNCHANGED <<listed, shared, local, outages>>
  <2>1. rights' \in Records BY <1>1, <1>5 DEF Expire, SetRights, Records
  <2>2. expired' \subseteq TenantTokens BY <1>1, <1>5 DEF Expire, SetRights
  <2>3. edits' \in 0 .. MaxEdits BY <1>2, <1>5, BoundsAssumption DEF Expire, SetRights, Edit
  <2>4. UNCHANGED <<listed, shared, local, outages>> BY <1>5 DEF Expire, SetRights
  <2>5. QED BY <2>1, <2>2, <2>3, <2>4
<1>6. ASSUME NEW p \in Publishers, ListActiveTokens(p)
      PROVE  listed' \in [Publishers -> Batches]
             /\ UNCHANGED <<rights, expired, shared, local, edits, outages>>
  <2>1. [t \in TenantTokens |-> IF t \in expired THEN "gone" ELSE rights[t]] \in Records
    BY <1>1 DEF Records, Rights
  <2>2. [busy |-> TRUE,
         records |-> [t \in TenantTokens |-> IF t \in expired THEN "gone" ELSE rights[t]]] \in Batches
    BY <2>1 DEF Batches
  <2>3. QED BY <1>3, <1>6, <2>2 DEF ListActiveTokens
<1>7. ASSUME NEW p \in Publishers, PublishTokens(p)
      PROVE  /\ listed' \in [Publishers -> Batches] /\ shared' \in Records
             /\ outages' \in 0 .. MaxOutages /\ UNCHANGED <<rights, expired, local, edits>>
  <2>1. Idle \in Batches BY DEF Idle, Batches, NoRecords, Records, Rights
  <2>2. listed' \in [Publishers -> Batches] BY <1>3, <1>7, <2>1 DEF PublishTokens
  <2>3. listed[p].records \in Records BY <1>3 DEF Batches
  <2>4. shared' \in Records BY <1>1, <1>7, <2>3 DEF PublishTokens, Replaced
  <2>5. outages' \in 0 .. MaxOutages BY <1>2, <1>7, BoundsAssumption DEF PublishTokens, Outage
  <2>6. QED BY <1>7, <2>2, <2>4, <2>5 DEF PublishTokens
<1>8. ASSUME Refresh
      PROVE  /\ local' \in Records /\ outages' \in 0 .. MaxOutages
             /\ UNCHANGED <<rights, expired, listed, shared, edits>>
  <2>1. local' \in Records BY <1>1, <1>8 DEF Refresh
  <2>2. outages' \in 0 .. MaxOutages BY <1>2, <1>8, BoundsAssumption DEF Refresh, Outage
  <2>3. QED BY <1>8, <2>1, <2>2 DEF Refresh
<1>9. CASE UNCHANGED accessVars BY <1>1, <1>2, <1>3, <1>9 DEF accessVars
<1>10. QED
  <2>1. CASE \E t \in TenantTokens : Expire(t) \/ \E r \in Rights : SetRights(t, r)
    BY <1>1, <1>2, <1>3, <1>5, <2>1
  <2>2. CASE \E p \in Publishers : ListActiveTokens(p) BY <1>1, <1>2, <1>6, <2>2
  <2>3. CASE \E p \in Publishers : PublishTokens(p) BY <1>1, <1>2, <1>7, <2>3
  <2>4. CASE Refresh BY <1>1, <1>2, <1>3, <1>8, <2>4
  <2>5. QED BY <1>9, <2>1, <2>2, <2>3, <2>4 DEF AccessNext

LEMMA AccessInvInit == AccessInit => AccessInv
<1>1. NoRecords \in Records BY DEF NoRecords, Records, Rights
<1>2. Idle \in Batches BY <1>1 DEF Idle, Batches
<1>3. QED BY <1>1, <1>2, BoundsAssumption DEF AccessInit, AccessInv, AccessTypeOK, Batches

\* A step of the composition is a step of one part and none of the others.
LEMMA PartsStep ==
  ASSUME [Next]_vars
  PROVE  [CredNext]_credVars /\ [HealthNext]_healthVars /\ [AccessNext]_accessVars
BY DEF Next, AccountNext, vars

\* For any number of control processes, accounts, tokens and events: every
\* variable keeps its type, a process holds the account's advisory lock
\* (TryLock) only inside a loop that takes it, and the outbox row that a process
\* works for (ClaimQuotaOutbox, AckQuotaOutbox) is there.
THEOREM AccountTypes == Spec => []TypeOK
<1>1. Init => CredInv /\ HealthTypeOK /\ AccessInv
  BY HealthStart, CredInvInit, AccessInvInit DEF Init
<1>2. CredInv /\ HealthTypeOK /\ AccessInv /\ [Next]_vars =>
        CredInv' /\ HealthTypeOK' /\ AccessInv'
  BY PartsStep, CredInvStep, HealthTypesStep, AccessInvStep
<1>3. CredInv /\ HealthTypeOK /\ AccessInv => TypeOK BY DEF CredInv, AccessInv, TypeOK
<1>4. QED BY <1>1, <1>2, <1>3, PTL DEF Spec

\* The guarantees of the credential and of the quota (Fencer, Refresh,
\* PublishQuota) and of the cooldowns (applyReleaseAuthority) hold in the
\* composition of the three components too.
THEOREM PartsSideBySide ==
  Spec => [](RotationsKept /\ NoStaleQuota /\ CooldownsEarned)
<1>1. Init => CredInit /\ HealthInit BY DEF Init
<1>2. [Next]_vars => [CredNext]_credVars /\ [HealthNext]_healthVars BY PartsStep
<1>3. FenceInv /\ QuotaInv => RotationsKept /\ NoStaleQuota
  BY DEF FenceInv, Stored, Rotating, RotationsKept, QuotaInv, Ordered, NoStaleQuota
<1>4. HealthTypeOK /\ CooldownsEarned /\ [HealthNext]_healthVars => HealthTypeOK' /\ CooldownsEarned'
  BY HealthTypesStep, EarnedStep
<1>5. QED
  BY <1>1, <1>2, <1>3, <1>4, CredInvInit, CredInvStep, FenceInit, FenceStep, QuotaInit, QuotaInvStep,
     HealthStart, PTL
  DEF Spec
=============================================================================
