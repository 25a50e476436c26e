# A TLA+ verification project for gateway-platform

gateway-platform is an LLM gateway (`internal/gateway`, "FluxGate") and its
control plane (`internal/control`, "KeyHive"). The gateway picks an upstream
account for a tenant's request, calls the upstream and announces every attempt
and its outcome as events on a Redis stream. The control plane consumes the
events into PostgreSQL, judges accounts, deducts usage from prepaid wallets,
refreshes credentials and quotas, and publishes account snapshots back to the
gateways through Redis.

This directory models the parts of it that are hard to test: several processes,
a stream that redelivers, transactions that race, crashes between two calls.

## Inventory

| Component (source) | State | Operations | Interacts with | Hard behaviour | Correct when |
|---|---|---|---|---|---|
| Event stream and consumer (`internal/events/stream.go`) | stream, consumer group (cursor, pending list), retry counters, dead letter stream | Add, reclaim, read, process, dead letter, ack, Trim | gateway appends; control consumes; ledger handlers are callbacks | redelivery, duplicates, several consumers, crash between commit and XACK, trimming | nothing lost, nothing stuck |
| Attempt and usage ledger (`internal/control/ledger.go`) | `request_attempts`, `usage_ledger` | HandleAttemptStarted, HandleRelease, RecoverAttempts | called by the consumer; feeds billing and health | release racing the reconciler, out-of-order events | one terminal per attempt, judged once |
| Wallets (`billing.go`, `console_billing.go`) | `tenant_wallets`, `wallet_transactions` | EnsureWallet, ApplyMovement, top-up, adjust, replay check | job and operators move money | retry after a lost answer | journal chains, answers are true |
| Price table (`billing.go`) | `model_prices` | InsertModelPrice, priceAt | job and rulings read it | check, then a later insert | past bills replay |
| Deduction job (`billing_job.go`, `billing_policy.go`) | billing columns of `usage_ledger` | RunOnce, settleTenant | wallet, prices, policy | two runs at once, partial failure | charged once, marked with the debit |
| Held rulings (`console_held.go`) | `billing_resolutions` | write off, bill | ledger rows, wallet | racing rulings and runs | a ruling stands |
| Reconciliation (`billing_reconcile.go`) | none (reads) | Run | ledger, runs, journal | | reports nothing |
| Request handling (`internal/gateway/server.go`) | per request: slots held, attempts, answer | admit, choose, start, call, release, mark, fail over once | chooser, limiter, producer | crash mid-attempt, lost calls, expiring counters | every slot returned once, the answer agrees with the records |
| Streamed answers (`server.go`, `kiro.go`, `grok_chat_inbound.go`) | event at hand, converter, token count | read, convert, write, end | upstream, client | client leaves, upstream breaks off | what is recorded complete was complete |
| Account chooser, affinity (`chooser.go`, `sticky.go`) | accounts per bucket, local cooldowns | Update, Choose, MarkFailure, MarkEgressRejected | snapshot loader, request handler | snapshot install racing a failure mark | no account stays locked out for a credential it no longer has |
| Tenant limiter (`limiter.go`) | Redis counters with expiry | acquire, release | request handler | expiry with requests in flight, failing calls | counted and within the limit until it expires |
| Snapshots (`internal/snapshot/redis.go`, `snapshot_loop.go`) | epoch, active pointer, versioned hashes, registry; buckets in the chooser | RunOnce, publish script, RefreshAll, Load | control publishes, gateway loads | stale list under a fresh epoch, torn load | no mixed version, gateways converge |
| Tokens and auth (`tenants.go`, `snapshot/auth.go`, `auth.go`) | tokens, published hash, the gateway's copy | TokenLoop, Refresh, Authenticate | wallet balance | two publishers, outages | every change of a token or its block arrives |
| Account health (`health.go`) | status, cooldown, last authority per account | applyReleaseAuthority, PlatformSignals, ReleaseStarvedCooldowns, operator actions | ledger, snapshots | out-of-order releases | a cooldown stands on failures still counted |
| Credential refresh (`fencing.go`, `refresh.go`, `import.go`) | credential, fence, singleton lock | Acquire, provider call, Commit, Fail, import | provider, operators | crash after rotation, two refreshers | no rotated token lost without a cause, an import stands |
| Quota outbox (`quota_refresh.go`) | quota, outbox rows | commit and queue, publish, ack, retry, reconcile | snapshots | publish fails after commit | delivered, never over newer |
| Wrapper queue (`wrapper/queue.go`, `worker.go`) | stream, pending list, leases, markers, results | enqueue, claim, lease, dead-letter, report | callers, workers | reclaimed job, lost lease, crash | a job is kept until it ends, and ends once |
| Wrapper flows (`wrapper/oauth.go`, `device.go`, `run.go`) | phase and timer per execution | PKCE and device flows | the person, the provider | waiting for a person while the lease runs | its calls are over before the lease is |
| Protocol conversion, provider adapters, TLS profile, cipher, console reads, observability, detail sink, migration tool, commands | | | | | see `PROJECT.json`, components |

The hazards of this code, each at its line, are in `PROJECT.json`.

## Modules

| Module | Models | Extends |
|---|---|---|
| `AttemptAccounting` | abstract: what is promised about one attempt | |
| `Metering` | producer, consumer group, ledger handlers, reconciler, trim | |
| `Wallet` | wallets, journal, top-up and adjust endpoints | |
| `Billing` | prices, policy, deduction job, rulings | `Wallet` |
| `Reconciliation` | the three-way reconciliation as a state function | `Billing` |
| `Snapshots` | publication loop, publish script, registry, Load, installed buckets | |
| `Limiter` | the counters of tenants and accounts | |
| `Chooser` | installed accounts, local cooldowns, egress paths, what a new epoch does to them | |
| `Handlers` | one request from admission to its answer, over both | `Limiter`, `Chooser` |
| `StreamDrain` | one streamed answer: reading, converting, writing | |
| `Credentials` | refresh under lock and fence, import, quota and its outbox, republication | |
| `AccountHealth` | cooldowns as releases arrive in any order | |
| `TokenAccess` | token publication and the gateway's copy | |
| `WrapperJobs` | abstract: what is promised about an authorization job | |
| `WrapperFlow` | the two interactive flows with their timers | |
| `WrapperQueue` | the queue, its workers and callers | `WrapperFlow` |
| `MCMetering`, `MCBilling`, `MCSnapshots`, `MCWrapper` | instances for TLC | `Metering`, `Reconciliation`, `Snapshots`, `WrapperQueue` |
| `MCGateway` | `Handlers` and `StreamDrain`, in four parts | |
| `MCAccounts` | `Credentials`, `AccountHealth`, `TokenAccess`, in four parts | |
| `MeteringProofs`, `BillingProofs`, `SnapshotProofs`, `GatewayProofs`, `StreamProofs`, `WrapperProofs`, `AccountProofs` | theorems | the module named, `Handlers`, `StreamDrain`, `WrapperQueue`, `MCAccounts` |
| `ReconciliationProofs` | theorems about the books | `Reconciliation`, `BillingProofs` |

### Metering

An attempt is started and released by a gateway (`StartAttempt`,
`FinishAttempt`, the streaming and non-streaming paths write the same two
events); `AddOK` and `AddFails` cover the outcomes of `Producer.Add`: one entry,
two (the Redis client retried XADD), none, or one although the call failed. A
stream ID is a position in `stream`. A control process walks through the labels
of `pc`, one per Redis or database call of `RunOnce`: `Reclaim` (XPENDING and
XCLAIM), `ReadNew` (XREADGROUP), then per message `BeginProcess` (validation and
INCR), `Handle` or `DeadLetter`, `Ack`, `Forget`, and after the batch
`RecoverAttempts`; `TrimThreshold` and `TrimMinID` are the two halves of Trim.
`Interrupt` is an error of any of these calls or a crash of the process: in
both cases the batch in memory is gone and everything else is where it was.
A handler is one transaction and therefore one step. While it is under way it
holds the attempt's row lock, which RecoverAttempts skips (`Locked`).

Abstracted: payload fields (an entry is valid or not), times (an attempt is past
its deadline or not, an entry is idle, or older than the retention, or not). The
two calls of `reclaim` are one step: XCLAIM repeats the idle-time condition
(MinIdle), so an entry that another process claims or acknowledges in between is
not returned, as if the whole had happened at the second call.

### Wallet, Billing, Reconciliation

A movement is one transaction under the wallet's row lock. A console call is
`Submit`, `EnsureWallet` (top-ups), `ApplyMovement` and, after a duplicate key,
`ConfirmReplay`; a failure is possible at each of them, after the commit too.

A run of the job is `StartRun`, `pendingTenants`, and per tenant `SelectRows`
(the statement's snapshot), `LockRows` (FOR UPDATE waits, then PostgreSQL
evaluates the WHERE clause again), `PriceRow` for each row and `Settle`, which
commits the debit with the marks. `SettleRefused` is a missing wallet,
`SettleFails` a database error, `AbandonRun` a crash. A price insert is two
steps, `CheckPrice` and `InsertModelPrice`, because nothing holds the clock
between them.

Abstracted: the four unit prices of a row and the four token counts are one, so
`LineAmount` rounds one product instead of a sum of four; money is in units of
its last digit; `billing_runs` is written and never read back, so of a run only
its ID exists. Assumed: tenants exist; a row's `occurred_at` is not in the
future of the clock the job reads (no skew between gateway and control).

`Reconciliation` computes what `Run` would report for a window that holds every
row. Its discrepancy kinds are the fields of `Discrepancies`.

### Snapshots

A control process walks through `RunOnce`, one label per call: `StartRun`
(ListSnapshotBuckets), `RegisteredBuckets`, and per bucket
`ListSnapshotAccounts`, `currentSnapshotEpoch`, and `Publish` or `PublishStale`
(the script with a matching, or another, epoch); a bucket that is gone is
published empty and then removed (`RemoveRegisteredBucket`). Buckets are numbers
because both loops take them in sorted order. A gateway's `RefreshAll` reads the
registry, then per bucket `GetActive` and `LoadOK` or `LoadRejected`, and
`RemoveBuckets` at the end. The calls of Load after the first are one step: a
version's data never changes, so what matters is whether the epoch is still the
one of the version read before. `SkipBucket`, `AbandonRun`, `LoadFails` and
`DataExpires` are the faults.

Abstracted: an epoch is only compared with the current one, so of an epoch that
somebody holds only "still current" is kept (`valid`, `same`); this makes endless
republication a finite graph. An account is usable (active, no cooldown) or not;
the cooldowns that ReleaseStarvedCooldowns ends at the start of a run are among
the changes of `SetUsable`. All accounts are of providers that declare
usage_integrity. `snapshot.Store` is not used by the program and left out; the
republication of a bucket by `PublishQuota` is in `Credentials`.

### Handlers, Limiter, Chooser

A request walks through the labels of `pc`: "new" (the tenant's slot), "choose"
(AcquirePreferring), "limit" (the account's slot), "call" (attempt_started and
the upstream), "record" (the release event), "free" (the account's slot goes
back), "mark" (MarkFailure or MarkEgressRejected), then "choose" again for the
one failover, or "leave", where the answer stands and the deferred release of
the tenant's slot runs. A streamed request keeps its account's slot a step longer,
as its handler's defers do. `Limiter` has the two scripts as steps, the loss of
either, and `KeyExpires`: the key's TTL runs from the first INCR and is not renewed,
so it can end under requests that still run (`lapsed` remembers that it did).
`Chooser` has what a snapshot installs, the epoch that clears local cooldowns, and
the account's credential version, which MarkFailure reads after the call.

Abstracted: what a snapshot says of an account (quota, models, status, expiry)
and the calls-per-minute counter may rule out anything at any time; a session's
pin may prefer any eligible account; cooldowns are "soon", "year" or past.
Requests recur, so a request is a slot of the server and not one call.

Behaviours met while modelling and kept in the model: the counter expires two
minutes after its first INCR, as long as a request may run, so a late release can
return the slot of another request; a 403 with a JSON body has cooldown 0 and
ends a cooldown under way; MarkFailure can put the failure of an old credential,
365 days for a 401, on the new one, until the next epoch (`NoLockout` is about
that); an answer that cannot be converted is recorded as upstream_5xx and cools
the account.

### StreamDrain

The upstream's events are sets of facts (text, reason, end, token count,
unsupported); `Says` gives the ones each protocol can form. `ReadData` is one data
line, `Dispatch` the blank line after it: conversion and write. The drain ends by
`EndOfBody`, `ReadError`, `LineTooLong` or in `Dispatch`; `ReadKiro` and
`EndOfKiro` are the binary Kiro stream. The upstream is assumed orderly: one data
line per event, one reason, one end, no text after them, counts that do not
fall. Kiro text equal to the event before is dropped by the code as a repeat and
is no new text in the model.

Behaviours kept: a chat client of an Anthropic or Responses upstream is told
"stop" even after "length" (hence the `target # "chat"` in `CompleteIsWhole`); the
Kiro drain writes chat chunks whatever the client speaks and takes any end of
the body for the end; `response.incomplete` is not known as an end.

### Credentials, AccountHealth, TokenAccess

`Credentials` follows one account. A control process takes the singleton lock,
`Acquire`s the fence, calls the provider, which may rotate the refresh token,
and commits or fails under the fence; `Crash` and `LoseSession` (of the
lock) can come between any two. A token is live, dead (rotated away) or old. Of
a fence or an epoch somebody holds, only "still current" is kept, as in
`Snapshots`. A refresh sends the refresh token and is refused when that one is not
live. A quota call sends the access token, which may have expired although the
refresh token is live, so it can be refused at any time (`Refused`); `Fail` then
disables the account in both cases, and the model keeps which loop it was ("refused",
"expired"). Quota refresh, the outbox with claim, backoff and acknowledgement,
`PublishQuota`'s load-change-publish and the snapshot loop's publication are
steps of their own. `interfered` remembers that since the last import something cut
into a refresh, the causes for which a rotated token may be lost: a console action,
a crash between rotation and commit, a lost answer, a lock that went away with its
session. `lostLock` is the last of these alone.

Behaviours kept: a stale outbox item is acknowledged without a publication and
the snapshot loop republishes later; that loop can publish an older listing
of the quota for a while, and for as long as other quotas keep being committed (two
processes can alternate, one committing, one publishing what it listed before), so
`QuotaReaches` speaks of quotas that stop changing; an expired access token in a quota
call disables an account that a refresh would have kept.

`AccountHealth` has releases that arrive in any order within `MaxDelay`, the
platform signals over a window, the release of starved cooldowns and the
operator. Behaviours kept: a success that occurred before a failure and is applied after
it lifts that failure's cooldown and count (`health.go:58` compares no time); blocked
and header-less 429 raise one counter, which other classes in between do not reset, so
the long cooldown may rest on fewer header-less 429s than `unknownRateLimitEscalation`.

`TokenAccess` has two publishers that list and publish in two calls without a
comparison, outages, and the gateway's refresh.

### WrapperFlow, WrapperQueue, WrapperJobs

A worker walks through nextMessage (`XPending`, `Scan`, `XClaim`, `Unmark`,
`Del`, `XReadGroup`, `MarkNew`), `Decode`, then `DeadLetter` and `XAck`, or
`SetLease`, the flow, `Report` (the reads of terminal) and `TerminalScript`. The
lease record and the message's marker are set in one transaction with one TTL,
so the marker stands for both. Time passes in ticks while a flow runs; a timer
that is due fires before time goes on. Once the callback server runs, a PKCE flow
returns through `Close`, the phase "closing" and `Shutdown`: the deferred
shutdownCallbackServer waits up to `ShutdownTimeout` for open connections, inside the
lease, and executorFromConfig (`run.go:64`) does not count it. A device code has one of
the `Lifetimes`, 0 when the provider gives none. A worker can crash (`Exit`) or sleep
through its TTL (`Oversleep`). ErrLeaseLost and ErrTerminalConflict end the
worker's loop in the code, and here. Left out: the seven days' TTL of a result;
URLs, PKCE and the callback's parameters.

## Runs

| Run | Shows | Bounds, and why they are enough |
|---|---|---|
| `metering_consumers` | two processes: no event lost, tables agree | one attempt, three entries (start, release and a duplicate of either), batch of two, one retry, one fault, two entries past retention: every race between handler, reconciler, reclaim and trim on the same attempt needs no more |
| `metering_liveness` | refinement of `AttemptAccounting` with its fairness; every entry acknowledged | two attempts, so that a poison entry of one can hold up the other |
| `metering_retention` | violation, see findings | one attempt whose start has been read and whose release, unread, is past the retention |
| `billing_settle` | no double charge; books balance at every instant | two controls, two rows whose exact cost is half a unit each (rounding matters), one fault, five run IDs |
| `billing_rulings` | bills replay, rulings stand, settled rows stay | a billable and a held row, two prices, clock to three |
| `billing_tenants` | answers true, journal chains, settlement eventually | two tenants, one without a wallet, a reused ID, one fault |
| `billing_late` | violation, see findings | two prices, the second committed late |
| `billing_conflict` | violation, see findings | one top-up sent twice, two faults |
| `snapshots_converge` | no mixed version, one owner, gateways converge | two controls, one gateway, one account that is imported, moved or disabled while two buckets are published, one fault |
| `wrapper_leases` | no job lost, one end, one executor within its lease, a lease runs out on a flow only while it closes, jobs are served | two workers, one job (workers meet only at a job), two faults, so that a job can be reclaimed twice; timeouts of one tick, a lease of three, the tightest that executorFromConfig accepts, and a shutdown of one tick, which reaches it; device codes without a lifetime, and with one shorter and one longer than the timeout |
| `accounts` | rotations kept, imports stand, no older quota published, quotas and tokens arrive, cooldowns earned | two control processes; two events of the environment (an import after a lost lock) with the provider's quota as it is, and one event with three quotas (with two, every further commit would bring back what the stale snapshot has); three accounts, of which a majority can cool, and releases up to one tick late; one token, two publishers, three edits, two outages |
| `gateway` | slots counted and returned once, records and answers agree, complete streams are whole, no account stays locked out for a credential it no longer has | two requests of which one streams, two accounts with one slot each and a tenant with two, one fault; three changes of one account's credential and bucket, so that the credential can be replaced during a call, the bucket removed after that and installed again; streams of four events for every pair of protocols |

The runs of `MCAccounts` and of `MCGateway` check modules that share no state. The variable
`part`, chosen at the start, says which of them runs, so the graph is the sum of
the parts and not their product. In `MCAccounts` the parts "credentials" and "quotas" are
`Credentials` twice, once with more events and once with more quotas; in `MCGateway` the parts "slots", "snapshots" and
"paths" are the same handlers with different disturbances.

CHECK_DEADLOCK is off in the billing runs: with all bounds used up (clock, run
IDs, prices) nothing is left to do. The other runs check for deadlock.

Fairness. `Metering!FairSpec`: each control process keeps taking its steps
(`run.go` loops for ever and only logs errors), idle times and deadlines pass.
The gateway is under no fairness: it may stop anywhere. `Billing!FairSpec`: the
clock advances and each job is started again by its ticker and takes its steps;
operators and price inserts are under no fairness. `Snapshots!FairSpec`: both
loops are on tickers, and a load that is possible again and again is at some time
not overtaken by a publication (strong fairness: four calls against one
publication a minute). `WrapperQueue!FairSpec`: workers take their steps, timers
fire and time passes; a person or a provider need not answer and nothing
restarts a worker that has left its loop, so `Served` says "unless every worker
is down". It also supposes that leases stop running out at some time: a shutdown of
the callback server that used up one lease after the other would send the same job
round for ever. `MCAccounts`: processes take their steps, and the snapshot ticker gets its
turn (strong fairness: a select picks among the branches that are ready at random).
`MCGateway`: control republishes and the gateway reloads, both on tickers;
requests are under no fairness. Faults and changes of accounts are bounded, that is, they
stop at some time.

## Findings

1. `metering_retention`: Trim (`stream.go:158-175`) protects pending entries
   only. Entries nobody has read, older than seven days, go with the first trim,
   although its comment says unacknowledged work is never silently discarded. In the
   run the start of an attempt was read and applied, and its release is trimmed unread.
2. `billing_late`: the forward-only check of a price (`billing.go:118`) and its
   insert are not one step; a price can land after usage of its time was settled.
3. `billing_conflict`: `replayMovement` takes a failed read for "not found"
   (`console_billing.go:403-405`), and the operator is told to pick a new ID for
   a movement that landed.

## Proofs

All theorems hold for every value of the constants that satisfies the named
ASSUMEs (sets of any size, any batch size and retry limit). They say that bounds and
times are numbers, that timeouts fit the lease as executorFromConfig demands (it leaves
the shutdown out, and so does the assumption), and that a marker (nobody's lock, an account that is absent) is not mistaken for a value.

`MeteringProofs`:
- `TypeCorrect`. Inductive invariant `TypeInv`: `TypeOK` and that a process at a
  message-processing label has a message in hand (otherwise `First(batch[c])`
  would be arbitrary).
- `LedgerConsistent`. `LedgerAgrees` is inductive given `TypeInv`; lemma
  `LedgerEffect` reduces the steps to the three that touch the ledger.
- `RefinesAccounting`: every step is a step of `AttemptAccounting` or stutters.
- `EventsNotLost`, assuming `ReadWithinRetention`. `NothingLost` is not inductive:
  an entry is acknowledged because of where its process is (`StageInv`: at "ack"
  its effect is in the database, at "dlqack" it is in the dead letter stream), and a
  threshold computed earlier is still safe because the cursor and the pending list
  only leave settled entries behind it (`TrimInv`).

`BillingProofs`:
- `Invariance`: `Inv` is `TypeOK`, `SettlementsExclusive`, `JournalChains` and
  that the rows still to be priced are rows in settlement; `TypeCorrect`,
  `Exclusive` and `JournalsChained` follow.
- `SettledOnce` and `RulingsRespected` follow from what a step can do to a row
  (`RowEffect`).
- `PastBillsReplayable`, assuming `PromptInsert`. The invariant says that rows
  in settlement and prices being inserted lie on different sides of the clock:
  usage settled is in the past, a price inserted promptly is not, so it cannot be
  in effect at that time (`PastIsFixed`).
- `AnswersTrue`. A row of a journal is never taken out (`EntriesStay`), so an answer that
  was true stays true, and it is enough that the step that answers "created" or
  "replayed" finds the movement there (`AnswerEarned`): the one has just appended
  it, the other has compared kind and amount with the row that has the ID.

`ReconciliationProofs`:
- What a sum over a set computes. `SumFunctionOnSet` is a CHOOSE of a solution of a
  recursion over subsets, so even that the sum of S + x is the sum of S plus f[x] has
  to be proved. No induction rule can be instantiated here; every lemma takes the
  smallest set for which it would fail instead (`SmallestBad`, from the least
  element of a set of naturals), and shows that it does not: the recursion has a
  solution (`SumsExist`), which element is taken first does not matter (`SumsAny`),
  sums are integers, extend by one element and split over disjoint sets (`SumAdd`,
  `SumUnion`).
- `BooksAlwaysBalance` and `MoneyIsConserved`. Neither is inductive: at the step that
  commits a debit, the run's total must be what its rows say, and that total was
  added up over several steps. `BookInv` adds that a settlement under way has added
  up exactly its quotes, no row twice (`SettlementsAdd`), that a row has an amount and
  a run if and only if it is billed (`RowsMarked`), and that the ledger is finite,
  without which sums mean nothing. The totals (`TotalsAgree`) then move together: a
  debit and its rows (`DebitKeeps`), a manual movement and the balance
  (`ManualKeeps`). Exclusive settlement, from `BillingProofs`, is what makes the
  rows of two runs disjoint.

`SnapshotProofs`: `TypeCorrect`, by the parts of `TypeOK` that an action touches.
`AccountsOwnedOnce`: two installed buckets of a gateway are disjoint (`Disjoint`),
which ReplaceBucket keeps whatever stale list it installs. `VersionsNotMixed` is an
action property; it needs `SeenCurrent`: while the epoch a loader read is still
current, so is the version it read.

`StreamProofs`: `StreamsWhole`. `CompleteIsWhole` speaks of ended streams only;
`StreamInv` says of every open one that what the client got, plus the event at
hand, is what the upstream sent (`Tally`: text, end, reason, tokens), unless the
client is gone. Of the reason nothing is claimed for a chat client whose stream is
converted: the code always tells it "stop".

`GatewayProofs`: `SlotsAreBounded`. A release must find its own count, so
`PlaceInv` says at which labels a request may hold which slot; `SlotInv` adds the
direction that holds without faults only (`NoExcess`). `AnswersMatchRecords`:
`RecordInv` says label by label what has been recorded and told so far.

`WrapperProofs`:
- `TypeCorrect`. `TypeInv` adds that a worker at a message-handling label has one.
- `JobsAreKept` and `JobsEndOnce` (the refinement of `WrapperJobs`). `EndInv`: what
  is executed decodes and what is dead-lettered does not, so that a job cannot
  both get a result and be dead; what is acknowledged has ended; who reports has an
  outcome.
- `FlowsFitLeases` and `ExecutorsAreAlone`. `LeaseInv`: the ticks since the lease and
  the ticks left to the timer stay within the `Budget` of the phase and the job's mode.
  Up to the token exchange and in every device flow it is below the TTL by
  `TimeoutAssumption`, whatever the lifetime of a code. With the shutdown it may reach
  the TTL, and only where the configuration leaves no tick for it: that is `ClosedLate`,
  the exception `FlowWithinLease` states, and `OneExecutor` counts a worker as executing
  only while its lease runs. Such a worker that has not overslept finds its own mark on
  its message.

`AccountProofs`:
- `AccountTypes`, the type invariant of the `accounts` run. `CredInv` adds to it where
  a process of each loop can be (`Placed`): the quota it is about to store came from
  the provider, and neither an idle process nor the snapshot loop has the lock. The
  six groups of actions (`Fencing` to `Operating`) are taken variable by variable.
- `CooldownsAreEarned`. `CooldownsEarned` is inductive given `HealthTypeOK`: what resets
  the count also ends the cooldown, and a class that sets the long one has just counted
  up to `Escalation` (`CountedFacts`, `CooledFacts`).
- `RotationsAreKept` and `ImportsStand`. `FenceInv`: nobody with a current epoch has a
  replaced token (`NotReplaced`); the account's row never has one, and no refresh has
  disabled it unless something interfered (`Stored`); a token used up has its successor
  on the way (`Rotating`); and while nothing has interfered, who has a current epoch has
  the lock (so two refreshes cannot use up one token) and the token the provider
  accepts (`Undisturbed`). `ImportStands` is an action property that follows from it
  (`SparesStep`); it covers quota calls too.
- `QuotasNotStale`. `QuotaInv`: while no session was lost, an outbox item of the
  current epoch carries the committed quota, in the table and in the hand of who
  claimed it, and whoever can still commit another one has made it stale.
- `PartsSideBySide`: these guarantees hold of the composition that the run checks.

Every invariant and every action property of a passing run is a theorem, and so is
the safety part of each refinement. Only
model-checked: the liveness properties (`EveryAttemptCloses`, `EveryEntrySettles`,
`RowsGetSettled`, `Converges`, `Served`, `QuotaReaches`, `AccessReaches`, `NoLockout`),
because fairness and ENABLED are beyond the prover; and the three violations.

## Plan

Done: every module of the table above, in the order of the table. Left:

1. The window choice of the reconciliation loop.

## Not modelled, and why

Converting a request or an answer in one piece (`pkg/protokit`) is a stateless
translation of JSON: its correctness is wording and layout, which a model leaves
out. The streamed conversion keeps state and is `StreamDrain`. Provider adapters
build HTTP requests to external services; the outcomes their callers tell apart are
in `Credentials` and `WrapperFlow`. TLS profile, cipher, commands and metrics have no
state of their own. The detail sink drops when it is full and nobody decides by
it. Console read endpoints change nothing. The new-api migration is run by hand
while nothing else writes. `PROJECT.json` lists each with its reason.
