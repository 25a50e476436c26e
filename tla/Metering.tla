------------------------------ MODULE Metering ------------------------------
(***************************************************************************)
(* The metering pipeline: gateways append attempt_started and release      *)
(* events to a Redis stream, control processes consume it as one consumer  *)
(* group and write the attempt and usage tables, and a reconciler closes   *)
(* the attempts whose release never came.                                  *)
(*                                                                         *)
(*   internal/gateway/server.go    the producer of the events              *)
(*   internal/events/stream.go     Producer.Add, Consumer.RunOnce, Trim    *)
(*   internal/control/ledger.go    the handlers and RecoverAttempts        *)
(*   internal/control/run.go       the loop that calls RunOnce and Trim    *)
(*                                                                         *)
(* A stream entry's ID is its position in `stream`.  An error returned     *)
(* from RunOnce and the crash of a control process have the same effect:   *)
(* the batch held in memory is forgotten and the consumer starts over.     *)
(***************************************************************************)
EXTENDS Naturals, Sequences, FiniteSets

CONSTANTS
  Attempts,             \* upstream attempts of the gateways
  Consumers,            \* control processes of the consumer group
  MaxRetries,           \* events.MaxRetries
  BatchSize,            \* Count of XPENDING and XREADGROUP (32)
  MaxEntries,           \* bound: entries the stream ever holds
  MaxFaults,            \* bound: failed or retried calls and crashes
  MaxAged,              \* bound: entries that turn older than Retention
  ReadWithinRetention   \* TRUE: entries are delivered before they turn 7 days old

ASSUME MaxRetriesAssumption == MaxRetries \in Nat
ASSUME BatchSizeAssumption == BatchSize \in Nat \ {0}
ASSUME MaxEntriesAssumption == MaxEntries \in Nat
ASSUME MaxFaultsAssumption == MaxFaults \in Nat
ASSUME MaxAgedAssumption == MaxAged \in Nat
ASSUME RetentionAssumption == ReadWithinRetention \in BOOLEAN

Ids == 1 .. MaxEntries

\* A payload is valid when the consumer's payload.Validate accepts it.
Entry == [kind : {"attempt_started", "release"}, attempt : Attempts, valid : BOOLEAN]

VARIABLES
  gw,         \* gw[a]: how far the gateway is with attempt a
  stream,     \* every entry ever appended to gateway:events:v1
  horizon,    \* entries up to here are older than Retention
  trimmed,    \* entries up to here were removed by XTRIM
  cursor,     \* last-delivered ID of the group
  pel,        \* the group's pending entries list
  idle,       \* pending entries not delivered or claimed for ReclaimIdle
  retries,    \* gateway:events:retry:<id>
  dlq,        \* entries copied to the dead letter stream
  pc,         \* pc[c]: where control process c is in its loop
  phase,      \* phase[c]: the batch in hand comes from "reclaim" or "read"
  batch,      \* batch[c]: IDs of the batch in hand, processed in ID order
  threshold,  \* threshold[c]: the MINID Trim has computed
  attempts,   \* request_attempts: state per attempt, "absent" without a row
  usage,      \* usage_ledger: origin of the attempt's row, "none" without one
  authority,  \* times applyReleaseAuthority ran for the attempt
  expired,    \* attempts with deadline_at < now - 5 min
  faults      \* faults so far

gatewayVars  == <<gw, stream>>
redisVars    == <<horizon, trimmed, cursor, pel, idle, retries, dlq>>
consumerVars == <<pc, phase, batch, threshold>>
ledgerVars   == <<attempts, usage, authority>>
vars == <<gw, stream, horizon, trimmed, cursor, pel, idle, retries, dlq, pc,
          phase, batch, threshold, attempts, usage, authority, expired, faults>>

GatewayState == {"idle", "started", "done", "failed"}
PC == {"select", "reclaim", "process", "handle", "ack", "forget", "deadletter",
       "dlqack", "trim"}

TypeOK ==
  /\ gw \in [Attempts -> GatewayState]
  /\ stream \in Seq(Entry)
  /\ Len(stream) <= MaxEntries
  /\ horizon \in 0 .. Len(stream)
  /\ trimmed \in 0 .. Len(stream)
  /\ cursor \in 0 .. Len(stream)
  /\ pel \subseteq 1 .. cursor
  /\ idle \subseteq pel
  /\ retries \in [Ids -> Nat]
  /\ dlq \subseteq 1 .. cursor
  /\ pc \in [Consumers -> PC]
  /\ phase \in [Consumers -> {"reclaim", "read"}]
  /\ batch \in [Consumers -> SUBSET (1 .. cursor)]
  /\ threshold \in [Consumers -> 0 .. Len(stream) + 1]
  /\ attempts \in [Attempts -> {"absent", "open", "terminal", "reconciled"}]
  /\ usage \in [Attempts -> {"none", "gateway", "synthetic"}]
  /\ authority \in [Attempts -> Nat]
  /\ expired \subseteq Attempts
  /\ faults \in 0 .. MaxFaults

Init ==
  /\ gw = [a \in Attempts |-> "idle"]
  /\ stream = << >>
  /\ horizon = 0
  /\ trimmed = 0
  /\ cursor = 0
  /\ pel = {}
  /\ idle = {}
  /\ retries = [i \in Ids |-> 0]
  /\ dlq = {}
  /\ pc = [c \in Consumers |-> "reclaim"]
  /\ phase = [c \in Consumers |-> "reclaim"]
  /\ batch = [c \in Consumers |-> {}]
  /\ threshold = [c \in Consumers |-> 0]
  /\ attempts = [a \in Attempts |-> "absent"]
  /\ usage = [a \in Attempts |-> "none"]
  /\ authority = [a \in Attempts |-> 0]
  /\ expired = {}
  /\ faults = 0

(***************************************************************************)
(* The gateway.  XADD may be retried by the Redis client after a lost      *)
(* reply, so an acknowledged append can leave two copies and a failed one  *)
(* can leave a copy all the same.                                          *)
(***************************************************************************)

Copies(n, e) == [k \in 1 .. n |-> e]

\* XADD of e: n copies end up in the stream; anything but one copy is a fault.
Append_(e, n) ==
  /\ Len(stream) + n <= MaxEntries
  /\ stream' = stream \o Copies(n, e)

Event(k, a, v) == [kind |-> k, attempt |-> a, valid |-> v]

\* Producer.Add of a good call: one copy, or two when the client retried.
AddOK(e) ==
  \/ Append_(e, 1) /\ UNCHANGED faults
  \/ Append_(e, 2) /\ faults < MaxFaults /\ faults' = faults + 1

\* Producer.Add of a call that returned an error: the entry may exist or not.
AddFails(e) ==
  /\ faults < MaxFaults
  /\ faults' = faults + 1
  /\ Append_(e, 1) \/ UNCHANGED stream

\* The attempt is announced before the upstream is called; when that fails
\* the request ends without an upstream call.
StartAttempt(a) ==
  /\ gw[a] = "idle"
  /\ \/ AddOK(Event("attempt_started", a, TRUE)) /\ gw' = [gw EXCEPT ![a] = "started"]
     \/ AddFails(Event("attempt_started", a, TRUE)) /\ gw' = [gw EXCEPT ![a] = "failed"]
  /\ UNCHANGED <<redisVars, consumerVars, ledgerVars, expired>>

\* The upstream answered (or failed) and the release is written, once.
FinishAttempt(a) ==
  /\ gw[a] = "started"
  /\ \E v \in BOOLEAN :
       \/ AddOK(Event("release", a, v)) /\ gw' = [gw EXCEPT ![a] = "done"]
       \/ AddFails(Event("release", a, v)) /\ gw' = [gw EXCEPT ![a] = "failed"]
  /\ UNCHANGED <<redisVars, consumerVars, ledgerVars, expired>>

\* The gateway dies between the two events.
GatewayCrash(a) ==
  /\ gw[a] = "started"
  /\ faults < MaxFaults
  /\ faults' = faults + 1
  /\ gw' = [gw EXCEPT ![a] = "failed"]
  /\ UNCHANGED <<stream, redisVars, consumerVars, ledgerVars, expired>>

(***************************************************************************)
(* Time.                                                                   *)
(***************************************************************************)

\* attempt a's deadline_at is more than 5 minutes ago.
DeadlinePasses(a) ==
  /\ gw[a] # "idle"
  /\ a \notin expired
  /\ expired' = expired \cup {a}
  /\ UNCHANGED <<gatewayVars, redisVars, consumerVars, ledgerVars, faults>>

\* A pending entry reaches ReclaimIdle.
IdleElapses(i) ==
  /\ i \in pel \ idle
  /\ idle' = idle \cup {i}
  /\ UNCHANGED <<gatewayVars, horizon, trimmed, cursor, pel, retries, dlq,
                 consumerVars, ledgerVars, expired, faults>>

\* The next entry turns older than Retention.  An entry nobody has read yet
\* gets that old only while every control process is down.
EntryAges ==
  /\ horizon < MaxAged /\ horizon < Len(stream)
  /\ \/ horizon < cursor
     \/ ~ReadWithinRetention /\ \A c \in Consumers : pc[c] = "reclaim"
  /\ horizon' = horizon + 1
  /\ UNCHANGED <<gatewayVars, trimmed, cursor, pel, idle, retries, dlq,
                 consumerVars, ledgerVars, expired, faults>>

(***************************************************************************)
(* Consumer.RunOnce.                                                       *)
(***************************************************************************)

First(S) == CHOOSE i \in S : \A j \in S : i <= j

\* The first BatchSize entries of S in ID order.
Batch(S) == {i \in S : Cardinality({j \in S : j < i}) < BatchSize}

Goto(c, l) == pc' = [pc EXCEPT ![c] = l]

\* The select at the end of the loop: another tick, or the trim ticker.
Tick(c) ==
  /\ pc[c] = "select"
  /\ Goto(c, "reclaim")
  /\ UNCHANGED <<gatewayVars, redisVars, phase, batch, threshold, ledgerVars, expired, faults>>

\* Mutant: what a failed run left pending is never claimed.
NeverReclaim(c) ==
  /\ pc[c] = "reclaim"
  /\ phase' = [phase EXCEPT ![c] = "reclaim"]
  /\ Goto(c, "process")
  /\ UNCHANGED <<gatewayVars, redisVars, batch, threshold, ledgerVars, expired, faults>>

\* XPENDING of the idle entries, XCLAIM of those: claiming resets the idle
\* time and drops entries that no longer exist in the stream.
Reclaim(c) ==
  /\ pc[c] = "reclaim"
  /\ LET claimed == Batch(idle) IN
       /\ batch' = [batch EXCEPT ![c] = {i \in claimed : i > trimmed}]
       /\ pel' = {i \in pel : i \in claimed => i > trimmed}
       /\ idle' = idle \ claimed
  /\ phase' = [phase EXCEPT ![c] = "reclaim"]
  /\ Goto(c, "process")
  /\ UNCHANGED <<gatewayVars, horizon, trimmed, cursor, retries, dlq, threshold,
                 ledgerVars, expired, faults>>

\* Mutant: the read always fills its batch.
ReadPastEnd(from) == from + BatchSize

\* XREADGROUP returns at most BatchSize entries after ID from.
ReadUpto(from) == IF Len(stream) > from + BatchSize THEN from + BatchSize ELSE Len(stream)

\* The reclaimed entries are done: XREADGROUP ">" delivers new ones.
ReadNew(c) ==
  /\ pc[c] = "process" /\ batch[c] = {} /\ phase[c] = "reclaim"
  /\ LET from == IF trimmed > cursor THEN trimmed ELSE cursor
         upto == ReadUpto(from)
         new  == {i \in 1 .. upto : i > from}
     IN  /\ batch' = [batch EXCEPT ![c] = new]
         /\ pel' = pel \cup new
         /\ cursor' = IF upto > from THEN upto ELSE cursor
  /\ phase' = [phase EXCEPT ![c] = "read"]
  /\ UNCHANGED <<gatewayVars, horizon, trimmed, idle, retries, dlq, pc, threshold,
                 ledgerVars, expired, faults>>

\* Mutant: an exhausted message is acknowledged without a dead letter.
DropExhausted(i) == IF retries[i] + 1 > MaxRetries THEN "ack" ELSE "handle"

\* Where a valid message goes once INCR has counted this try.
AfterCount(i) == IF retries[i] + 1 > MaxRetries THEN "deadletter" ELSE "handle"

\* process: an invalid payload goes to the dead letter stream at once, a
\* valid one is counted and goes there when it was tried MaxRetries times.
BeginProcess(c) ==
  /\ pc[c] = "process" /\ batch[c] # {}
  /\ LET i == First(batch[c]) IN
       IF stream[i].valid
         THEN /\ retries' = [retries EXCEPT ![i] = @ + 1]
              /\ Goto(c, AfterCount(i))
         ELSE /\ Goto(c, "deadletter")
              /\ UNCHANGED retries
  /\ UNCHANGED <<gatewayVars, horizon, trimmed, cursor, pel, idle, dlq, phase, batch,
                 threshold, ledgerVars, expired, faults>>

\* RunOnce returns, with an error or at its end: what is left of the batch
\* stays pending.
EndRun(c) ==
  /\ Goto(c, "select")
  /\ batch' = [batch EXCEPT ![c] = {}]
  /\ phase' = [phase EXCEPT ![c] = "reclaim"]

\* INSERT INTO request_attempts ... ON CONFLICT (attempt_id) DO NOTHING
HandleAttemptStarted(c, a) ==
  /\ attempts' = IF attempts[a] = "absent" THEN [attempts EXCEPT ![a] = "open"]
                                           ELSE attempts
  /\ Goto(c, "ack")
  /\ UNCHANGED <<usage, authority, phase, batch>>

\* Mutant: the account is judged on every delivery.
JudgeAlways(a) == [authority EXCEPT ![a] = @ + 1]

\* applyReleaseAuthority runs only when the INSERT affected a row.
JudgeOnInsert(a) == IF usage[a] = "none" THEN [authority EXCEPT ![a] = @ + 1] ELSE authority

\* Mutant: a late release reopens what the reconciler closed.
AlwaysTerminal(s) == "terminal"

\* state = CASE WHEN state='reconciled' THEN state ELSE 'terminal' END
TerminalState(s) == IF s = "reconciled" THEN s ELSE "terminal"

\* One transaction under the attempt's row lock.  A release whose attempt
\* is not persisted yet is an error; the account is judged only when the
\* usage row was inserted; a reconciled attempt stays reconciled.
HandleRelease(c, a) ==
  \/ /\ attempts[a] = "absent"
     /\ EndRun(c)
     /\ UNCHANGED ledgerVars
  \/ /\ attempts[a] # "absent"
     /\ usage' = IF usage[a] = "none" THEN [usage EXCEPT ![a] = "gateway"] ELSE usage
     /\ attempts' = [attempts EXCEPT ![a] = TerminalState(@)]
     /\ authority' = JudgeOnInsert(a)
     /\ Goto(c, "ack")
     /\ UNCHANGED <<phase, batch>>

Handle(c) ==
  /\ pc[c] = "handle"
  /\ LET e == stream[First(batch[c])] IN
       \/ e.kind = "attempt_started" /\ HandleAttemptStarted(c, e.attempt)
       \/ e.kind = "release" /\ HandleRelease(c, e.attempt)
  /\ UNCHANGED <<gatewayVars, redisVars, threshold, expired, faults>>

\* XADD to the dead letter stream.
DeadLetter(c) ==
  /\ pc[c] = "deadletter"
  /\ dlq' = dlq \cup {First(batch[c])}
  /\ Goto(c, "dlqack")
  /\ UNCHANGED <<gatewayVars, horizon, trimmed, cursor, pel, idle, retries, phase, batch,
                 threshold, ledgerVars, expired, faults>>

\* XACK, after the handler or after the dead letter.
Ack(c) ==
  /\ pc[c] \in {"ack", "dlqack"}
  /\ pel' = pel \ {First(batch[c])}
  /\ idle' = idle \ {First(batch[c])}
  /\ Goto(c, "forget")
  /\ UNCHANGED <<gatewayVars, horizon, trimmed, cursor, retries, dlq, phase, batch,
                 threshold, ledgerVars, expired, faults>>

\* DEL of the retry counter, whose failure is ignored; on to the next message
\* of the batch.
Forget(c) ==
  /\ pc[c] = "forget"
  /\ LET i == First(batch[c]) IN
       /\ batch' = [batch EXCEPT ![c] = @ \ {i}]
       /\ \/ retries' = [retries EXCEPT ![i] = 0] /\ UNCHANGED faults
          \/ faults < MaxFaults /\ faults' = faults + 1 /\ UNCHANGED retries
  /\ Goto(c, "process")
  /\ UNCHANGED <<gatewayVars, horizon, trimmed, cursor, pel, idle, dlq, phase, threshold,
                 ledgerVars, expired>>

\* Attempts whose row another control process has locked at this moment.
Locked(c) == {stream[First(batch[d])].attempt : d \in {d \in Consumers \ {c} : pc[d] = "handle"}}

\* Mutant: only attempts with a usage row are closed.
DueWithUsage(skipped) == {a \in expired \ skipped : attempts[a] = "open" /\ usage[a] # "none"}

\* state='open' AND deadline_at < before, FOR UPDATE SKIP LOCKED
Due(skipped) == {a \in expired \ skipped : attempts[a] = "open"}

\* RecoverAttempts: the expired open attempts, SKIP LOCKED, get a synthetic
\* usage row (if they have none) and become reconciled in one transaction.
RecoverAttempts(c) ==
  /\ pc[c] = "process" /\ batch[c] = {} /\ phase[c] = "read"
  /\ \E skipped \in SUBSET Locked(c) :
       LET due == Due(skipped) IN
         /\ usage' = [a \in Attempts |->
                        IF a \in due /\ usage[a] = "none" THEN "synthetic" ELSE usage[a]]
         /\ attempts' = [a \in Attempts |-> IF a \in due THEN "reconciled" ELSE attempts[a]]
  /\ EndRun(c)
  /\ UNCHANGED <<gatewayVars, redisVars, threshold, authority, expired, faults>>

\* Trim, first half: the retention threshold, lowered to the oldest pending ID.
TrimThreshold(c) ==
  /\ pc[c] = "select"
  /\ threshold' = [threshold EXCEPT ![c] =
                     IF pel # {} /\ First(pel) < horizon + 1 THEN First(pel) ELSE horizon + 1]
  /\ Goto(c, "trim")
  /\ UNCHANGED <<gatewayVars, redisVars, phase, batch, ledgerVars, expired, faults>>

\* Trim, second half: XTRIM MINID removes every entry before the threshold.
TrimMinID(c) ==
  /\ pc[c] = "trim"
  /\ trimmed' = IF trimmed < threshold[c] - 1 THEN threshold[c] - 1 ELSE trimmed
  /\ threshold' = [threshold EXCEPT ![c] = 0]
  /\ Goto(c, "reclaim")
  /\ UNCHANGED <<gatewayVars, horizon, cursor, pel, idle, retries, dlq, phase, batch,
                 ledgerVars, expired, faults>>

\* A Redis or database call of c fails, or c crashes and is restarted.
Interrupt(c) ==
  /\ pc[c] # "select"
  /\ faults < MaxFaults
  /\ faults' = faults + 1
  /\ EndRun(c)
  /\ threshold' = [threshold EXCEPT ![c] = 0]
  /\ UNCHANGED <<gatewayVars, redisVars, ledgerVars, expired>>

\* What control process c does by itself.
Step(c) ==
  \/ Tick(c) \/ Reclaim(c) \/ ReadNew(c) \/ BeginProcess(c) \/ Handle(c)
  \/ DeadLetter(c) \/ Ack(c) \/ Forget(c) \/ RecoverAttempts(c)
  \/ TrimThreshold(c) \/ TrimMinID(c)

Next ==
  \/ \E a \in Attempts : StartAttempt(a) \/ FinishAttempt(a) \/ GatewayCrash(a)
                         \/ DeadlinePasses(a)
  \/ \E i \in Ids : IdleElapses(i)
  \/ EntryAges
  \/ \E c \in Consumers : Step(c) \/ Interrupt(c)

Spec == Init /\ [][Next]_vars

\* The control loop never stops by itself, and clocks advance.
Fairness ==
  /\ \A c \in Consumers : WF_vars(Step(c))
  /\ \A i \in Ids : WF_vars(IdleElapses(i))
  /\ \A a \in Attempts : WF_vars(DeadlinePasses(a))

FairSpec == Spec /\ Fairness

-----------------------------------------------------------------------------
(***************************************************************************)
(* Properties.                                                             *)
(***************************************************************************)

\* The entry's effect is in the database.
Applied(e) == IF e.kind = "attempt_started" THEN attempts[e.attempt] # "absent"
                                            ELSE usage[e.attempt] # "none"

Settled(i) == i \in dlq \/ Applied(stream[i])

\* The group can still get at the entry: it exists, and is new or pending.
Recoverable(i) == i > trimmed /\ (i > cursor \/ i \in pel)

\* No event is lost between the gateway and the ledger: whatever errors,
\* crashes, reclaims and trims happen, every entry Producer.Add appended has
\* had its effect, is in the dead letter stream, or can still be delivered or
\* reclaimed (process acknowledges only after the commit or the dead letter,
\* Trim never crosses unacknowledged work).
NothingLost == \A i \in 1 .. Len(stream) : Settled(i) \/ Recoverable(i)

\* The two ledger tables agree whatever the release and the reconciler race
\* to do, and applyReleaseAuthority ran once for an attempt metered by its
\* release and never for any other, redelivered and duplicated events included.
LedgerAgrees ==
  \A a \in Attempts :
    /\ usage[a] = "none" <=> attempts[a] \in {"absent", "open"}
    /\ usage[a] = "synthetic" <=> attempts[a] = "reconciled"
    /\ authority[a] = IF usage[a] = "gateway" THEN 1 ELSE 0

\* The pipeline implements AttemptAccounting.
Accounting == INSTANCE AttemptAccounting WITH
  account <- [a \in Attempts |-> CASE attempts[a] = "absent" -> "unseen"
                                   [] attempts[a] = "open" -> "open"
                                   [] attempts[a] = "terminal" -> "metered"
                                   [] attempts[a] = "reconciled" -> "reconciled"],
  judged <- authority

\* Every step of the ledger is a step of the accounting specification: an
\* attempt opens once, is closed once, and its first terminal wins.
ImplementsAccounting == Accounting!Spec

\* Every attempt whose start reached the database is closed in the end, by its
\* release or by RecoverAttempts: a failing entry delays the loop, never stops it.
EveryAttemptCloses == Accounting!FairSpec

\* No entry stays unacknowledged for ever: it is processed or, after MaxRetries
\* tries, dead-lettered, and does not keep the entries behind it waiting.
EveryEntrySettles == \A i \in Ids : i <= Len(stream) ~> (i <= cursor /\ i \notin pel)
=============================================================================
