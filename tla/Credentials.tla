---------------------------- MODULE Credentials ----------------------------
(***************************************************************************)
(* One OAuth account as several control processes refresh its credential   *)
(* and its quota, while operators change it and an import replaces it.     *)
(*                                                                         *)
(*   internal/control/fencing.go        Fencer                             *)
(*   internal/control/refresh.go        RefreshService                     *)
(*   internal/control/quota_refresh.go  QuotaService, QuotaReconciler      *)
(*   internal/control/import.go         Save                               *)
(*   internal/control/console_accounts.go  the three account actions       *)
(*                                                                         *)
(* A fencing epoch and a snapshot epoch are only ever compared with the    *)
(* current one, so of each the model keeps whether it still is the current *)
(* one (fenced, valid).  Of a refresh token it keeps whether the provider  *)
(* still accepts it: a rotation kills every other copy of the token.       *)
(***************************************************************************)
EXTENDS Naturals

CONSTANTS
  Controls,     \* control processes; each runs its loops one after the other
  Quotas,       \* answers of the provider's quota endpoint
  MaxEvents     \* bound: console actions, imports, rejected releases, and
                \* faults (crashes, lost sessions, lost answers, failed calls)

Nobody == "nobody"   \* the advisory lock is free
Absent == "absent"   \* the account is not in the active snapshot
\* No row in quota_snapshot_outbox.
NoItem == [quota |-> Absent, fresh |-> FALSE, ready |-> FALSE]

ASSUME ControlsAssumption == Nobody \notin Controls
ASSUME QuotasAssumption == Quotas # {} /\ Absent \notin Quotas
ASSUME EventsAssumption == MaxEvents \in Nat

VARIABLES
  status,      \* accounts.status; 'disabled' by Fail is "refused" when the
               \* refresh loop was refused, "expired" when the quota loop was
  secret,      \* credentials.encrypted_secret: is its refresh token good?
  quota,       \* accounts.quota
  outbox,      \* the account's row of quota_snapshot_outbox
  snap,        \* the account's quota in the active snapshot
  lock,        \* the session that holds the account's advisory lock
  task,        \* task[c]: the loop control c is in
  pc,          \* pc[c]: where in it
  fenced,      \* fenced[c]: the fence epoch c works with is still the account's
  held,        \* held[c]: the refresh token c has read or received
  got,         \* got[c]: the quota c has in hand
  mine,        \* mine[c]: the outbox row has the fence epoch c works with
  valid,       \* valid[c]: the snapshot epoch c has read is still the current one
  events,      \* how many of these there have been
  interfered,  \* since the import something cut into a refresh in flight
  lostLock     \* a process went on without the lock it had taken

account == <<status, secret, quota, outbox, snap>>
process == <<task, pc, fenced, held, got, mine, valid>>
history == <<interfered, lostLock>>
credVars == <<account, lock, process, events, history>>

Tasks == {"none", "refresh", "quota", "reconcile", "snapshot"}
Steps == {"idle", "listed", "acquire", "read", "call", "fail", "commit",
          "queue", "load", "publish", "ack",
          "claimed", "check", "drop", "retry", "epoch", "script"}

\* "live": the provider accepts it; "dead": rotated away; "old": of an
\* authorization that an import has replaced.
Tokens == {"live", "dead", "old"}

CredTypeOK ==
  /\ status \in {"active", "disabled", "refused", "expired"}
  /\ secret \in Tokens
  /\ quota \in Quotas
  /\ outbox \in {NoItem} \cup [quota : Quotas, fresh : BOOLEAN, ready : BOOLEAN]
  /\ snap \in Quotas \cup {Absent}
  /\ lock \in Controls \cup {Nobody}
  /\ task \in [Controls -> Tasks]
  /\ pc \in [Controls -> Steps]
  /\ fenced \in [Controls -> BOOLEAN]
  /\ held \in [Controls -> Tokens]
  /\ got \in [Controls -> Quotas \cup {Absent}]
  /\ mine \in [Controls -> BOOLEAN]
  /\ valid \in [Controls -> BOOLEAN]
  /\ events \in 0 .. MaxEvents
  /\ interfered \in BOOLEAN
  /\ lostLock \in BOOLEAN
  /\ \A c \in Controls :
       /\ task[c] = "none" <=> pc[c] = "idle"
       /\ lock = c => task[c] \in {"refresh", "quota", "reconcile"}
       /\ mine[c] => outbox # NoItem

\* An imported account that a snapshot has published.
CredInit ==
  /\ status = "active"
  /\ secret = "live"
  /\ quota = CHOOSE q \in Quotas : TRUE
  /\ outbox = NoItem
  /\ snap = quota
  /\ lock = Nobody
  /\ task = [c \in Controls |-> "none"]
  /\ pc = [c \in Controls |-> "idle"]
  /\ fenced = [c \in Controls |-> FALSE]
  /\ held = [c \in Controls |-> "dead"]
  /\ got = [c \in Controls |-> Absent]
  /\ mine = [c \in Controls |-> FALSE]
  /\ valid = [c \in Controls |-> FALSE]
  /\ events = 0
  /\ interfered = FALSE
  /\ lostLock = FALSE

Event == events < MaxEvents /\ events' = events + 1
Goto(c, l) == pc' = [pc EXCEPT ![c] = l]
At(c, t, l) == task[c] = t /\ pc[c] = l

\* Mutant: a return without unlock.
Leaked(c) == lock

Unlocked(c) == IF lock = c THEN Nobody ELSE lock

\* The process returns to its loop and forgets what it had in hand; a lock it
\* still has is released, and one its session lost is somebody else's matter.
Return(c) ==
  /\ task' = [task EXCEPT ![c] = "none"]
  /\ pc' = [pc EXCEPT ![c] = "idle"]
  /\ fenced' = [fenced EXCEPT ![c] = FALSE]
  /\ held' = [held EXCEPT ![c] = "dead"]
  /\ got' = [got EXCEPT ![c] = Absent]
  /\ valid' = [valid EXCEPT ![c] = FALSE]
  /\ lock' = Unlocked(c)

Leave(c) == Return(c) /\ mine' = [mine EXCEPT ![c] = FALSE]


(***************************************************************************)
(* Fencer and PGCredentialRepository.                                      *)
(***************************************************************************)

\* The epoch of everyone but c is no longer the account's.
Bump(c) ==
  /\ fenced' = [d \in Controls |-> d = c]
  /\ outbox' = [outbox EXCEPT !.fresh = FALSE]

\* RefreshLoop and QuotaLoop list the accounts that are active; the account's
\* turn in the batch comes later.
ListAccounts(c, t) ==
  /\ pc[c] = "idle"
  /\ status = "active"
  /\ task' = [task EXCEPT ![c] = t]
  /\ Goto(c, "listed")
  /\ UNCHANGED <<account, lock, fenced, held, got, mine, valid, events, history>>

\* Mutant: the advisory lock is not looked at.
LockAlways(c) == TRUE

\* pg_try_advisory_lock on a connection of its own.
LockFree(c) == lock = Nobody

\* A busy account is skipped until the next tick.
TryLock(c) ==
  /\ pc[c] = "listed"
  /\ \/ /\ LockFree(c)
        /\ lock' = c
        /\ Goto(c, "acquire")
        /\ UNCHANGED <<account, task, fenced, held, got, mine, valid, events, history>>
     \/ /\ ~LockFree(c)
        /\ Leave(c)
        /\ UNCHANGED <<account, events, history>>

\* Fencer.Acquire: the epoch goes up before the credential is read.
Acquire(c) ==
  /\ pc[c] = "acquire"
  /\ Bump(c)
  /\ Goto(c, "read")
  /\ UNCHANGED <<status, secret, quota, snap, lock, task, held, got, mine, valid, events, history>>

\* The SELECT of Acquire finds no row once the epoch has moved: ErrFenceLost.
ReadCredential(c) ==
  /\ pc[c] = "read"
  /\ \/ /\ fenced[c]
        /\ held' = [held EXCEPT ![c] = secret]
        /\ Goto(c, "call")
        /\ UNCHANGED <<account, lock, task, fenced, got, mine, valid, events, history>>
     \/ /\ ~fenced[c]
        /\ Leave(c)
        /\ UNCHANGED <<account, events, history>>

\* Mutant: the UPDATE does not compare fence_epoch.
FailUnfenced(c) == TRUE

MayFail(c) == fenced[c]

\* Fail with auth_invalid disables the account; the other classes only leave
\* last_error_class, which nothing here reads.
Fail(c) ==
  /\ pc[c] = "fail"
  /\ status' = IF MayFail(c) /\ status = "active"
                 THEN IF task[c] = "refresh" THEN "refused" ELSE "expired"
                 ELSE status
  /\ Leave(c)
  /\ UNCHANGED <<secret, quota, outbox, snap, events, history>>

\* Mutant: the UPDATE of credentials does not compare fence_epoch.
CommitUnfenced(c) == TRUE

MayCommit(c) == fenced[c]

\* UpdateCredential; a lost fence ends the refresh and drops the new tokens.
Commit(c) ==
  /\ pc[c] = "commit"
  /\ secret' = IF MayCommit(c) THEN held[c] ELSE secret
  /\ Leave(c)
  /\ UNCHANGED <<status, quota, outbox, snap, events, history>>

(***************************************************************************)
(* RefreshService.Refresh: the call of the provider.                       *)
(***************************************************************************)

\* The provider answers, with a new refresh token or without one: in that case
\* doTokenRequest keeps the token it sent.
Refreshed(c, rotated) ==
  /\ At(c, "refresh", "call")
  /\ held[c] # "dead"
  /\ Goto(c, "commit")
  /\ IF rotated /\ held[c] = "live"
       THEN /\ secret' = IF secret = "live" THEN "dead" ELSE secret
            /\ held' = [d \in Controls |->
                          IF d # c /\ held[d] = "live" THEN "dead" ELSE held[d]]
       ELSE UNCHANGED <<secret, held>>
  /\ UNCHANGED <<status, quota, outbox, snap, lock, task, fenced, got, mine, valid, events, history>>

\* newHTTPError makes auth_invalid of invalid_grant, invalid_token and 401.  A
\* refresh sends the refresh token and is refused when that is not the live one;
\* a quota call sends the access token, which may have expired.
Refused(c) ==
  /\ pc[c] = "call"
  /\ task[c] = "refresh" => held[c] # "live"
  /\ Goto(c, "fail")
  /\ UNCHANGED <<account, lock, task, fenced, held, got, mine, valid, events, history>>

\* Any other failure of the call, and a quota endpoint that is not configured.
CallFails(c) ==
  /\ pc[c] = "call"
  /\ Leave(c)
  /\ UNCHANGED <<account, events, history>>

\* The provider has rotated the token and its answer is lost: network_error.
AnswerLost(c) ==
  /\ At(c, "refresh", "call")
  /\ held[c] = "live"
  /\ secret = "live"
  /\ Event
  /\ secret' = "dead"
  /\ interfered' = TRUE
  /\ Leave(c)
  /\ UNCHANGED <<status, quota, outbox, snap, lostLock>>

(***************************************************************************)
(* QuotaService.Refresh and PublishQuota.                                  *)
(***************************************************************************)

QuotaAnswer(c, q) ==
  /\ At(c, "quota", "call")
  /\ got' = [got EXCEPT ![c] = q]
  /\ held' = [held EXCEPT ![c] = "dead"]   \* not used any more
  /\ Goto(c, "queue")
  /\ UNCHANGED <<account, lock, task, fenced, mine, valid, events, history>>

\* The quota and its outbox row in one transaction; the row of an earlier epoch
\* is overwritten.
CommitQuotaAndQueue(c) ==
  /\ pc[c] = "queue"
  /\ \/ /\ fenced[c]
        /\ quota' = got[c]
        /\ outbox' = [quota |-> got[c], fresh |-> TRUE, ready |-> TRUE]
        /\ mine' = [d \in Controls |-> d = c]
        /\ fenced' = [fenced EXCEPT ![c] = FALSE]   \* not compared any more
        /\ Goto(c, "load")
        /\ UNCHANGED <<status, secret, snap, lock, task, held, got, valid, events, history>>
     \/ /\ ~fenced[c]
        /\ Leave(c)
        /\ UNCHANGED <<account, events, history>>

\* QuotaService returns the error, the reconciler puts the item off.
PublishFails(c) ==
  /\ \/ task[c] = "quota" /\ Leave(c)
     \/ /\ task[c] = "reconcile"
        /\ Goto(c, "retry")
        /\ UNCHANGED <<lock, task, fenced, held, got, mine, valid>>
  /\ UNCHANGED <<account, history>>

\* An account that is not in the snapshot is an error; a quota that is there
\* already is not published again.
LoadBucket(c) ==
  /\ pc[c] = "load"
  /\ \/ snap = Absent /\ PublishFails(c) /\ UNCHANGED events
     \/ /\ snap # Absent
        /\ Goto(c, IF snap = got[c] THEN "ack" ELSE "publish")
        /\ valid' = [valid EXCEPT ![c] = (snap # got[c])]
        /\ UNCHANGED <<account, lock, task, fenced, held, got, mine, events, history>>

\* publishScript: the snapshot c puts there makes every other epoch stale.
Script(c) ==
  /\ valid[c]
  /\ snap' = got[c]
  /\ valid' = [d \in Controls |-> FALSE]

PublishQuota(c) ==
  /\ pc[c] = "publish"
  /\ \/ /\ Script(c)
        /\ Goto(c, "ack")
        /\ UNCHANGED <<status, secret, quota, outbox, lock, task, fenced, held, got, mine, events, history>>
     \/ ~valid[c] /\ PublishFails(c) /\ UNCHANGED events

\* Redis or the database fails a call.
CallToStoreFails(c) ==
  /\ pc[c] \in {"load", "publish", "ack"}
  /\ Event
  /\ PublishFails(c)

Remove(c) ==
  /\ outbox' = IF mine[c] THEN NoItem ELSE outbox
  /\ mine' = IF mine[c] THEN [d \in Controls |-> FALSE] ELSE mine

\* AckQuotaOutbox deletes the row of this epoch.  When it is gone QuotaService
\* returns and the reconciler tries to put off a row that is not there.
AckQuotaOutbox(c) ==
  /\ pc[c] = "ack"
  /\ Remove(c)
  /\ Return(c)
  /\ UNCHANGED <<status, secret, quota, snap, events, history>>

(***************************************************************************)
(* QuotaReconciler.RunOnce and reconcileItem.                              *)
(***************************************************************************)

\* The row is due and not leased; the claim leases it for a minute.
ClaimQuotaOutbox(c) ==
  /\ pc[c] = "idle"
  /\ outbox # NoItem
  /\ outbox.ready
  /\ outbox' = [outbox EXCEPT !.ready = FALSE]
  /\ mine' = [mine EXCEPT ![c] = TRUE]
  /\ fenced' = [fenced EXCEPT ![c] = outbox.fresh]
  /\ got' = [got EXCEPT ![c] = outbox.quota]
  /\ task' = [task EXCEPT ![c] = "reconcile"]
  /\ Goto(c, "claimed")
  /\ UNCHANGED <<status, secret, quota, snap, lock, held, valid, events, history>>

LockItem(c) ==
  /\ pc[c] = "claimed"
  /\ \/ LockFree(c) /\ lock' = c /\ Goto(c, "check")
     \/ ~LockFree(c) /\ Goto(c, "retry") /\ UNCHANGED lock
  /\ UNCHANGED <<account, task, fenced, held, got, mine, valid, events, history>>

\* Mutant: the epoch is not looked at again.
PublishAny(c) == TRUE

\* The item's epoch is still the account's.
ItemCurrent(c) == fenced[c]

CheckFence(c) ==
  /\ pc[c] = "check"
  /\ Goto(c, IF ItemCurrent(c) THEN "load" ELSE "drop")
  /\ fenced' = [fenced EXCEPT ![c] = FALSE]   \* not compared any more
  /\ UNCHANGED <<account, lock, task, held, got, mine, valid, events, history>>

\* An item of an earlier epoch is acknowledged without being published.
DropStale(c) ==
  /\ pc[c] = "drop"
  /\ Remove(c)
  /\ Return(c)
  /\ UNCHANGED <<status, secret, quota, snap, events, history>>

\* RetryQuotaOutbox ends the lease and sets the next attempt; it touches no row
\* of another epoch.
RetryQuotaOutbox(c) ==
  /\ pc[c] = "retry"
  /\ outbox' = IF mine[c] THEN [outbox EXCEPT !.ready = FALSE] ELSE outbox
  /\ Leave(c)
  /\ UNCHANGED <<status, secret, quota, snap, events, history>>

\* The lease of a claim has run out, or the back-off has.
ItemDue ==
  /\ outbox # NoItem
  /\ ~outbox.ready
  /\ outbox' = [outbox EXCEPT !.ready = TRUE]
  /\ UNCHANGED <<status, secret, quota, snap, lock, process, events, history>>

(***************************************************************************)
(* SnapshotLoop.RunOnce, for the bucket of the account.                    *)
(***************************************************************************)

ListSnapshotAccounts(c) ==
  /\ pc[c] = "idle"
  /\ got' = [got EXCEPT ![c] = IF status = "active" THEN quota ELSE Absent]
  /\ task' = [task EXCEPT ![c] = "snapshot"]
  /\ Goto(c, "epoch")
  /\ UNCHANGED <<account, lock, fenced, held, mine, valid, events, history>>

\* Mutant: the epoch of the process's own last publication is used.
EpochRemembered(c) == FALSE

EpochIsCurrent(c) == TRUE

ReadEpoch(c) ==
  /\ pc[c] = "epoch"
  /\ valid' = [valid EXCEPT ![c] = EpochIsCurrent(c)]
  /\ Goto(c, "script")
  /\ UNCHANGED <<account, lock, task, fenced, held, got, mine, events, history>>

\* A stale epoch is an error that the next loop repairs.
PublishBucket(c) ==
  /\ pc[c] = "script"
  /\ IF valid[c] THEN snap' = got[c] ELSE UNCHANGED snap
  /\ Goto(c, "idle")
  /\ task' = [task EXCEPT ![c] = "none"]
  /\ got' = [got EXCEPT ![c] = Absent]
  /\ valid' = [d \in Controls |-> valid[d] /\ ~valid[c]]
  /\ UNCHANGED <<status, secret, quota, outbox, lock, fenced, held, mine, events, history>>

(***************************************************************************)
(* Operators, imports and releases.                                        *)
(***************************************************************************)

\* A refresh that has read a good token and not committed yet.
InFlight(c) == task[c] = "refresh" /\ pc[c] \in {"call", "commit"} /\ held[c] = "live"

BumpAll ==
  /\ fenced' = [d \in Controls |-> FALSE]
  /\ outbox' = [outbox EXCEPT !.fresh = FALSE]

\* applyAccountAction with set_status, clear_cooldown and clear_excluded_models:
\* a request that changes nothing moves no epoch.
AccountAction(s) ==
  /\ Event
  /\ status' = s
  /\ BumpAll
  /\ interfered' = (interfered \/ \E c \in Controls : InFlight(c))
  /\ UNCHANGED <<secret, quota, snap, lock, task, pc, held, got, mine, valid, lostLock>>

SetStatus == AccountAction(IF status = "active" THEN "disabled" ELSE "active")
ClearAccount == AccountAction(status)

\* Import takes the lock for Save's one transaction: a new authorization, a new
\* epoch, and the account is active.  A process that has lost its lock and not
\* yet moved the epoch can still cut into the refreshes to come.
Import ==
  /\ lock = Nobody
  /\ Event
  /\ status' = "active"
  /\ secret' = "live"
  /\ BumpAll
  /\ held' = [c \in Controls |-> IF held[c] = "live" THEN "old" ELSE held[c]]
  /\ interfered' = \E c \in Controls : pc[c] = "acquire"
  /\ UNCHANGED <<quota, snap, lock, task, pc, got, mine, valid, lostLock>>

\* applyReleaseAuthority with auth_invalid: no epoch is compared or moved.
ReleaseRejected ==
  /\ status = "active"
  /\ Event
  /\ status' = "disabled"
  /\ UNCHANGED <<secret, quota, outbox, snap, lock, process, history>>

(***************************************************************************)
(* Faults.                                                                 *)
(***************************************************************************)

\* The connection that holds the lock breaks and the process does not notice.
LoseSession(c) ==
  /\ lock = c
  /\ Event
  /\ lock' = Nobody
  /\ lostLock' = TRUE
  /\ interfered' = TRUE
  /\ UNCHANGED <<account, process>>

Crash(c) ==
  /\ pc[c] # "idle"
  /\ Event
  /\ interfered' = (interfered \/ (InFlight(c) /\ pc[c] = "commit"))
  /\ Leave(c)
  /\ UNCHANGED <<account, lostLock>>

RefreshStep(c) ==
  \/ TryLock(c) \/ Acquire(c) \/ ReadCredential(c) \/ Fail(c) \/ Commit(c)
  \/ \E rotated \in BOOLEAN : Refreshed(c, rotated)
  \/ Refused(c) \/ CallFails(c)

QuotaStep(c) ==
  \/ \E q \in Quotas : QuotaAnswer(c, q)
  \/ CommitQuotaAndQueue(c) \/ LoadBucket(c) \/ PublishQuota(c) \/ AckQuotaOutbox(c)
  \/ LockItem(c) \/ CheckFence(c) \/ DropStale(c) \/ RetryQuotaOutbox(c)

SnapshotStep(c) == ReadEpoch(c) \/ PublishBucket(c)

CredStep(c) == RefreshStep(c) \/ QuotaStep(c) \/ SnapshotStep(c)

CredNext ==
  \/ \E c \in Controls :
       \/ CredStep(c)
       \/ \E t \in {"refresh", "quota"} : ListAccounts(c, t)
       \/ ClaimQuotaOutbox(c) \/ ListSnapshotAccounts(c)
       \/ AnswerLost(c) \/ CallToStoreFails(c) \/ LoseSession(c) \/ Crash(c)
  \/ ItemDue
  \/ SetStatus \/ ClearAccount \/ Import \/ ReleaseRejected

\* A loop that has begun goes on, and the snapshot ticker gets its turn among
\* the other branches of the select.
CredFairness ==
  \A c \in Controls :
    /\ WF_credVars(CredStep(c))
    /\ SF_credVars(ListSnapshotAccounts(c))

CredSpec == CredInit /\ [][CredNext]_credVars /\ CredFairness

(***************************************************************************)
(* Properties.                                                             *)
(***************************************************************************)

\* Unless a crash, a lost answer, a lost lock session or a console action cut
\* into a refresh since the last import, the stored refresh token works or the
\* process that rotated it is about to store the new one, and no refresh has
\* disabled the account.  This is what the advisory lock is for: two refreshes
\* at once would use up one token twice.
RotationsKept ==
  ~interfered =>
    /\ secret = "dead" =>
         \E c \in Controls : At(c, "refresh", "commit") /\ held[c] = "live" /\ fenced[c]
    /\ status # "refused"

\* A refresh or a quota call that began before an import changes nothing of what
\* the import stored: it neither puts back the replaced authorization nor
\* disables the account because the provider refused the replaced token.
ImportStands ==
  [][/\ secret' # "old"
     /\ \A c \in Controls :
          pc[c] = "fail" /\ pc'[c] # "fail" /\ held[c] = "old" => status' = status]_credVars

\* PublishQuota never carries a quota older than the committed one, however
\* late the reconciler gets to an item it claimed, as long as nobody works
\* without the lock.
NoStaleQuota ==
  ~lostLock => \A c \in Controls : pc[c] \in {"load", "publish"} => got[c] = quota

\* The quota that is committed gets into the snapshot, through the publication
\* that follows the commit, the outbox, or the next snapshot loop, although
\* each of them may overwrite it with what it read before: once commits of other
\* quotas stop and the account stays active, the snapshot comes to have it and
\* keeps it.  (While they go on, publications of earlier listings can keep the
\* snapshot behind for ever.)
QuotaReaches ==
  \/ []<><<quota' # quota>>_credVars
  \/ []<>(status # "active")
  \/ <>[](snap = quota)
=============================================================================
