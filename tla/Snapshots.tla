----------------------------- MODULE Snapshots -----------------------------
(***************************************************************************)
(* Publication of account snapshots from the database to the gateways.     *)
(*                                                                         *)
(*   internal/control/snapshot_loop.go  RunOnce, one per control process   *)
(*   internal/snapshot/redis.go         publishScript, Load, the registry  *)
(*   internal/gateway/run.go            BucketLoader.RefreshAll            *)
(*   internal/gateway/chooser.go        ReplaceBucket, RemoveBucket        *)
(*                                                                         *)
(* An epoch, and the version that always changes with it, is only ever     *)
(* compared with the bucket's current one.  So of an epoch somebody holds  *)
(* the model keeps whether it is still the current one: a publication      *)
(* makes every other holder's stale.  That keeps endless republication     *)
(* finite.                                                                 *)
(***************************************************************************)
EXTENDS Naturals, FiniteSetsExt

CONSTANTS
  Accounts,     \* accounts of one platform whose provider declares usage_integrity
  Buckets,      \* the platform's groups, numbered as they sort
  Controls,     \* control processes
  Gateways,
  MaxChanges,   \* bound: changes of the accounts table
  MaxFaults     \* bound: failed calls, crashes, outages of control

ASSUME BucketAssumption == Buckets \subseteq Nat \ {0}
ASSUME ChangesAssumption == MaxChanges \in Nat
ASSUME FaultsAssumption == MaxFaults \in Nat

NoBucket == 0   \* an account that is not imported

VARIABLES
  db,        \* accounts: bucket; status is 'active' and no cooldown runs
  changes,   \* changes of db so far
  faults,    \* faults so far
  active,    \* active[b]: accounts in the active version of b
  expired,   \* buckets whose active data outlived DataTTL
  registry,  \* snap:bucket_registry
  pc,        \* pc[c]: where the loop of control c is
  current,   \* current[c]: buckets that ListSnapshotBuckets returned
  todo,      \* todo[c]: those, and then the deleted ones, not done with
  rows,      \* rows[c]: the accounts listed for the bucket it is at
  valid,     \* valid[c]: the epoch read for that bucket is still the current one
  at,        \* at[g]: where RefreshAll of gateway g is
  wanted,    \* wanted[g]: buckets it found registered
  left,      \* left[g]: those not done with
  seen,      \* seen[g]: accounts in the version that was active then
  same,      \* same[g]: that version is still the active one
  ids,       \* ids[g][b]: accounts installed in the chooser for b
  outlived   \* outlived[g]: buckets whose copy's validUntil has passed

dbVars      == <<db, changes>>
redisVars   == <<active, expired, registry>>
controlVars == <<pc, current, todo, rows, valid>>
loaderVars  == <<at, wanted, left, seen, same>>
chooserVars == <<ids, outlived>>
vars == <<dbVars, faults, redisVars, controlVars, loaderVars, chooserVars>>

AccountRow == [bucket : Buckets \cup {NoBucket}, usable : BOOLEAN]
PC == {"idle", "registered", "list", "epoch", "script", "remove"}

TypeOK ==
  /\ db \in [Accounts -> AccountRow]
  /\ changes \in 0 .. MaxChanges
  /\ faults \in 0 .. MaxFaults
  /\ active \in [Buckets -> SUBSET Accounts]
  /\ expired \subseteq Buckets
  /\ registry \subseteq Buckets
  /\ pc \in [Controls -> PC]
  /\ current \in [Controls -> SUBSET Buckets]
  /\ todo \in [Controls -> SUBSET Buckets]
  /\ rows \in [Controls -> SUBSET Accounts]
  /\ valid \in [Controls -> BOOLEAN]
  /\ at \in [Gateways -> {"idle", "next", "load"}]
  /\ wanted \in [Gateways -> SUBSET Buckets]
  /\ left \in [Gateways -> SUBSET Buckets]
  /\ seen \in [Gateways -> SUBSET Accounts]
  /\ same \in [Gateways -> BOOLEAN]
  /\ ids \in [Gateways -> [Buckets -> SUBSET Accounts]]
  /\ outlived \in [Gateways -> SUBSET Buckets]
  /\ \A c \in Controls : todo[c] = {} <=> pc[c] \in {"idle", "registered"}
  /\ \A g \in Gateways : at[g] = "load" => left[g] # {}

Init ==
  /\ \E bucket \in [Accounts -> Buckets \cup {NoBucket}] :
       db = [a \in Accounts |-> [bucket |-> bucket[a], usable |-> bucket[a] # NoBucket]]
  /\ changes = 0
  /\ faults = 0
  /\ active = [b \in Buckets |-> {}]
  /\ expired = {}
  /\ registry = {}
  /\ pc = [c \in Controls |-> "idle"]
  /\ current = [c \in Controls |-> {}]
  /\ todo = [c \in Controls |-> {}]
  /\ rows = [c \in Controls |-> {}]
  /\ valid = [c \in Controls |-> FALSE]
  /\ at = [g \in Gateways |-> "idle"]
  /\ wanted = [g \in Gateways |-> {}]
  /\ left = [g \in Gateways |-> {}]
  /\ seen = [g \in Gateways |-> {}]
  /\ same = [g \in Gateways |-> FALSE]
  /\ ids = [g \in Gateways |-> [b \in Buckets |-> {}]]
  /\ outlived = [g \in Gateways |-> {}]

Fault == faults < MaxFaults /\ faults' = faults + 1

(***************************************************************************)
(* The accounts table.                                                     *)
(***************************************************************************)

Change(a, row) ==
  /\ row # db[a]
  /\ changes < MaxChanges
  /\ changes' = changes + 1
  /\ db' = [db EXCEPT ![a] = row]
  /\ UNCHANGED <<faults, redisVars, controlVars, loaderVars, chooserVars>>

\* Save upserts an account: it becomes active, in this bucket, and a cooldown
\* it may be on goes on.
Import(a, b) ==
  \/ Change(a, [bucket |-> b, usable |-> TRUE])
  \/ db[a].bucket # NoBucket /\ Change(a, [db[a] EXCEPT !.bucket = b])

\* An operator enables or disables the account; a release puts it on cooldown; a
\* cooldown ends, is cleared or is released.
SetUsable(a) == db[a].bucket # NoBucket /\ Change(a, [db[a] EXCEPT !.usable = ~@])

\* What ListSnapshotAccounts returns.
Listed(b) == {a \in Accounts : db[a].bucket = b /\ db[a].usable}

DbBuckets == {db[a].bucket : a \in Accounts} \ {NoBucket}

(***************************************************************************)
(* SnapshotLoop.RunOnce.                                                   *)
(***************************************************************************)

Goto(c, l) == pc' = [pc EXCEPT ![c] = l]

\* ListSnapshotBuckets: the buckets of all accounts, usable or not.
StartRun(c) ==
  /\ pc[c] = "idle"
  /\ current' = [current EXCEPT ![c] = DbBuckets]
  /\ Goto(c, "registered")
  /\ UNCHANGED <<dbVars, faults, redisVars, todo, rows, valid, loaderVars, chooserVars>>

\* Mutant: deleted buckets are forgotten.
CurrentOnly(c) == current[c]

\* The current buckets are published, then the registered ones that are gone.
ToPublish(c) == current[c] \cup registry

\* The bucket the loop is at: in order, and the deleted ones last.
Target(c) ==
  LET listed == todo[c] \cap current[c]
  IN  Min(IF listed # {} THEN listed ELSE todo[c])

\* The buckets that are left; a deleted one has no accounts to list.
GoOn(c, rest) ==
  /\ todo' = [todo EXCEPT ![c] = rest]
  /\ Goto(c, CASE rest = {} -> "idle"
               [] rest \cap current[c] # {} -> "list"
               [] OTHER -> "epoch")
  /\ current' = [current EXCEPT ![c] = IF rest = {} THEN {} ELSE @]
  /\ rows' = [rows EXCEPT ![c] = {}]

RegisteredBuckets(c) ==
  /\ pc[c] = "registered"
  /\ GoOn(c, ToPublish(c))
  /\ UNCHANGED <<dbVars, faults, redisVars, valid, loaderVars, chooserVars>>

ListSnapshotAccounts(c) ==
  /\ pc[c] = "list"
  /\ rows' = [rows EXCEPT ![c] = Listed(Target(c))]
  /\ Goto(c, "epoch")
  /\ UNCHANGED <<dbVars, faults, redisVars, current, todo, valid, loaderVars, chooserVars>>

currentSnapshotEpoch(c) ==
  /\ pc[c] = "epoch"
  /\ valid' = [valid EXCEPT ![c] = TRUE]
  /\ Goto(c, "script")
  /\ UNCHANGED <<dbVars, faults, redisVars, current, todo, rows, loaderVars, chooserVars>>

\* Mutant: the run ends at the bucket it was at.
EndAt(c) ==
  /\ Goto(c, "idle")
  /\ UNCHANGED <<todo, current, rows>>

\* Done with a bucket.
Continue(c) == GoOn(c, todo[c] \ {Target(c)})

\* publishScript, with the epoch that was read: the accounts become the active version, under a new epoch,
\* and the bucket is registered.
PublishScript(c) ==
  LET b == Target(c) IN
    /\ valid[c]
    /\ active' = [active EXCEPT ![b] = rows[c]]
    /\ expired' = expired \ {b}
    /\ registry' = registry \cup {b}
    /\ same' = [g \in Gateways |-> same[g] /\ Min(left[g]) # b]

\* The epochs that control processes have read, after c's publication.
Outdated(c) == [d \in Controls |-> valid[d] /\ Target(d) # Target(c)]

\* A deleted bucket is published empty and then removed from the registry; a
\* lost answer skips the removal.
Publish(c) ==
  /\ pc[c] = "script"
  /\ PublishScript(c)
  /\ valid' = Outdated(c)
  /\ \/ Target(c) \notin current[c] /\ Goto(c, "remove") /\ UNCHANGED <<current, todo, rows, faults>>
     \/ Target(c) \in current[c] /\ Continue(c) /\ UNCHANGED faults
     \/ Target(c) \notin current[c] /\ Continue(c) /\ Fault
  /\ UNCHANGED <<dbVars, at, wanted, left, seen, ids, outlived>>

\* STALE_EPOCH: somebody else published; the loop goes on with the next bucket.
PublishStale(c) ==
  /\ pc[c] = "script"
  /\ ~valid[c]
  /\ Continue(c)
  /\ UNCHANGED <<dbVars, faults, redisVars, valid, loaderVars, chooserVars>>

RemoveRegisteredBucket(c) ==
  /\ pc[c] = "remove"
  /\ registry' = registry \ {Target(c)}
  /\ Continue(c)
  /\ UNCHANGED <<dbVars, faults, active, expired, valid, loaderVars, chooserVars>>

\* A failed call skips the bucket.
SkipBucket(c) ==
  /\ pc[c] \in {"list", "epoch", "script", "remove"}
  /\ Fault
  /\ valid' = [valid EXCEPT ![c] = FALSE]
  /\ Continue(c)
  /\ UNCHANGED <<dbVars, redisVars, loaderVars, chooserVars>>

\* A failed list ends the run, and so does a crash.
AbandonRun(c) ==
  /\ pc[c] # "idle"
  /\ Fault
  /\ valid' = [valid EXCEPT ![c] = FALSE]
  /\ GoOn(c, {})
  /\ UNCHANGED <<dbVars, redisVars, loaderVars, chooserVars>>

\* No publication, or after a removal no refresh, for DataTTL: the active data
\* is gone, and with it the freshness of every copy.
DataExpires(b) ==
  /\ b \notin expired
  /\ b \in registry \/ \E g \in Gateways : ids[g][b] # {}
  /\ Fault
  /\ expired' = expired \cup {b}
  /\ outlived' = [g \in Gateways |-> IF ids[g][b] = {} THEN outlived[g] ELSE outlived[g] \cup {b}]
  /\ UNCHANGED <<dbVars, active, registry, controlVars, loaderVars, ids>>

(***************************************************************************)
(* BucketLoader.RefreshAll and the chooser.                                *)
(***************************************************************************)

RefreshAll(g) ==
  /\ at[g] = "idle"
  /\ wanted' = [wanted EXCEPT ![g] = registry]
  /\ left' = [left EXCEPT ![g] = registry]
  /\ at' = [at EXCEPT ![g] = "next"]
  /\ UNCHANGED <<dbVars, faults, redisVars, controlVars, seen, same, chooserVars>>

\* The bucket it is at.
Loading(g) == Min(left[g])

\* Load, first call: the active version.
GetActive(g) ==
  /\ at[g] = "next" /\ left[g] # {}
  /\ seen' = [seen EXCEPT ![g] = active[Loading(g)]]
  /\ same' = [same EXCEPT ![g] = TRUE]
  /\ at' = [at EXCEPT ![g] = "load"]
  /\ UNCHANGED <<dbVars, faults, redisVars, controlVars, wanted, left, chooserVars>>

EndLoad(g) ==
  /\ at' = [at EXCEPT ![g] = "next"]
  /\ left' = [left EXCEPT ![g] = @ \ {Loading(g)}]
  /\ seen' = [seen EXCEPT ![g] = {}]
  /\ same' = [same EXCEPT ![g] = FALSE]

\* Mutant: the envelope of an entry is not compared with the epoch.
AnyEnvelope(g) == Loading(g) \notin expired

\* The version's data is there, and every entry bears the epoch that is read
\* now; a version without entries has none to compare.
Accepted(g) ==
  /\ same[g] => Loading(g) \notin expired
  /\ \A a \in seen[g] : same[g]

\* Mutant: an account is installed whoever owns it.
OwnedByNone(g, b) == {}

\* Accounts that another bucket of the chooser holds.
OwnedElsewhere(g, b) == UNION {ids[g][o] : o \in Buckets \ {b}}

\* Load, the other calls: the epoch, and the data, which never changes under
\* a version.  ReplaceBucket installs the accounts under that epoch.
LoadOK(g) ==
  /\ at[g] = "load"
  /\ Accepted(g)
  /\ LET b == Loading(g) IN
       /\ ids' = [ids EXCEPT ![g][b] = seen[g] \ OwnedElsewhere(g, b)]
       /\ outlived' = [outlived EXCEPT ![g] = @ \ {b}]
  /\ EndLoad(g)
  /\ UNCHANGED <<dbVars, faults, redisVars, controlVars, wanted>>

\* Load returns an error: the bucket keeps what it has.
LoadRejected(g) ==
  /\ at[g] = "load"
  /\ ~Accepted(g)
  /\ EndLoad(g)
  /\ UNCHANGED <<dbVars, faults, redisVars, controlVars, wanted, chooserVars>>

LoadFails(g) ==
  /\ at[g] = "load"
  /\ Fault
  /\ EndLoad(g)
  /\ UNCHANGED <<dbVars, redisVars, controlVars, wanted, chooserVars>>

Unwanted(g) == Buckets \ wanted[g]

\* RemoveBucket of every installed bucket that is not registered any more.
RemoveBuckets(g) ==
  /\ at[g] = "next" /\ left[g] = {}
  /\ ids' = [ids EXCEPT ![g] = [b \in Buckets |-> IF b \in Unwanted(g) THEN {} ELSE @[b]]]
  /\ outlived' = [outlived EXCEPT ![g] = @ \cap wanted[g]]
  /\ wanted' = [wanted EXCEPT ![g] = {}]
  /\ at' = [at EXCEPT ![g] = "idle"]
  /\ UNCHANGED <<dbVars, faults, redisVars, controlVars, left, seen, same>>

ControlStep(c) ==
  \/ StartRun(c) \/ RegisteredBuckets(c) \/ ListSnapshotAccounts(c) \/ currentSnapshotEpoch(c)
  \/ Publish(c) \/ PublishStale(c) \/ RemoveRegisteredBucket(c)

GatewayStep(g) == RefreshAll(g) \/ GetActive(g) \/ LoadOK(g) \/ LoadRejected(g) \/ RemoveBuckets(g)

Next ==
  \/ \E a \in Accounts : SetUsable(a) \/ \E b \in Buckets : Import(a, b)
  \/ \E c \in Controls : ControlStep(c) \/ SkipBucket(c) \/ AbandonRun(c)
  \/ \E b \in Buckets : DataExpires(b)
  \/ \E g \in Gateways : GatewayStep(g) \/ LoadFails(g)

Spec == Init /\ [][Next]_vars

\* Both loops run on tickers for ever.  Load makes four calls and each process
\* publishes a bucket once a minute, so a load is not overtaken every time.
Fairness ==
  /\ \A c \in Controls : WF_vars(ControlStep(c))
  /\ \A g \in Gateways : WF_vars(GatewayStep(g))
  /\ \A g \in Gateways, b \in Buckets : SF_vars(at[g] = "load" /\ Loading(g) = b /\ same[g] /\ LoadOK(g))

FairSpec == Spec /\ Fairness

-----------------------------------------------------------------------------

\* A gateway never serves a mixture of versions: what is installed under the
\* current epoch of a bucket are accounts of its current version, although Load
\* reads the version, the epoch and the data in separate calls.  Accounts may be
\* missing: a version without entries has no envelope to betray it.
NoMixedVersion ==
  [][\A g \in Gateways : LoadOK(g) => ids'[g][Loading(g)] \subseteq active[Loading(g)]]_vars

\* An account that moves between groups is never in two buckets of a chooser,
\* even while stale lists of both are published.
OneOwner ==
  \A g \in Gateways, a \in Accounts :
    Cardinality({b \in Buckets : a \in ids[g][b]}) <= 1

\* What gateway g may schedule.
Schedulable(g, b) == IF b \in outlived[g] THEN {} ELSE ids[g][b]

\* Once the accounts stop changing, every gateway ends up with exactly the
\* accounts that ListSnapshotAccounts lists, whatever stale lists, deletions and
\* torn loads went before.  The registry keeps coming back to the buckets of the
\* table; it need not stay, because each control process registers a deleted
\* bucket again for the moment between its publication and its removal.
Converges ==
  /\ []<>(registry = DbBuckets)
  /\ <>[](\A g \in Gateways, b \in Buckets : Schedulable(g, b) = Listed(b))
=============================================================================
