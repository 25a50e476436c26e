--------------------------- MODULE SnapshotProofs ---------------------------
(***************************************************************************)
(* What the publication and the loading of snapshots keep, for any number  *)
(* of accounts, buckets, control processes, gateways and faults.           *)
(***************************************************************************)
EXTENDS Snapshots, FiniteSetTheorems, WellFoundedInduction, TLAPS

\* The first bucket of a set is one of the set.
LEMMA MinFacts ==
  ASSUME NEW S \in SUBSET Buckets, S # {}
  PROVE  Min(S) \in S
<1>0. S \subseteq Nat BY BucketAssumption
<1>1. PICK x \in S : \A y \in S : ~(<<y, x>> \in OpToRel(<, Nat))
  BY <1>0, NatLessThanWellFounded, WFMin, Zenon
<1>2. \A y \in S : ~(y < x)
  BY <1>0, <1>1 DEF OpToRel
<1>3. \A y \in S : x <= y BY <1>0, <1>2
<1>4. QED BY <1>3 DEF Min

LEMMA TargetFacts ==
  ASSUME TypeOK, NEW c \in Controls, pc[c] \notin {"idle", "registered"}
  PROVE  Target(c) \in todo[c] /\ Target(c) \in Buckets
<1>1. todo[c] \in SUBSET Buckets /\ todo[c] # {} BY DEF TypeOK
<1>2. todo[c] \cap current[c] \in SUBSET Buckets BY <1>1
<1>3. QED BY <1>1, <1>2, MinFacts DEF Target

LEMMA LoadingFacts ==
  ASSUME TypeOK, NEW g \in Gateways, left[g] # {}
  PROVE  Loading(g) \in left[g] /\ Loading(g) \in Buckets
<1>1. left[g] \in SUBSET Buckets BY DEF TypeOK
<1>2. QED BY <1>1, MinFacts DEF Loading

ControlOK ==
  /\ pc \in [Controls -> PC]
  /\ current \in [Controls -> SUBSET Buckets]
  /\ todo \in [Controls -> SUBSET Buckets]
  /\ rows \in [Controls -> SUBSET Accounts]
  /\ valid \in [Controls -> BOOLEAN]
  /\ \A c \in Controls : todo[c] = {} <=> pc[c] \in {"idle", "registered"}

LoaderOK ==
  /\ at \in [Gateways -> {"idle", "next", "load"}]
  /\ wanted \in [Gateways -> SUBSET Buckets]
  /\ left \in [Gateways -> SUBSET Buckets]
  /\ seen \in [Gateways -> SUBSET Accounts]
  /\ same \in [Gateways -> BOOLEAN]
  /\ \A g \in Gateways : at[g] = "load" => left[g] # {}

RedisOK ==
  /\ active \in [Buckets -> SUBSET Accounts]
  /\ expired \subseteq Buckets
  /\ registry \subseteq Buckets

ChooserOK ==
  /\ ids \in [Gateways -> [Buckets -> SUBSET Accounts]]
  /\ outlived \in [Gateways -> SUBSET Buckets]

TableOK ==
  /\ db \in [Accounts -> AccountRow]
  /\ changes \in 0 .. MaxChanges
  /\ faults \in 0 .. MaxFaults

LEMMA TypeParts == TypeOK <=> ControlOK /\ LoaderOK /\ RedisOK /\ ChooserOK /\ TableOK
BY DEF TypeOK, ControlOK, LoaderOK, RedisOK, ChooserOK, TableOK

\* A loop that goes on with what is left.
LEMMA GoOnFacts ==
  ASSUME ControlOK, NEW c \in Controls, NEW rest \in SUBSET Buckets, GoOn(c, rest),
         valid' \in [Controls -> BOOLEAN]
  PROVE  ControlOK'
<1>1. PICK l \in PC : pc' = [pc EXCEPT ![c] = l] /\ (rest = {} <=> l = "idle") /\ l # "registered"
  BY DEF GoOn, Goto, PC
<1>2. todo' = [todo EXCEPT ![c] = rest] BY DEF GoOn
<1>3. current' \in [Controls -> SUBSET Buckets] /\ rows' \in [Controls -> SUBSET Accounts]
  BY DEF GoOn, ControlOK
<1>4. \A d \in Controls : todo'[d] = {} <=> pc'[d] \in {"idle", "registered"}
  BY <1>1, <1>2 DEF ControlOK
<1>5. QED BY <1>1, <1>2, <1>3, <1>4 DEF ControlOK

LEMMA FaultFacts ==
  ASSUME TableOK, UNCHANGED dbVars, Fault \/ UNCHANGED faults
  PROVE  TableOK'
BY FaultsAssumption DEF TableOK, dbVars, Fault

LEMMA ListedFacts ==
  /\ \A b \in Buckets : Listed(b) \in SUBSET Accounts
  /\ TypeOK => DbBuckets \in SUBSET Buckets
BY DEF Listed, DbBuckets, TypeOK, AccountRow

LEMMA ChangeType ==
  ASSUME TypeOK, NEW a \in Accounts,
         SetUsable(a) \/ \E b \in Buckets : Import(a, b)
  PROVE  TypeOK'
<1>1. PICK row \in AccountRow : Change(a, row)
  <2>1. db[a] \in AccountRow BY DEF TypeOK
  <2>2. CASE SetUsable(a)
    <3>1. [db[a] EXCEPT !.usable = ~@] \in AccountRow BY <2>1 DEF AccountRow
    <3>2. QED BY <2>2, <3>1 DEF SetUsable
  <2>3. ASSUME NEW b \in Buckets, Import(a, b) PROVE \E row \in AccountRow : Change(a, row)
    <3>1. [db[a] EXCEPT !.bucket = b] \in AccountRow BY <2>1 DEF AccountRow
    <3>2. [bucket |-> b, usable |-> TRUE] \in AccountRow BY DEF AccountRow
    <3>3. QED BY <2>3, <3>1, <3>2 DEF Import
  <2>4. QED BY <2>2, <2>3
<1>2. TableOK' BY <1>1, ChangesAssumption DEF Change, TypeOK, TableOK
<1>3. ControlOK' /\ LoaderOK' /\ RedisOK' /\ ChooserOK'
  BY <1>1, TypeParts DEF Change, ControlOK, LoaderOK, RedisOK, ChooserOK, redisVars, controlVars,
                         loaderVars, chooserVars
<1>4. QED BY <1>2, <1>3
          DEF TypeOK, ControlOK, LoaderOK, RedisOK, ChooserOK, TableOK

\* The steps of a control process that touch nothing but its own state.
LEMMA LoopType ==
  ASSUME TypeOK, NEW c \in Controls,
         StartRun(c) \/ RegisteredBuckets(c) \/ ListSnapshotAccounts(c) \/ currentSnapshotEpoch(c)
           \/ PublishStale(c) \/ SkipBucket(c) \/ AbandonRun(c)
  PROVE  TypeOK'
<1>1. UNCHANGED <<dbVars, redisVars, loaderVars, chooserVars>> /\ (Fault \/ UNCHANGED faults)
  BY DEF StartRun, RegisteredBuckets, ListSnapshotAccounts, currentSnapshotEpoch, PublishStale,
         SkipBucket, AbandonRun
<1>2. LoaderOK' /\ RedisOK' /\ ChooserOK' /\ TableOK'
  BY <1>1, TypeParts, FaultFacts
  DEF LoaderOK, RedisOK, ChooserOK, redisVars, loaderVars, chooserVars
<1>3. ControlOK BY TypeParts
<1>4. ControlOK'
  <2>1. CASE StartRun(c)
    BY <1>3, <2>1, ListedFacts DEF StartRun, Goto, ControlOK, PC
  <2>2. CASE RegisteredBuckets(c)
    <3>1. ToPublish(c) \in SUBSET Buckets BY DEF ToPublish, TypeOK
    <3>2. QED BY <1>3, <2>2, <3>1, GoOnFacts DEF RegisteredBuckets, ControlOK
  <2>3. CASE ListSnapshotAccounts(c)
    <3>1. Listed(Target(c)) \in SUBSET Accounts BY DEF Listed
    <3>2. QED BY <1>3, <2>3, <3>1 DEF ListSnapshotAccounts, Goto, ControlOK, PC
  <2>4. CASE currentSnapshotEpoch(c)
    BY <1>3, <2>4 DEF currentSnapshotEpoch, Goto, ControlOK, PC
  <2>5. CASE PublishStale(c) \/ SkipBucket(c)
    <3>1. todo[c] \ {Target(c)} \in SUBSET Buckets BY DEF TypeOK
    <3>2. valid' \in [Controls -> BOOLEAN] BY <2>5 DEF PublishStale, SkipBucket, TypeOK
    <3>3. QED BY <1>3, <2>5, <3>1, <3>2, GoOnFacts DEF PublishStale, SkipBucket, Continue
  <2>6. CASE AbandonRun(c)
    <3>1. valid' \in [Controls -> BOOLEAN] BY <2>6 DEF AbandonRun, TypeOK
    <3>2. QED BY <1>3, <2>6, <3>1, GoOnFacts DEF AbandonRun
  <2>7. QED BY <2>1, <2>2, <2>3, <2>4, <2>5, <2>6
<1>5. QED BY <1>2, <1>4
          DEF TypeOK, ControlOK, LoaderOK, RedisOK, ChooserOK, TableOK

LEMMA PublishType ==
  ASSUME TypeOK, NEW c \in Controls, Publish(c) \/ RemoveRegisteredBucket(c)
  PROVE  TypeOK'
<1>1. Target(c) \in Buckets BY TargetFacts DEF Publish, RemoveRegisteredBucket
<1>2. todo[c] \ {Target(c)} \in SUBSET Buckets BY DEF TypeOK
<1>3. UNCHANGED <<dbVars, chooserVars>> /\ (Fault \/ UNCHANGED faults)
  BY DEF Publish, RemoveRegisteredBucket, chooserVars
<1>4. TableOK' /\ ChooserOK'
  BY <1>3, TypeParts, FaultFacts DEF ChooserOK, chooserVars
<1>5. RedisOK'
  BY <1>1 DEF TypeOK, RedisOK, Publish, PublishScript, RemoveRegisteredBucket
<1>6. LoaderOK'
  <2>1. CASE RemoveRegisteredBucket(c)
    BY <2>1, TypeParts DEF RemoveRegisteredBucket, loaderVars, LoaderOK
  <2>2. CASE Publish(c)
    <3>1. same' = [g \in Gateways |-> same[g] /\ Min(left[g]) # Target(c)]
      BY <2>2 DEF Publish, PublishScript
    <3>2. same' \in [Gateways -> BOOLEAN] BY <3>1
    <3>3. QED BY <2>2, <3>2, TypeParts DEF Publish, LoaderOK
  <2>3. QED BY <2>1, <2>2
<1>7. ControlOK'
  <2>1. valid' \in [Controls -> BOOLEAN]
    BY DEF TypeOK, Publish, Outdated, RemoveRegisteredBucket
  <2>2. ControlOK BY TypeParts
  <2>3. CASE Continue(c) BY <1>2, <2>1, <2>2, <2>3, GoOnFacts DEF Continue
  <2>4. CASE pc[c] = "script" /\ Goto(c, "remove") /\ UNCHANGED <<current, todo, rows>>
    BY <2>1, <2>2, <2>4 DEF ControlOK, Goto, PC
  <2>5. QED BY <2>3, <2>4 DEF Publish, RemoveRegisteredBucket
<1>8. QED BY <1>4, <1>5, <1>6, <1>7
          DEF TypeOK, ControlOK, LoaderOK, RedisOK, ChooserOK, TableOK

LEMMA ExpireType ==
  ASSUME TypeOK, NEW b \in Buckets, DataExpires(b)
  PROVE  TypeOK'
<1>1. UNCHANGED <<dbVars, active, registry, controlVars, loaderVars, ids>> /\ Fault
  BY DEF DataExpires
<1>2. TableOK' BY <1>1, TypeParts, FaultFacts
<1>3. RedisOK' /\ ChooserOK' BY <1>1 DEF DataExpires, TypeOK, RedisOK, ChooserOK
<1>4. ControlOK' /\ LoaderOK'
  BY <1>1, TypeParts DEF ControlOK, LoaderOK, controlVars, loaderVars
<1>5. QED BY <1>2, <1>3, <1>4
          DEF TypeOK, ControlOK, LoaderOK, RedisOK, ChooserOK, TableOK

LEMMA GatewayType ==
  ASSUME TypeOK, NEW g \in Gateways, GatewayStep(g) \/ LoadFails(g)
  PROVE  TypeOK'
<1>1. UNCHANGED <<dbVars, redisVars, controlVars>> /\ (Fault \/ UNCHANGED faults)
  BY DEF GatewayStep, RefreshAll, GetActive, LoadOK, LoadRejected, RemoveBuckets, LoadFails
<1>2. TableOK' /\ RedisOK' /\ ControlOK'
  BY <1>1, TypeParts, FaultFacts DEF RedisOK, ControlOK, redisVars, controlVars
<1>3. LoaderOK'
  <2>1. CASE RefreshAll(g) BY <2>1 DEF RefreshAll, TypeOK, LoaderOK
  <2>2. CASE GetActive(g)
    <3>1. active[Loading(g)] \in SUBSET Accounts
      BY <2>2, LoadingFacts DEF GetActive, TypeOK
    <3>2. QED BY <2>2, <3>1 DEF GetActive, TypeOK, LoaderOK
  <2>3. CASE EndLoad(g) /\ UNCHANGED wanted BY <2>3 DEF EndLoad, TypeOK, LoaderOK
  <2>4. CASE RemoveBuckets(g) BY <2>4 DEF RemoveBuckets, TypeOK, LoaderOK
  <2>5. QED BY <2>1, <2>2, <2>3, <2>4 DEF GatewayStep, LoadOK, LoadRejected, LoadFails
<1>4. ChooserOK'
  <2>1. CASE UNCHANGED chooserVars BY <2>1 DEF TypeOK, ChooserOK, chooserVars
  <2>2. CASE LoadOK(g)
    <3>1. Loading(g) \in Buckets BY <2>2, LoadingFacts DEF LoadOK, TypeOK
    <3>2. QED BY <2>2, <3>1 DEF LoadOK, TypeOK, ChooserOK
  <2>3. CASE RemoveBuckets(g) BY <2>3 DEF RemoveBuckets, TypeOK, ChooserOK
  <2>4. QED BY <2>1, <2>2, <2>3 DEF GatewayStep, RefreshAll, GetActive, LoadRejected, LoadFails
<1>5. QED BY <1>2, <1>3, <1>4
          DEF TypeOK, ControlOK, LoaderOK, RedisOK, ChooserOK, TableOK

LEMMA TypeStep == TypeOK /\ [Next]_vars => TypeOK'
<1> SUFFICES ASSUME TypeOK, [Next]_vars PROVE TypeOK' OBVIOUS
<1>1. CASE UNCHANGED vars
  BY <1>1 DEF vars, dbVars, redisVars, controlVars, loaderVars, chooserVars, TypeOK
<1>2. CASE Next
  BY <1>2, ChangeType, LoopType, PublishType, ExpireType, GatewayType DEF Next, ControlStep
<1>3. QED BY <1>1, <1>2

LEMMA TypeInit == Init => TypeOK
<1> SUFFICES ASSUME Init PROVE TypeOK OBVIOUS
<1>1. TableOK
  BY ChangesAssumption, FaultsAssumption DEF Init, TableOK, AccountRow, NoBucket
<1>2. RedisOK /\ ChooserOK BY DEF Init, RedisOK, ChooserOK
<1>3. ControlOK BY DEF Init, ControlOK, PC
<1>4. LoaderOK BY DEF Init, LoaderOK
<1>5. QED BY <1>1, <1>2, <1>3, <1>4
          DEF TypeOK, ControlOK, LoaderOK, RedisOK, ChooserOK, TableOK

\* Every control process has buckets left exactly while it is at one, and a
\* gateway that loads has one to load, whatever is published, skipped or
\* abandoned under it (RunOnce, RefreshAll).
THEOREM TypeCorrect == Spec => []TypeOK
BY TypeInit, TypeStep, PTL DEF Spec

(***************************************************************************)
(* One bucket per account.                                                 *)
(***************************************************************************)

\* OneOwner without counting.
Disjoint ==
  \A g \in Gateways : \A b, o \in Buckets : b # o => ids[g][b] \cap ids[g][o] = {}

LEMMA DisjointIsOneOwner == TypeOK /\ Disjoint => OneOwner
<1> SUFFICES ASSUME TypeOK, Disjoint, NEW g \in Gateways, NEW a \in Accounts
             PROVE  Cardinality({b \in Buckets : a \in ids[g][b]}) <= 1
  BY DEF OneOwner
<1> DEFINE Owners == {b \in Buckets : a \in ids[g][b]}
<1>1. CASE Owners = {}
  <2>1. Cardinality(Owners) = 0 BY <1>1, FS_EmptySet
  <2>2. QED BY <2>1
<1> HIDE DEF Owners
<1>2. ASSUME NEW b \in Owners PROVE Cardinality(Owners) <= 1
  <2>1. \A o \in Owners : o = b BY <1>2 DEF Disjoint, Owners
  <2>2. Owners = {b} BY <1>2, <2>1
  <2>3. Cardinality(Owners) = 1 BY <2>2, FS_Singleton
  <2>4. QED BY <2>3
<1>3. QED BY <1>1, <1>2 DEF Owners

LEMMA DisjointStep == TypeOK /\ Disjoint /\ [Next]_vars => Disjoint'
<1> SUFFICES ASSUME TypeOK, Disjoint, [Next]_vars PROVE Disjoint' OBVIOUS
<1>1. CASE UNCHANGED ids BY <1>1 DEF Disjoint
<1>2. ASSUME NEW g \in Gateways, LoadOK(g) PROVE Disjoint'
  <2>1. Loading(g) \in Buckets BY <1>2, LoadingFacts DEF LoadOK, TypeOK
  <2>2. \A h \in Gateways, b \in Buckets :
          ids'[h][b] = IF h = g /\ b = Loading(g) THEN seen[g] \ OwnedElsewhere(g, b) ELSE ids[h][b]
    BY <1>2, <2>1 DEF LoadOK, TypeOK
  <2>3. \A o \in Buckets : o # Loading(g) => ids[g][o] \subseteq OwnedElsewhere(g, Loading(g))
    BY DEF OwnedElsewhere
  <2> SUFFICES ASSUME NEW h \in Gateways, NEW b \in Buckets, NEW o \in Buckets, b # o
               PROVE  ids'[h][b] \cap ids'[h][o] = {}
    BY DEF Disjoint
  <2>4. ids[h][b] \cap ids[h][o] = {} BY DEF Disjoint
  <2>5. CASE h # g BY <2>2, <2>4, <2>5
  <2>6. CASE h = g /\ b = Loading(g) BY <2>2, <2>3, <2>6
  <2>7. CASE h = g /\ o = Loading(g) BY <2>2, <2>3, <2>7
  <2>8. CASE h = g /\ b # Loading(g) /\ o # Loading(g) BY <2>2, <2>4, <2>8
  <2>9. QED BY <2>5, <2>6, <2>7, <2>8
<1>3. ASSUME NEW g \in Gateways, RemoveBuckets(g) PROVE Disjoint'
  <2>1. \A h \in Gateways, b \in Buckets : ids'[h][b] \subseteq ids[h][b]
    BY <1>3 DEF RemoveBuckets, TypeOK
  <2>2. QED BY <2>1 DEF Disjoint
<1>4. QED
  BY <1>1, <1>2, <1>3
  DEF Next, vars, chooserVars, SetUsable, Import, Change, ControlStep, StartRun, RegisteredBuckets,
      ListSnapshotAccounts, currentSnapshotEpoch, Publish, PublishStale, RemoveRegisteredBucket,
      SkipBucket, AbandonRun, DataExpires, GatewayStep, RefreshAll, GetActive, LoadRejected,
      LoadFails

\* An account is in one bucket of a chooser at most, because ReplaceBucket leaves
\* it to the bucket that has it: in whatever order stale lists of two groups are
\* published, loaded and removed.
THEOREM AccountsOwnedOnce == Spec => []OneOwner
<1>1. Init => Disjoint BY DEF Init, Disjoint
<1>2. QED BY <1>1, TypeInit, TypeStep, DisjointStep, DisjointIsOneOwner, PTL DEF Spec

(***************************************************************************)
(* No mixed versions.                                                      *)
(***************************************************************************)

\* What a gateway saw is still there as long as the version is.
SeenCurrent ==
  \A g \in Gateways : at[g] = "load" /\ same[g] => seen[g] = active[Loading(g)]

LEMMA SeenStep == TypeOK /\ SeenCurrent /\ [Next]_vars => SeenCurrent'
<1> SUFFICES ASSUME TypeOK, SeenCurrent, [Next]_vars PROVE SeenCurrent' OBVIOUS
<1>1. CASE UNCHANGED <<active, loaderVars>>
  BY <1>1 DEF SeenCurrent, Loading, loaderVars
<1>2. ASSUME NEW c \in Controls, Publish(c) PROVE SeenCurrent'
  <2>1. Target(c) \in Buckets BY <1>2, TargetFacts DEF Publish
  <2>2. /\ UNCHANGED <<at, left, seen>>
        /\ active' = [active EXCEPT ![Target(c)] = rows[c]]
        /\ same' = [g \in Gateways |-> same[g] /\ Min(left[g]) # Target(c)]
    BY <1>2 DEF Publish, PublishScript
  <2> SUFFICES ASSUME NEW g \in Gateways, at[g] = "load", same'[g]
               PROVE  seen[g] = active'[Min(left[g])]
    BY <2>2 DEF SeenCurrent, Loading
  <2>3. same[g] /\ Min(left[g]) # Target(c) BY <2>2
  <2>4. seen[g] = active[Min(left[g])] BY <2>3 DEF SeenCurrent, Loading
  <2>5. Min(left[g]) \in Buckets BY LoadingFacts DEF Loading, TypeOK
  <2>6. QED BY <2>2, <2>3, <2>4, <2>5 DEF TypeOK
<1>3. ASSUME NEW g \in Gateways, RefreshAll(g) \/ GetActive(g) \/ RemoveBuckets(g) \/ EndLoad(g),
             UNCHANGED active
      PROVE  SeenCurrent'
  BY <1>3 DEF RefreshAll, GetActive, RemoveBuckets, EndLoad, SeenCurrent, Loading, TypeOK
<1>4. QED
  BY <1>1, <1>2, <1>3
  DEF Next, vars, redisVars, SetUsable, Import, Change, ControlStep, StartRun, RegisteredBuckets,
      ListSnapshotAccounts, currentSnapshotEpoch, PublishStale, RemoveRegisteredBucket,
      SkipBucket, AbandonRun, DataExpires, GatewayStep, RefreshAll, GetActive, LoadOK, LoadRejected,
      RemoveBuckets, LoadFails

\* Load reads the version, the epoch and the data in separate calls, and installs
\* nothing under the current epoch that is not of the current version.
THEOREM VersionsNotMixed == Spec => NoMixedVersion
<1>1. Init => SeenCurrent BY DEF Init, SeenCurrent
<1>2. TypeOK /\ SeenCurrent /\ [Next]_vars =>
        [\A g \in Gateways : LoadOK(g) => ids'[g][Loading(g)] \subseteq active[Loading(g)]]_vars
  <2> SUFFICES ASSUME TypeOK, SeenCurrent, NEW g \in Gateways, LoadOK(g)
               PROVE  ids'[g][Loading(g)] \subseteq active[Loading(g)]
    OBVIOUS
  <2>1. Loading(g) \in Buckets BY LoadingFacts DEF LoadOK, TypeOK
  <2>2. ids'[g][Loading(g)] \subseteq seen[g] BY <2>1 DEF LoadOK, TypeOK
  <2>3. seen[g] # {} => seen[g] = active[Loading(g)] BY DEF LoadOK, Accepted, SeenCurrent
  <2>4. QED BY <2>2, <2>3
<1>3. QED BY <1>1, <1>2, TypeInit, TypeStep, SeenStep, PTL DEF Spec, NoMixedVersion
=============================================================================
