--------------------------- MODULE GatewayProofs ---------------------------
(***************************************************************************)
(* The slots of the limiter and the records of the handlers, for any       *)
(* number of requests, accounts and faults.                                *)
(***************************************************************************)
EXTENDS Handlers, FiniteSetTheorems, TLAPS

(***************************************************************************)
(* The counters.                                                           *)
(***************************************************************************)

LimiterTypes ==
  /\ count \in [Keys -> Nat]
  /\ holders \in [Keys -> SUBSET Requests]
  /\ faults \in Nat

\* Without faults a counter is never above what it counts, expired or not: it
\* is down to 0 again by the time its last holder has left.
NoExcess == faults = 0 => \A k \in Keys : count[k] <= Cardinality(holders[k])

SlotInv == LimiterTypes /\ SlotsBound /\ NoExcess

\* What the counting rests on: the sets of holders are finite.
LEMMA HoldersFinite ==
  ASSUME LimiterTypes, NEW k \in Keys
  PROVE  /\ IsFiniteSet(holders[k])
         /\ Cardinality(holders[k]) \in Nat
         /\ holders[k] = {} <=> Cardinality(holders[k]) = 0
<1>1. holders[k] \subseteq Requests BY DEF LimiterTypes
<1>2. IsFiniteSet(holders[k]) BY <1>1, FS_Subset, RequestsAssumption
<1>3. QED BY <1>2, FS_CardinalityType, FS_EmptySet

LEMMA GrantSlots ==
  ASSUME SlotInv, NEW k \in Keys, NEW r \in Requests, r \notin holders[k], Grant(k, r)
  PROVE  SlotInv'
<1>1. LimiterTypes' BY DEF SlotInv, LimiterTypes, Grant, Incremented
<1>2. /\ Cardinality(holders'[k]) = Cardinality(holders[k]) + 1
      /\ \A l \in Keys \ {k} : holders'[l] = holders[l] /\ count'[l] = count[l]
      /\ count'[k] = count[k] + 1
  BY HoldersFinite, FS_AddElement DEF SlotInv, LimiterTypes, Grant, Incremented
<1>3. \A l \in Keys : Cardinality(holders[l]) \in Nat /\ count[l] \in Nat /\ Limits[l] \in Nat
  BY HoldersFinite, LimitsAssumption DEF SlotInv, LimiterTypes
<1>4. lapsed' = lapsed /\ faults' = faults /\ count[k] < Limits[k] BY DEF Grant
<1>5. SlotsBound'
  <2> SUFFICES ASSUME NEW l \in Keys
               PROVE  /\ count'[l] <= Limits[l]
                      /\ l \notin lapsed => Cardinality(holders'[l]) <= count'[l]
                      /\ l \notin lapsed /\ faults = 0 => count'[l] = Cardinality(holders'[l])
    BY <1>4 DEF SlotsBound
  <2>1. /\ count[l] <= Limits[l]
        /\ l \notin lapsed => Cardinality(holders[l]) <= count[l]
        /\ l \notin lapsed /\ faults = 0 => count[l] = Cardinality(holders[l])
    BY DEF SlotInv, SlotsBound
  <2>2. CASE l = k BY <1>2, <1>3, <1>4, <2>1, <2>2
  <2>3. CASE l # k BY <1>2, <2>1, <2>3
  <2>4. QED BY <2>2, <2>3
<1>6. NoExcess'
  BY <1>2, <1>3, <1>4 DEF SlotInv, NoExcess
<1>7. QED BY <1>1, <1>5, <1>6 DEF SlotInv

\* A call that failed may have counted; nobody holds what it counted.
LEMMA UnreachableSlots ==
  ASSUME SlotInv, NEW k \in Keys, Unreachable(k)
  PROVE  SlotInv'
<1>1. /\ faults' # 0 /\ faults' \in Nat
      /\ UNCHANGED <<holders, lapsed>>
      /\ count' = count \/ (count[k] < Limits[k] /\ count' = [count EXCEPT ![k] = @ + 1])
  BY DEF Unreachable, Fault, SlotInv, LimiterTypes, Incremented
<1>2. LimiterTypes' BY <1>1 DEF SlotInv, LimiterTypes
<1>3. \A l \in Keys :
        /\ count[l] <= count'[l]
        /\ count'[l] <= Limits[l]
        /\ count[l] \in Nat /\ count'[l] \in Nat /\ Cardinality(holders[l]) \in Nat
  BY <1>1, HoldersFinite, LimitsAssumption DEF SlotInv, LimiterTypes, SlotsBound
<1>4. SlotsBound'
  BY <1>1, <1>3 DEF SlotInv, SlotsBound
<1>5. QED BY <1>1, <1>2, <1>4 DEF SlotInv, NoExcess

\* A release of a request that holds nothing changes nothing, any other frees one
\* slot; the last one to leave an expired counter finds it at 0.
LEMMA ReleaseSlots ==
  ASSUME SlotInv, NEW k \in Keys, NEW r \in Requests, Release(k, r)
  PROVE  SlotInv'
<1>0. /\ holders' = [holders EXCEPT ![k] = @ \ {r}]
      /\ lapsed' = IF holders'[k] = {} THEN lapsed \ {k} ELSE lapsed
      /\ \/ /\ count' = IF r \in holders[k] THEN Decremented(k) ELSE count
            /\ faults' = faults
         \/ r \in holders[k] /\ faults' = faults + 1 /\ count' = count
  BY DEF Release, CountsDown, Fault
<1>1. LimiterTypes'
  BY <1>0 DEF SlotInv, LimiterTypes, Decremented
<1>2. \A l \in Keys : /\ Cardinality(holders[l]) \in Nat /\ Cardinality(holders'[l]) \in Nat
                      /\ count[l] \in Nat /\ Limits[l] \in Nat /\ count'[l] \in Nat
  <2>1. \A l \in Keys : IsFiniteSet(holders'[l])
    <3> TAKE l \in Keys
    <3>1. holders'[l] \subseteq holders[l] BY <1>0 DEF SlotInv, LimiterTypes
    <3>2. QED BY <3>1, HoldersFinite, FS_Subset DEF SlotInv
  <2>2. QED BY <1>1, <2>1, HoldersFinite, FS_CardinalityType, LimitsAssumption
            DEF SlotInv, LimiterTypes
<1>3. /\ \A l \in Keys \ {k} : /\ holders'[l] = holders[l] /\ count'[l] = count[l]
                               /\ (l \in lapsed' <=> l \in lapsed)
      /\ holders'[k] = holders[k] \ {r}
  BY <1>0 DEF SlotInv, LimiterTypes, Decremented
<1>4. Cardinality(holders'[k]) = Cardinality(holders[k]) - (IF r \in holders[k] THEN 1 ELSE 0)
  <2>1. CASE r \in holders[k]
    BY <1>3, <2>1, HoldersFinite, FS_RemoveElement DEF SlotInv
  <2>2. CASE r \notin holders[k]
    <3>1. holders'[k] = holders[k] BY <1>3, <2>2
    <3>2. QED BY <1>2, <2>2, <3>1
  <2>3. QED BY <2>1, <2>2
<1>5. holders'[k] = {} => Cardinality(holders'[k]) = 0 BY FS_EmptySet
<1>6. \/ /\ faults' = faults
         /\ count'[k] = IF r \notin holders[k] THEN count[k]
                        ELSE IF count[k] <= 1 THEN 0 ELSE count[k] - 1
      \/ r \in holders[k] /\ faults' = faults + 1 /\ count'[k] = count[k]
  BY <1>0 DEF SlotInv, LimiterTypes, Decremented
<1>7. faults \in Nat /\ (r \in holders[k] => Cardinality(holders[k]) > 0)
  BY <1>2, HoldersFinite DEF SlotInv, LimiterTypes
<1>8. NoExcess'
  <2> SUFFICES ASSUME faults' = 0, NEW l \in Keys
               PROVE  count'[l] <= Cardinality(holders'[l])
    BY DEF NoExcess
  <2>1. faults = 0 /\ count[l] <= Cardinality(holders[l])
    BY <1>6, <1>7 DEF SlotInv, NoExcess
  <2>2. CASE l = k BY <1>2, <1>4, <1>6, <1>7, <2>1, <2>2
  <2>3. CASE l # k BY <1>3, <2>1, <2>3
  <2>4. QED BY <2>2, <2>3
<1>9. SlotsBound'
  <2> SUFFICES ASSUME NEW l \in Keys
               PROVE  /\ count'[l] <= Limits[l]
                      /\ l \notin lapsed' => Cardinality(holders'[l]) <= count'[l]
                      /\ l \notin lapsed' /\ faults' = 0 => count'[l] = Cardinality(holders'[l])
    BY DEF SlotsBound
  <2>1. /\ count[l] <= Limits[l]
        /\ l \notin lapsed => Cardinality(holders[l]) <= count[l]
    BY DEF SlotInv, SlotsBound
  <2>2. count'[l] <= Limits[l]
    <3>1. CASE l = k BY <1>2, <1>6, <2>1, <3>1
    <3>2. CASE l # k BY <1>3, <2>1, <3>2
    <3>3. QED BY <3>1, <3>2
  <2>3. l \notin lapsed' => Cardinality(holders'[l]) <= count'[l]
    <3>1. CASE l # k BY <1>3, <2>1, <3>1
    <3>2. CASE l = k /\ holders'[k] = {} BY <1>2, <1>5, <3>2
    <3>3. CASE l = k /\ holders'[k] # {}
      <4>1. lapsed' = lapsed BY <1>0, <3>3
      <4>2. QED BY <1>2, <1>4, <1>6, <1>7, <2>1, <3>3, <4>1
    <3>4. QED BY <3>1, <3>2, <3>3
  <2>4. faults' = 0 => count'[l] <= Cardinality(holders'[l]) BY <1>8 DEF NoExcess
  <2>5. QED BY <1>2, <2>2, <2>3, <2>4
<1>10. QED BY <1>1, <1>8, <1>9 DEF SlotInv

LEMMA KeyExpiresSlots ==
  ASSUME SlotInv, NEW k \in Keys, KeyExpires(k)
  PROVE  SlotInv'
<1>1. /\ count' = [count EXCEPT ![k] = 0]
      /\ lapsed' = IF holders[k] # {} THEN lapsed \cup {k} ELSE lapsed
      /\ UNCHANGED <<holders, faults>>
  BY DEF KeyExpires
<1>2. LimiterTypes' BY <1>1 DEF SlotInv, LimiterTypes
<1>3. \A l \in Keys : /\ Cardinality(holders[l]) \in Nat /\ count[l] \in Nat /\ Limits[l] \in Nat
                      /\ holders[l] = {} <=> Cardinality(holders[l]) = 0
                      /\ count'[l] = IF l = k THEN 0 ELSE count[l]
  BY <1>1, HoldersFinite, LimitsAssumption DEF SlotInv, LimiterTypes
<1>4. SlotsBound' BY <1>1, <1>3 DEF SlotInv, SlotsBound
<1>5. NoExcess' BY <1>1, <1>3 DEF SlotInv, NoExcess
<1>6. QED BY <1>2, <1>4, <1>5 DEF SlotInv

(***************************************************************************)
(* Who holds a slot.                                                       *)
(***************************************************************************)

Labels == {"new", "choose", "limit", "call", "record", "free", "mark", "leave"}

\* Labels at which the account of the attempt is known.
Leased == {"limit", "call", "record", "free", "mark"}

RequestTypes ==
  /\ pc \in [Requests -> Labels]
  /\ tried \in [Requests -> Seq(Pool)]
  /\ \A r \in Requests : pc[r] \in Leased => tried[r] # <<>>

\* A streamed request frees its account last, another before it marks it.
MayHold(r) == pc[r] \in {"call", "record", "free"} \/ (pc[r] = "mark" /\ r \in Streams)

\* A request holds at most its tenant's slot and the slot of its last account.
HoldersKnown ==
  \A k \in Keys : \A r \in holders[k] :
    \/ k = Tenant /\ pc[r] # "new"
    \/ k \in Pool /\ MayHold(r) /\ k = Last(tried[r])

PlaceInv == RequestTypes /\ HoldersKnown

LEMMA LastFacts ==
  ASSUME NEW s \in Seq(Pool)
  PROVE  /\ s # <<>> => Last(s) \in Pool
         /\ \A a \in Pool : /\ Append(s, a) \in Seq(Pool)
                            /\ Append(s, a) # <<>>
                            /\ Last(Append(s, a)) = a
BY DEF Last

\* The account of a request is a key, other than the tenant's.
LEMMA AccountFacts ==
  ASSUME PlaceInv, NEW r \in Requests, pc[r] \in Leased
  PROVE  Account(r) \in Pool /\ Account(r) \in Keys /\ Account(r) # Tenant
<1>1. tried[r] \in Seq(Pool) /\ tried[r] # <<>> BY DEF PlaceInv, RequestTypes
<1>2. Account(r) \in Pool BY <1>1, LastFacts DEF Account
<1>3. QED BY <1>2, KeysAssumption

\* A release takes the request out of one set of holders.
LEMMA ReleaseHolders ==
  ASSUME LimiterTypes, NEW k \in Keys, NEW r \in Requests, Release(k, r)
  PROVE  \A l \in Keys : holders'[l] = IF l = k THEN holders[l] \ {r} ELSE holders[l]
BY DEF LimiterTypes, Release

LEMMA AcquireTenantInv ==
  ASSUME SlotInv, PlaceInv, NEW r \in Requests, AcquireTenant(r)
  PROVE  SlotInv' /\ PlaceInv'
<1>1. Tenant \in Keys /\ pc[r] = "new" /\ tried' = tried
  BY KeysAssumption DEF AcquireTenant, At
<1>2. r \notin holders[Tenant]
  BY <1>1, KeysAssumption DEF PlaceInv, HoldersKnown
<1>3. CASE Grant(Tenant, r) /\ Goto(r, "choose")
  <2>1. SlotInv' BY <1>1, <1>2, <1>3, GrantSlots
  <2>2. /\ pc' = [pc EXCEPT ![r] = "choose"]
        /\ holders' = [holders EXCEPT ![Tenant] = @ \cup {r}]
    BY <1>3 DEF Goto, Grant
  <2>3. RequestTypes'
    BY <1>1, <2>2 DEF PlaceInv, RequestTypes, Labels, Leased
  <2>4. HoldersKnown'
    BY <1>1, <2>2, KeysAssumption
    DEF SlotInv, LimiterTypes, PlaceInv, RequestTypes, HoldersKnown, MayHold
  <2>5. QED BY <2>1, <2>3, <2>4 DEF PlaceInv
<1>4. ASSUME Refuse(Tenant) \/ Unreachable(Tenant), Goto(r, "new")
      PROVE  SlotInv' /\ PlaceInv'
  <2>1. pc' = pc /\ holders' = holders
    BY <1>1, <1>4 DEF Goto, Refuse, Unreachable, limiterVars, PlaceInv, RequestTypes
  <2>2. PlaceInv'
    BY <1>1, <2>1 DEF PlaceInv, RequestTypes, HoldersKnown, MayHold
  <2>3. CASE Refuse(Tenant)
    BY <2>2, <2>3 DEF Refuse, limiterVars, SlotInv, LimiterTypes, SlotsBound, NoExcess
  <2>4. CASE Unreachable(Tenant) BY <1>1, <2>2, <2>4, UnreachableSlots
  <2>5. QED BY <1>4, <2>3, <2>4
<1>5. QED BY <1>3, <1>4 DEF AcquireTenant

\* The counters of a step that leaves them alone.
LEMMA SlotsUnchanged ==
  ASSUME SlotInv, UNCHANGED <<count, holders, lapsed>>, faults' \in {faults, faults + 1}
  PROVE  SlotInv'
<1>1. faults \in Nat /\ (faults' = 0 => faults = 0) BY DEF SlotInv, LimiterTypes
<1>2. LimiterTypes' BY <1>1 DEF SlotInv, LimiterTypes
<1>3. SlotsBound' BY <1>1 DEF SlotInv, SlotsBound
<1>4. NoExcess' BY <1>1 DEF SlotInv, NoExcess
<1>5. QED BY <1>2, <1>3, <1>4 DEF SlotInv

LEMMA ChooseInv ==
  ASSUME SlotInv, PlaceInv, NEW r \in Requests, Choose(r)
  PROVE  SlotInv' /\ PlaceInv'
<1>1. UNCHANGED limiterVars /\ pc[r] = "choose" BY DEF Choose, At
<1>2. SlotInv' BY <1>1, SlotsUnchanged DEF limiterVars
<1>3. /\ pc' \in {[pc EXCEPT ![r] = "limit"], [pc EXCEPT ![r] = "leave"]}
      /\ \/ tried' = tried /\ pc' = [pc EXCEPT ![r] = "leave"]
         \/ \E a \in Pool : tried' = [tried EXCEPT ![r] = Append(@, a)]
  BY DEF Choose, Goto, Return, Eligible
<1>4. \A q \in Requests \ {r} : tried'[q] = tried[q] /\ pc'[q] = pc[q]
  BY <1>3 DEF PlaceInv, RequestTypes
<1>5. RequestTypes'
  <2>1. pc' \in [Requests -> Labels]
    BY <1>3 DEF PlaceInv, RequestTypes, Labels
  <2>2. CASE tried' = tried /\ pc' = [pc EXCEPT ![r] = "leave"]
    BY <2>1, <2>2 DEF PlaceInv, RequestTypes, Leased
  <2>3. ASSUME NEW a \in Pool, tried' = [tried EXCEPT ![r] = Append(@, a)]
        PROVE  RequestTypes'
    <3>1. tried \in [Requests -> Seq(Pool)] /\ tried[r] \in Seq(Pool)
      BY DEF PlaceInv, RequestTypes
    <3>2. Append(tried[r], a) \in Seq(Pool) /\ Append(tried[r], a) # <<>>
      BY <3>1, LastFacts
    <3>3. tried' \in [Requests -> Seq(Pool)] /\ tried'[r] # <<>>
      BY <2>3, <3>1, <3>2
    <3>4. QED BY <1>4, <2>1, <3>3 DEF PlaceInv, RequestTypes
  <2>4. QED BY <1>3, <2>2, <2>3
<1>6. HoldersKnown'
  <2> SUFFICES ASSUME NEW k \in Keys, NEW q \in holders[k]
               PROVE  \/ k = Tenant /\ pc'[q] # "new"
                      \/ k \in Pool /\ MayHold(q)' /\ k = Last(tried'[q])
    BY <1>1 DEF HoldersKnown, limiterVars
  <2>1. q \in Requests BY DEF SlotInv, LimiterTypes
  <2>2. \/ k = Tenant /\ pc[q] # "new"
        \/ k \in Pool /\ MayHold(q) /\ k = Last(tried[q])
    BY DEF PlaceInv, HoldersKnown
  <2>3. CASE q = r BY <1>1, <1>3, <2>1, <2>2, <2>3 DEF PlaceInv, RequestTypes, MayHold
  <2>4. CASE q # r BY <1>4, <2>1, <2>2, <2>4 DEF MayHold
  <2>5. QED BY <2>3, <2>4
<1>7. QED BY <1>2, <1>5, <1>6 DEF PlaceInv

\* A request moves on and keeps the slots it has.
LEMMA MoveOn ==
  ASSUME SlotInv, PlaceInv, NEW r \in Requests, NEW l \in Labels,
         UNCHANGED <<holders, tried>>, pc' = [pc EXCEPT ![r] = l],
         pc[r] \in Leased, l # "new",
         MayHold(r) => l \in {"call", "record", "free"} \/ (l = "mark" /\ r \in Streams)
  PROVE  PlaceInv'
<1>1. RequestTypes'
  BY DEF PlaceInv, RequestTypes, Leased
<1>2. HoldersKnown'
  <2> SUFFICES ASSUME NEW k \in Keys, NEW q \in holders[k]
               PROVE  \/ k = Tenant /\ pc'[q] # "new"
                      \/ k \in Pool /\ MayHold(q)' /\ k = Last(tried[q])
    BY DEF HoldersKnown
  <2>1. q \in Requests BY DEF SlotInv, LimiterTypes
  <2>2. \/ k = Tenant /\ pc[q] # "new"
        \/ k \in Pool /\ MayHold(q) /\ k = Last(tried[q])
    BY DEF PlaceInv, HoldersKnown
  <2>3. CASE q = r BY <2>1, <2>2, <2>3 DEF PlaceInv, RequestTypes, MayHold
  <2>4. CASE q # r BY <2>1, <2>2, <2>4 DEF PlaceInv, RequestTypes, MayHold
  <2>5. QED BY <2>3, <2>4
<1>3. QED BY <1>1, <1>2 DEF PlaceInv

LEMMA AcquireAccountInv ==
  ASSUME SlotInv, PlaceInv, NEW r \in Requests, AcquireAccount(r)
  PROVE  SlotInv' /\ PlaceInv'
<1>1. pc[r] = "limit" /\ tried' = tried BY DEF AcquireAccount, At
<1>2. Account(r) \in Pool /\ Account(r) \in Keys /\ Account(r) # Tenant
  BY <1>1, AccountFacts DEF Leased
<1>3. r \notin holders[Account(r)] /\ ~MayHold(r)
  BY <1>1, <1>2 DEF PlaceInv, HoldersKnown, MayHold
<1>4. CASE Grant(Account(r), r) /\ Goto(r, "call")
  <2>1. SlotInv' BY <1>2, <1>3, <1>4, GrantSlots
  <2>2. /\ pc' = [pc EXCEPT ![r] = "call"]
        /\ holders' = [holders EXCEPT ![Account(r)] = @ \cup {r}]
    BY <1>4 DEF Goto, Grant
  <2>3. RequestTypes'
    BY <1>1, <2>2 DEF PlaceInv, RequestTypes, Labels, Leased
  <2>4. HoldersKnown'
    <3> SUFFICES ASSUME NEW k \in Keys, NEW q \in holders'[k]
                 PROVE  \/ k = Tenant /\ pc'[q] # "new"
                        \/ k \in Pool /\ MayHold(q)' /\ k = Last(tried[q])
      BY <1>1 DEF HoldersKnown
    <3>1. q \in Requests BY <2>1 DEF SlotInv, LimiterTypes
    <3>2. CASE q = r /\ k = Account(r)
      BY <1>2, <2>2, <3>2 DEF PlaceInv, RequestTypes, MayHold, Account
    <3>3. CASE ~(q = r /\ k = Account(r))
      <4>1. q \in holders[k] BY <2>2, <3>3 DEF SlotInv, LimiterTypes
      <4>2. \/ k = Tenant /\ pc[q] # "new"
            \/ k \in Pool /\ MayHold(q) /\ k = Last(tried[q])
        BY <4>1 DEF PlaceInv, HoldersKnown
      <4>3. QED BY <2>2, <3>1, <4>2 DEF PlaceInv, RequestTypes, MayHold
    <3>4. QED BY <3>2, <3>3
  <2>5. QED BY <2>1, <2>3, <2>4 DEF PlaceInv
<1>5. ASSUME UNCHANGED limiterVars \/ Unreachable(Account(r)),
             Goto(r, "call") \/ Goto(r, "leave")
      PROVE  SlotInv' /\ PlaceInv'
  <2>1. holders' = holders BY <1>5 DEF Unreachable, limiterVars
  <2>2. PlaceInv'
    BY <1>1, <1>3, <1>5, <2>1, MoveOn DEF Goto, Labels, Leased
  <2>3. SlotInv'
    BY <1>2, <1>5, UnreachableSlots, SlotsUnchanged DEF limiterVars
  <2>4. QED BY <2>2, <2>3
<1>6. QED BY <1>4, <1>5 DEF AcquireAccount, Refuse, Return

LEMMA CallUpstreamInv ==
  ASSUME SlotInv, PlaceInv, NEW r \in Requests, CallUpstream(r)
  PROVE  SlotInv' /\ PlaceInv'
<1>1. /\ pc[r] = "call" /\ UNCHANGED <<count, holders, lapsed, tried>>
      /\ faults' \in {faults, faults + 1}
      /\ Goto(r, "record") \/ Goto(r, "free")
  BY DEF CallUpstream, At, Fault, Return
<1>2. PlaceInv' BY <1>1, MoveOn DEF Goto, Labels, Leased
<1>3. QED BY <1>1, <1>2, SlotsUnchanged

LEMMA WriteReleaseInv ==
  ASSUME SlotInv, PlaceInv, NEW r \in Requests, WriteRelease(r)
  PROVE  SlotInv' /\ PlaceInv'
<1>1. /\ pc[r] = "record" /\ UNCHANGED <<count, holders, lapsed, tried>>
      /\ faults' \in {faults, faults + 1}
      /\ Goto(r, "free") \/ (r \in Streams /\ Goto(r, "mark"))
  BY DEF WriteRelease, At, Fault, Return
<1>2. PlaceInv' BY <1>1, MoveOn DEF Goto, Labels, Leased
<1>3. QED BY <1>1, <1>2, SlotsUnchanged

LEMMA FreeAccountInv ==
  ASSUME SlotInv, PlaceInv, NEW r \in Requests, FreeAccount(r)
  PROVE  SlotInv' /\ PlaceInv'
<1>1. pc[r] = "free" /\ tried' = tried /\ Release(Account(r), r)
  BY DEF FreeAccount, At
<1>2. Account(r) \in Pool /\ Account(r) \in Keys /\ Account(r) # Tenant
  BY <1>1, AccountFacts DEF Leased
<1>3. SlotInv' BY <1>1, <1>2, ReleaseSlots
<1>4. PICK l \in {"mark", "leave"} : pc' = [pc EXCEPT ![r] = l] BY DEF FreeAccount, Goto
<1>5. RequestTypes'
  BY <1>1, <1>4 DEF PlaceInv, RequestTypes, Labels, Leased
<1>6. HoldersKnown'
  <2> SUFFICES ASSUME NEW k \in Keys, NEW q \in holders'[k]
               PROVE  \/ k = Tenant /\ pc'[q] # "new"
                      \/ k \in Pool /\ MayHold(q)' /\ k = Last(tried[q])
    BY <1>1 DEF HoldersKnown
  <2>1. q \in Requests BY <1>3 DEF SlotInv, LimiterTypes
  <2>2. q \in holders[k] /\ ~(k = Account(r) /\ q = r)
    <3>1. LimiterTypes BY DEF SlotInv
    <3>2. \A j \in Keys : holders'[j] = IF j = Account(r) THEN holders[j] \ {r} ELSE holders[j]
      BY <1>1, <1>2, <3>1, ReleaseHolders
    <3>3. QED BY <3>2
  <2>3. \/ k = Tenant /\ pc[q] # "new"
        \/ k \in Pool /\ MayHold(q) /\ k = Last(tried[q])
    BY <2>2 DEF PlaceInv, HoldersKnown
  <2>4. CASE q = r
    BY <1>4, <2>1, <2>2, <2>3, <2>4 DEF PlaceInv, RequestTypes, Account
  <2>5. CASE q # r
    BY <1>4, <2>1, <2>3, <2>5 DEF PlaceInv, RequestTypes, MayHold
  <2>6. QED BY <2>4, <2>5
<1>7. QED BY <1>3, <1>5, <1>6 DEF PlaceInv

LEMMA MarkInv ==
  ASSUME SlotInv, PlaceInv, NEW r \in Requests, Mark(r)
  PROVE  SlotInv' /\ PlaceInv'
<1>1. pc[r] = "mark" /\ UNCHANGED <<limiterVars, tried>> BY DEF Mark, At
<1>2. PICK l \in {"choose", "free", "leave"} :
        pc' = [pc EXCEPT ![r] = l] /\ (r \in Streams => l = "free")
  BY DEF Mark, Goto, Return, FailsOver
<1>3. PlaceInv'
  BY <1>1, <1>2, MoveOn DEF limiterVars, Labels, Leased, MayHold
<1>4. QED BY <1>1, <1>3, SlotsUnchanged DEF limiterVars

LEMMA FreeTenantInv ==
  ASSUME SlotInv, PlaceInv, NEW r \in Requests, FreeTenant(r)
  PROVE  SlotInv' /\ PlaceInv'
<1>1. /\ pc[r] = "leave" /\ Release(Tenant, r) /\ Tenant \in Keys
      /\ pc' = [pc EXCEPT ![r] = "new"] /\ tried' = [tried EXCEPT ![r] = <<>>]
  BY KeysAssumption DEF FreeTenant, At, Goto
<1>2. SlotInv' BY <1>1, ReleaseSlots
<1>3. RequestTypes'
  BY <1>1 DEF PlaceInv, RequestTypes, Labels, Leased
<1>4. HoldersKnown'
  <2> SUFFICES ASSUME NEW k \in Keys, NEW q \in holders'[k]
               PROVE  \/ k = Tenant /\ pc'[q] # "new"
                      \/ k \in Pool /\ MayHold(q)' /\ k = Last(tried'[q])
    BY DEF HoldersKnown
  <2>1. q \in Requests BY <1>2 DEF SlotInv, LimiterTypes
  <2>2. q \in holders[k] /\ ~(k = Tenant /\ q = r)
    BY <1>1, ReleaseHolders DEF SlotInv
  <2>3. \/ k = Tenant /\ pc[q] # "new"
        \/ k \in Pool /\ MayHold(q) /\ k = Last(tried[q])
    BY <2>2 DEF PlaceInv, HoldersKnown
  <2>4. q # r BY <1>1, <2>2, <2>3 DEF MayHold
  <2>5. QED BY <1>1, <2>1, <2>3, <2>4 DEF PlaceInv, RequestTypes, MayHold
<1>5. QED BY <1>2, <1>3, <1>4 DEF PlaceInv

\* Steps of the snapshot, the chooser and the clock leave requests where they are.
LEMMA RequestsUnchanged ==
  ASSUME PlaceInv, UNCHANGED <<holders, pc, tried>>
  PROVE  PlaceInv'
BY DEF PlaceInv, RequestTypes, HoldersKnown, MayHold

LEMMA SlotsStep ==
  ASSUME SlotInv, PlaceInv, [HandlersNext]_handlerVars
  PROVE  SlotInv' /\ PlaceInv'
<1>1. ASSUME NEW r \in Requests, RequestStep(r) PROVE SlotInv' /\ PlaceInv'
  BY <1>1, AcquireTenantInv, ChooseInv, AcquireAccountInv, CallUpstreamInv, WriteReleaseInv,
     FreeAccountInv, MarkInv, FreeTenantInv DEF RequestStep
<1>2. CASE LimiterNext
  <2>1. UNCHANGED <<holders, pc, tried>> BY <1>2 DEF LimiterNext, KeyExpires, requestVars
  <2>2. QED BY <1>2, <2>1, KeyExpiresSlots, RequestsUnchanged DEF LimiterNext
<1>3. CASE ChooserNext \/ UNCHANGED handlerVars
  <2>1. UNCHANGED limiterVars /\ UNCHANGED requestVars
    BY <1>3 DEF ChooserNext, Reload, Republish, handlerVars
  <2>2. QED BY <2>1, SlotsUnchanged, RequestsUnchanged DEF limiterVars, requestVars
<1>4. QED BY <1>1, <1>2, <1>3 DEF HandlersNext, RequestNext

LEMMA SlotsInit == HandlersInit => SlotInv /\ PlaceInv
<1> SUFFICES ASSUME HandlersInit PROVE SlotInv /\ PlaceInv OBVIOUS
<1> USE DEF HandlersInit, LimiterInit, RequestsInit
<1>1. LimiterTypes BY DEF LimiterTypes
<1>2. \A k \in Keys : Limits[k] \in Nat /\ count[k] = 0 /\ Cardinality(holders[k]) = 0
  BY FS_EmptySet, LimitsAssumption
<1>3. SlotsBound /\ NoExcess BY <1>2 DEF SlotsBound, NoExcess
<1>4. PlaceInv BY DEF PlaceInv, RequestTypes, HoldersKnown, Labels, Leased
<1>5. QED BY <1>1, <1>3, <1>4 DEF SlotInv

\* Every request that runs under the limit of a tenant or an account is counted
\* there and the counter stays within MaxConcurrency, until the key expires under
\* running requests: for any number of requests and accounts, whichever of the
\* calls of acquireScript and releaseScript fail.
THEOREM SlotsAreBounded == HandlersSpec => []SlotsBound
<1>1. HandlersInit => SlotInv /\ PlaceInv BY SlotsInit
<1>2. SlotInv /\ PlaceInv /\ [HandlersNext]_handlerVars => SlotInv' /\ PlaceInv'
  BY SlotsStep
<1>3. SlotInv => SlotsBound BY DEF SlotInv
<1>4. QED BY <1>1, <1>2, <1>3, PTL DEF HandlersSpec

(***************************************************************************)
(* The records of a request.                                               *)
(***************************************************************************)

Statuses == {Pending, "200", "400", "429", "502", "503", "upstream"}

RecordTypes ==
  /\ outcome \in [Requests -> Outcomes \cup StreamOutcomes \cup {Pending}]
  /\ records \in [Requests -> Seq({"ok", "failed"})]
  /\ doubt \in [Requests -> BOOLEAN]
  /\ answer \in [Requests -> Statuses]

NothingTold(r) == answer[r] = Pending /\ ~doubt[r]

NoneServed(r) == \A i \in DOMAIN records[r] : records[r][i] # "ok"

\* The attempt at hand has been recorded as it ended, and no attempt before it
\* was served.
LastRecorded(r) ==
  /\ Len(records[r]) = Len(tried[r])
  /\ Len(tried[r]) > 0
  /\ records[r][Len(tried[r])] = ErrorClass(outcome[r])
  /\ \A i \in DOMAIN records[r] : records[r][i] = "ok" => i = Len(tried[r])

\* What AnsweredAsRecorded says of one request.
Agrees(r) ==
  /\ \A i \in DOMAIN records[r] : records[r][i] = "ok" => i = Len(tried[r])
  /\ answer[r] = "200" /\ r \notin Streams => "ok" \in ToSet(records[r])
  /\ "ok" \in ToSet(records[r]) => answer[r] = "200" \/ doubt[r]

RecordAt(r) ==
  /\ pc[r] \in {"new", "choose"} =>
       NothingTold(r) /\ NoneServed(r) /\ Len(records[r]) = Len(tried[r])
  /\ pc[r] \in {"limit", "call", "record"} =>
       NothingTold(r) /\ NoneServed(r) /\ Len(records[r]) + 1 = Len(tried[r])
  /\ pc[r] = "mark" => NothingTold(r) /\ LastRecorded(r)
  /\ pc[r] = "free" =>
       (NothingTold(r) /\ LastRecorded(r)) \/ (answer[r] # Pending /\ Agrees(r))
  /\ pc[r] = "leave" => Agrees(r)

RecordInv == RecordTypes /\ \A r \in Requests : RecordAt(r)

\* What one request does leaves the others as they are.
LEMMA RecordFrame ==
  ASSUME RecordInv, NEW r \in Requests, RecordTypes', RecordAt(r)',
         \A q \in Requests \ {r} :
           /\ pc'[q] = pc[q] /\ tried'[q] = tried[q] /\ outcome'[q] = outcome[q]
           /\ records'[q] = records[q] /\ doubt'[q] = doubt[q] /\ answer'[q] = answer[q]
  PROVE  RecordInv'
<1>1. ASSUME NEW q \in Requests, q # r PROVE RecordAt(q)'
  <2>1. RecordAt(q) BY DEF RecordInv
  <2>2. QED BY <1>1, <2>1 DEF RecordAt, NothingTold, NoneServed, LastRecorded, Agrees
<1>2. QED BY <1>1 DEF RecordInv

LEMMA ToSetFacts ==
  ASSUME NEW S, NEW s \in Seq(S), NEW x
  PROVE  x \in ToSet(s) <=> \E i \in DOMAIN s : s[i] = x
BY DEF ToSet

LEMMA RecordChoose ==
  ASSUME PlaceInv, RecordInv, NEW r \in Requests, Choose(r)
  PROVE  RecordInv'
<1>1. /\ pc[r] = "choose" /\ UNCHANGED <<outcome, records, doubt>>
      /\ RecordAt(r) /\ RecordTypes /\ RequestTypes
  BY DEF Choose, At, RecordInv, PlaceInv
<1>2. NothingTold(r) /\ NoneServed(r) /\ Len(records[r]) = Len(tried[r])
  BY <1>1 DEF RecordAt
<1>3. ASSUME NEW a \in Pool, tried' = [tried EXCEPT ![r] = Append(@, a)],
             pc' = [pc EXCEPT ![r] = "limit"], answer' = answer
      PROVE  RecordInv'
  <2>1. RecordTypes' BY <1>1, <1>3 DEF RecordTypes
  <2>2. tried'[r] = Append(tried[r], a) /\ tried[r] \in Seq(Pool)
    BY <1>1, <1>3 DEF RequestTypes
  <2>3. Len(tried'[r]) = Len(tried[r]) + 1 BY <2>2
  <2>4. pc'[r] = "limit" BY <1>1, <1>3 DEF RequestTypes
  <2>5. NothingTold(r)' /\ NoneServed(r)' BY <1>1, <1>2, <1>3 DEF NothingTold, NoneServed
  <2>6. RecordAt(r)' BY <1>1, <1>2, <2>3, <2>4, <2>5 DEF RecordAt
  <2>7. QED BY <1>1, <1>3, <2>1, <2>6, RecordFrame DEF RequestTypes
<1>4. ASSUME NEW s \in {"429", "503", "upstream"}, answer' = [answer EXCEPT ![r] = s],
             pc' = [pc EXCEPT ![r] = "leave"], tried' = tried
      PROVE  RecordInv'
  <2>1. RecordTypes' BY <1>1, <1>4 DEF RecordTypes, Statuses
  <2>2. answer'[r] = s /\ pc'[r] = "leave" BY <1>1, <1>4 DEF RecordTypes, RequestTypes
  <2>3. Agrees(r)'
    <3>1. records[r] \in Seq({"ok", "failed"}) BY <1>1 DEF RecordTypes
    <3>2. QED BY <1>1, <1>2, <1>4, <2>2, <3>1, ToSetFacts DEF NoneServed, Agrees
  <2>4. RecordAt(r)' BY <2>2, <2>3 DEF RecordAt
  <2>5. QED BY <1>1, <1>4, <2>1, <2>4, RecordFrame DEF RequestTypes, RecordTypes
<1>5. QED BY <1>3, <1>4 DEF Choose, Goto, Return, Eligible

\* A request that is turned away before its attempt was recorded.
LEMMA RecordTurnedAway ==
  ASSUME PlaceInv, RecordInv, NEW r \in Requests, pc[r] \in {"limit", "call"},
         NEW s \in Statuses \ {Pending, "200"}, NEW l \in {"free", "leave"},
         answer' = [answer EXCEPT ![r] = s], pc' = [pc EXCEPT ![r] = l],
         UNCHANGED <<tried, outcome, records, doubt>>
  PROVE  RecordInv'
<1>1. RecordAt(r) /\ RecordTypes /\ RequestTypes BY DEF RecordInv, PlaceInv
<1>2. NoneServed(r) BY <1>1 DEF RecordAt
<1>3. RecordTypes' BY <1>1 DEF RecordTypes
<1>4. answer'[r] = s /\ pc'[r] = l BY <1>1 DEF RecordTypes, RequestTypes
<1>5. Agrees(r)'
  <2>1. records[r] \in Seq({"ok", "failed"}) BY <1>1 DEF RecordTypes
  <2>2. QED BY <1>2, <1>4, <2>1, ToSetFacts DEF NoneServed, Agrees
<1>6. RecordAt(r)' BY <1>4, <1>5 DEF RecordAt
<1>7. QED BY <1>1, <1>3, <1>6, RecordFrame DEF RequestTypes, RecordTypes

\* A request that goes on to a label at which the same is known of it.
LEMMA RecordMoves ==
  ASSUME PlaceInv, RecordInv, NEW r \in Requests, NEW l \in Labels,
         \/ pc[r] \in {"new", "choose"} /\ l \in {"new", "choose"}
         \/ pc[r] \in {"limit", "call"} /\ l \in {"call", "record"}
         \/ pc[r] = "free" /\ answer[r] = Pending /\ l = "mark"
         \/ pc[r] = "free" /\ answer[r] # Pending /\ l = "leave",
         pc' = [pc EXCEPT ![r] = l], RecordTypes',
         \A q \in Requests \ {r} : outcome'[q] = outcome[q],
         outcome'[r] = outcome[r] \/ l = "record",
         UNCHANGED <<tried, records, doubt, answer>>
  PROVE  RecordInv'
<1>1. RecordAt(r) /\ RequestTypes BY DEF RecordInv, PlaceInv
<1>2. pc'[r] = l BY <1>1 DEF RequestTypes
<1>3. RecordAt(r)'
  BY <1>1, <1>2 DEF RecordAt, NothingTold, NoneServed, LastRecorded, Agrees
<1>4. QED BY <1>1, <1>3, RecordFrame DEF RequestTypes

LEMMA RecordAcquire ==
  ASSUME PlaceInv, RecordInv, NEW r \in Requests, AcquireTenant(r) \/ AcquireAccount(r)
  PROVE  RecordInv'
<1>1. UNCHANGED <<tried, outcome, records, doubt>> /\ RecordTypes
  BY DEF AcquireTenant, AcquireAccount, RecordInv
<1>2. \/ answer' = answer /\ Goto(r, "choose") /\ pc[r] = "new"
      \/ answer' = answer /\ Goto(r, "new") /\ pc[r] = "new"
      \/ answer' = answer /\ Goto(r, "call") /\ pc[r] = "limit"
      \/ Return(r, "400", "leave") /\ pc[r] = "limit"
      \/ Return(r, "429", "leave") /\ pc[r] = "limit"
  BY DEF AcquireTenant, AcquireAccount, At
<1>3. answer' = answer => RecordTypes' BY <1>1 DEF RecordTypes
<1>4. QED
  BY <1>1, <1>2, <1>3, RecordMoves, RecordTurnedAway DEF Goto, Return, Labels, Statuses, Pending

LEMMA RecordCall ==
  ASSUME PlaceInv, RecordInv, NEW r \in Requests, CallUpstream(r)
  PROVE  RecordInv'
<1>1. /\ pc[r] = "call" /\ UNCHANGED <<tried, records, doubt>>
      /\ RecordTypes
  BY DEF CallUpstream, At, RecordInv
<1>2. ASSUME NEW o \in Outcomes \cup StreamOutcomes, outcome' = [outcome EXCEPT ![r] = o],
             Goto(r, "record"), answer' = answer
      PROVE  RecordInv'
  <2>1. RecordTypes' BY <1>1, <1>2 DEF RecordTypes
  <2>2. \A q \in Requests \ {r} : outcome'[q] = outcome[q] BY <1>1, <1>2 DEF RecordTypes
  <2>3. QED BY <1>1, <1>2, <2>1, <2>2, RecordMoves DEF Goto, Labels
<1>3. CASE Return(r, "503", "free") /\ outcome' = outcome
  BY <1>1, <1>3, RecordTurnedAway DEF Goto, Return, Statuses, Pending
<1>4. QED BY <1>2, <1>3 DEF CallUpstream

\* One more record.
LEMMA AppendFacts ==
  ASSUME NEW S, NEW s \in Seq(S), NEW x \in S
  PROVE  /\ Append(s, x) \in Seq(S)
         /\ Len(Append(s, x)) = Len(s) + 1 /\ Len(s) \in Nat
         /\ DOMAIN Append(s, x) = 1 .. (Len(s) + 1) /\ DOMAIN s = 1 .. Len(s)
         /\ Append(s, x)[Len(s) + 1] = x
         /\ \A i \in 1 .. Len(s) : Append(s, x)[i] = s[i]
OBVIOUS

LEMMA RecordWrite ==
  ASSUME PlaceInv, RecordInv, NEW r \in Requests, WriteRelease(r)
  PROVE  RecordInv'
<1> DEFINE c == ErrorClass(outcome[r])
           written == [records EXCEPT ![r] = Append(@, c)]
<1>1. /\ pc[r] = "record" /\ tried' = tried
      /\ RecordAt(r) /\ RecordTypes /\ RequestTypes
  BY DEF WriteRelease, At, RecordInv, PlaceInv
<1>2. /\ NothingTold(r) /\ NoneServed(r) /\ Len(records[r]) + 1 = Len(tried[r])
      /\ records[r] \in Seq({"ok", "failed"}) /\ c \in {"ok", "failed"}
  BY <1>1 DEF RecordAt, RecordTypes, ErrorClass
<1>3. /\ written \in [Requests -> Seq({"ok", "failed"})]
      /\ \A q \in Requests \ {r} : written[q] = records[q]
      /\ Len(written[r]) = Len(tried[r]) /\ Len(tried[r]) > 0
      /\ written[r][Len(tried[r])] = c
      /\ \A i \in DOMAIN written[r] : written[r][i] = "ok" => i = Len(tried[r])
  <2>1. written[r] = Append(records[r], c) BY <1>1 DEF RecordTypes
  <2>2. Append(records[r], c) \in Seq({"ok", "failed"}) BY <1>2, AppendFacts
  <2>3. /\ written \in [Requests -> Seq({"ok", "failed"})]
        /\ \A q \in Requests \ {r} : written[q] = records[q]
    BY <1>1, <2>2 DEF RecordTypes
  <2>4. QED BY <1>2, <2>1, <2>3, AppendFacts DEF NoneServed
<1>4. ASSUME records' = written, UNCHANGED <<outcome, doubt, answer>>,
             NEW l \in {"mark", "free"}, pc' = [pc EXCEPT ![r] = l]
      PROVE  RecordInv'
  <2>1. RecordTypes' BY <1>1, <1>3, <1>4 DEF RecordTypes
  <2>2. pc'[r] = l BY <1>1, <1>4 DEF RequestTypes
  <2>3. NothingTold(r)' /\ LastRecorded(r)'
    BY <1>1, <1>2, <1>3, <1>4 DEF NothingTold, LastRecorded
  <2>4. RecordAt(r)' BY <2>2, <2>3 DEF RecordAt
  <2>5. QED BY <1>1, <1>3, <1>4, <2>1, <2>4, RecordFrame DEF RequestTypes
<1>5. ASSUME records' \in {records, written}, doubt' = [doubt EXCEPT ![r] = TRUE],
             Return(r, IF Sent200(r) THEN "200" ELSE "503", "free"),
             outcome' = [outcome EXCEPT ![r] = Pending]
      PROVE  RecordInv'
  <2>1. /\ pc' = [pc EXCEPT ![r] = "free"]
        /\ answer' = [answer EXCEPT ![r] = IF Sent200(r) THEN "200" ELSE "503"]
    BY <1>5 DEF Return, Goto
  <2>2. RecordTypes' BY <1>1, <1>3, <1>5, <2>1 DEF RecordTypes, Statuses
  <2>3. pc'[r] = "free" /\ doubt'[r] /\ answer'[r] = IF Sent200(r) THEN "200" ELSE "503"
    BY <1>1, <1>5, <2>1 DEF RequestTypes, RecordTypes
  <2>4. \A i \in DOMAIN records'[r] : records'[r][i] = "ok" => i = Len(tried[r])
    BY <1>2, <1>3, <1>5 DEF NoneServed
  <2>5. answer'[r] # Pending /\ (r \notin Streams => answer'[r] # "200")
    BY <2>3 DEF Sent200, Pending
  <2>6. Agrees(r)' BY <1>1, <2>3, <2>4, <2>5 DEF Agrees
  <2>7. RecordAt(r)' BY <2>3, <2>5, <2>6 DEF RecordAt
  <2>8. QED BY <1>1, <1>3, <1>5, <2>1, <2>2, <2>7, RecordFrame DEF RequestTypes, RecordTypes
<1>6. QED BY <1>4, <1>5 DEF WriteRelease, Goto, Forget

LEMMA RecordFree ==
  ASSUME PlaceInv, RecordInv, NEW r \in Requests, FreeAccount(r)
  PROVE  RecordInv'
<1>1. /\ pc[r] = "free" /\ UNCHANGED <<tried, outcome, records, doubt, answer>>
      /\ pc' = [pc EXCEPT ![r] = IF answer[r] = Pending THEN "mark" ELSE "leave"]
  BY DEF FreeAccount, At, Goto
<1>2. RecordTypes' BY <1>1 DEF RecordInv, RecordTypes
<1>3. QED BY <1>1, <1>2, RecordMoves DEF Labels

LEMMA RecordMark ==
  ASSUME PlaceInv, RecordInv, NEW r \in Requests, Mark(r)
  PROVE  RecordInv'
<1>1. /\ pc[r] = "mark" /\ UNCHANGED <<tried, records, doubt>>
      /\ outcome' = [outcome EXCEPT ![r] = Pending]
      /\ RecordAt(r) /\ RecordTypes /\ RequestTypes
  BY DEF Mark, At, RecordInv, PlaceInv, Forget
<1>2. /\ NothingTold(r) /\ LastRecorded(r)
      /\ records[r] \in Seq({"ok", "failed"}) /\ tried[r] \in Seq(Pool)
  BY <1>1 DEF RecordAt, RecordTypes, RequestTypes
<1>3. CASE FailsOver(r)
  <2>1. pc' = [pc EXCEPT ![r] = "choose"] /\ answer' = answer BY <1>3 DEF Mark, Goto
  <2>2. RecordTypes' BY <1>1, <2>1 DEF RecordTypes
  <2>3. pc'[r] = "choose" BY <1>1, <2>1 DEF RequestTypes
  <2>4. ErrorClass(outcome[r]) = "failed" BY <1>3 DEF FailsOver, ErrorClass
  <2>5. NoneServed(r) BY <1>2, <2>4 DEF LastRecorded, NoneServed
  <2>6. RecordAt(r)'
    BY <1>1, <1>2, <2>1, <2>3, <2>5 DEF RecordAt, NothingTold, NoneServed, LastRecorded
  <2>7. QED BY <1>1, <2>1, <2>2, <2>6, RecordFrame DEF RequestTypes, RecordTypes
<1>4. CASE ~FailsOver(r)
  <2>1. PICK l \in {"free", "leave"} :
          pc' = [pc EXCEPT ![r] = l] /\ answer' = [answer EXCEPT ![r] = Status(r)]
    BY <1>4 DEF Mark, Goto, Return
  <2>2. /\ Status(r) \in {"200", "502", "upstream"}
        /\ Status(r) = "200" <=> outcome[r] = "ok" \/ Sent200(r)
    BY DEF Status, Sent200
  <2>3. RecordTypes' BY <1>1, <2>1, <2>2 DEF RecordTypes, Statuses
  <2>4. pc'[r] = l /\ answer'[r] = Status(r) BY <1>1, <2>1 DEF RequestTypes, RecordTypes
  <2>5. /\ \A i \in DOMAIN records[r] : records[r][i] = "ok" => i = Len(tried[r])
        /\ Len(tried[r]) \in DOMAIN records[r]
        /\ records[r][Len(tried[r])] = ErrorClass(outcome[r])
    BY <1>2 DEF LastRecorded
  <2>6. "ok" \in ToSet(records[r]) <=> outcome[r] = "ok"
    BY <1>2, <2>5, ToSetFacts DEF ErrorClass
  <2>7. Agrees(r)'
    BY <1>1, <2>2, <2>4, <2>5, <2>6 DEF Agrees, Sent200
  <2>8. answer'[r] # Pending BY <2>2, <2>4 DEF Pending
  <2>9. RecordAt(r)' BY <2>4, <2>7, <2>8 DEF RecordAt
  <2>10. QED BY <1>1, <2>1, <2>3, <2>9, RecordFrame DEF RequestTypes, RecordTypes
<1>5. QED BY <1>3, <1>4

LEMMA RecordLeave ==
  ASSUME PlaceInv, RecordInv, NEW r \in Requests, FreeTenant(r)
  PROVE  RecordInv'
<1>1. /\ pc' = [pc EXCEPT ![r] = "new"]
      /\ tried' = [tried EXCEPT ![r] = <<>>]
      /\ outcome' = [outcome EXCEPT ![r] = Pending]
      /\ records' = [records EXCEPT ![r] = <<>>]
      /\ doubt' = [doubt EXCEPT ![r] = FALSE]
      /\ answer' = [answer EXCEPT ![r] = Pending]
      /\ RecordTypes /\ RequestTypes
  BY DEF FreeTenant, Goto, Forget, RecordInv, PlaceInv
<1>2. RecordTypes' BY <1>1 DEF RecordTypes, Statuses
<1>3. /\ pc'[r] = "new" /\ tried'[r] = <<>> /\ records'[r] = <<>>
      /\ doubt'[r] = FALSE /\ answer'[r] = Pending
  BY <1>1 DEF RequestTypes, RecordTypes
<1>4. RecordAt(r)' BY <1>3 DEF RecordAt, NothingTold, NoneServed
<1>5. QED BY <1>1, <1>2, <1>4, RecordFrame DEF RequestTypes, RecordTypes

LEMMA RecordStep ==
  ASSUME PlaceInv, RecordInv, [HandlersNext]_handlerVars
  PROVE  RecordInv'
<1>1. ASSUME NEW r \in Requests, RequestStep(r) PROVE RecordInv'
  BY <1>1, RecordAcquire, RecordChoose, RecordCall, RecordWrite, RecordFree, RecordMark,
     RecordLeave DEF RequestStep
<1>2. CASE LimiterNext \/ ChooserNext \/ UNCHANGED handlerVars
  <2>1. UNCHANGED requestVars
    BY <1>2 DEF LimiterNext, ChooserNext, Reload, Republish, handlerVars
  <2>2. QED BY <2>1 DEF requestVars, RecordInv, RecordTypes, RecordAt, NothingTold, NoneServed,
                        LastRecorded, Agrees
<1>3. QED BY <1>1, <1>2 DEF HandlersNext, RequestNext

\* What handleNonStreaming and the streaming handlers tell the client and what
\* they recorded agree when they return, whatever accounts are chosen, however
\* the calls end and whichever writes fail.
THEOREM AnswersMatchRecords == HandlersSpec => []AnsweredAsRecorded
<1>1. HandlersInit => SlotInv /\ PlaceInv BY SlotsInit
<1>2. HandlersInit => RecordInv
  <2> SUFFICES ASSUME HandlersInit PROVE RecordInv OBVIOUS
  <2> USE DEF HandlersInit, RequestsInit
  <2>1. RecordTypes BY DEF RecordTypes, Statuses
  <2>2. \A r \in Requests : RecordAt(r) BY DEF RecordAt, NothingTold, NoneServed
  <2>3. QED BY <2>1, <2>2 DEF RecordInv
<1>3. SlotInv /\ PlaceInv /\ [HandlersNext]_handlerVars => SlotInv' /\ PlaceInv' BY SlotsStep
<1>4. PlaceInv /\ RecordInv /\ [HandlersNext]_handlerVars => RecordInv' BY RecordStep
<1>5. RecordInv => AnsweredAsRecorded
  BY DEF RecordInv, RecordAt, AnsweredAsRecorded, At, Agrees
<1>6. QED BY <1>1, <1>2, <1>3, <1>4, <1>5, PTL DEF HandlersSpec
=============================================================================
