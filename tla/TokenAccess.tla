---------------------------- MODULE TokenAccess ----------------------------
(***************************************************************************)
(* Tenant tokens, from the database to the answer a gateway gives.         *)
(*                                                                         *)
(*   internal/control/tenants.go   ListActiveTokens, TokenLoop.RunOnce     *)
(*   internal/snapshot/auth.go     PublishTokens, LoadTokens               *)
(*   internal/gateway/auth.go      Authenticator                           *)
(*   internal/gateway/run.go       the middleware of NewRouter             *)
(*                                                                         *)
(* The hash in Redis has no epoch: two control processes overwrite each    *)
(* other's set with whatever each of them listed.                          *)
(***************************************************************************)
EXTENDS Naturals

CONSTANTS
  TenantTokens,
  Publishers,      \* control processes
  MaxEdits,        \* bound: changes of tokens, tenants and wallets
  MaxOutages       \* bound: failed calls of either side

ASSUME BoundsAssumption == MaxEdits \in Nat /\ MaxOutages \in Nat

VARIABLES
  rights,    \* rights[t]: what the database grants token t
  expired,   \* tokens whose expires_at has passed
  listed,    \* listed[p]: the records process p has read and not published
  shared,    \* the hash TokenKey
  local,     \* Authenticator.records
  edits, outages

accessVars == <<rights, expired, listed, shared, local, edits, outages>>

\* A record is "paid" or "blocked" (billing_blocked); "gone" is no record.
Rights == {"paid", "blocked", "gone"}
Records == [TenantTokens -> Rights]
NoRecords == [t \in TenantTokens |-> "gone"]

AccessTypeOK ==
  /\ rights \in Records
  /\ expired \subseteq TenantTokens
  /\ \A p \in Publishers : listed[p] \in [busy : BOOLEAN, records : Records]
  /\ shared \in Records
  /\ local \in Records
  /\ edits \in 0 .. MaxEdits
  /\ outages \in 0 .. MaxOutages

Idle == [busy |-> FALSE, records |-> NoRecords]

AccessInit ==
  /\ rights = NoRecords
  /\ expired = {}
  /\ listed = [p \in Publishers |-> Idle]
  /\ shared = NoRecords
  /\ local = NoRecords
  /\ edits = 0
  /\ outages = 0

Edit == edits < MaxEdits /\ edits' = edits + 1
Outage == outages < MaxOutages /\ outages' = outages + 1

\* A token is created or revoked, its tenant or principal changes status, or the
\* wallet crosses zero.
SetRights(t, r) ==
  /\ r # rights[t]
  /\ Edit
  /\ rights' = [rights EXCEPT ![t] = r]
  /\ UNCHANGED <<expired, listed, shared, local, outages>>

Expire(t) ==
  /\ t \notin expired
  /\ Edit
  /\ expired' = expired \cup {t}
  /\ UNCHANGED <<rights, listed, shared, local, outages>>

ListActiveTokens(p) ==
  /\ ~listed[p].busy
  /\ listed' = [listed EXCEPT ![p] =
       [busy |-> TRUE,
        records |-> [t \in TenantTokens |-> IF t \in expired THEN "gone" ELSE rights[t]]]]
  /\ UNCHANGED <<rights, expired, shared, local, edits, outages>>

\* Mutant: an empty set is not worth a publication.
SkipEmpty(records) == IF records = NoRecords THEN shared ELSE records

\* The staging hash is renamed over the old one, empty or not.
Replaced(records) == records

PublishTokens(p) ==
  /\ listed[p].busy
  /\ \/ shared' = Replaced(listed[p].records) /\ UNCHANGED outages
     \/ Outage /\ UNCHANGED shared
  /\ listed' = [listed EXCEPT ![p] = Idle]
  /\ UNCHANGED <<rights, expired, local, edits>>

\* A failed refresh keeps the last set.
Refresh ==
  /\ \/ local' = shared /\ UNCHANGED outages
     \/ Outage /\ UNCHANGED local
  /\ <<local', outages'>> # <<local, outages>>
  /\ UNCHANGED <<rights, expired, listed, shared, edits>>

AccessNext ==
  \/ \E t \in TenantTokens : Expire(t) \/ \E r \in Rights : SetRights(t, r)
  \/ \E p \in Publishers : ListActiveTokens(p) \/ PublishTokens(p)
  \/ Refresh

\* The token tickers of control and of the gateway.
AccessFairness ==
  /\ \A p \in Publishers :
       WF_accessVars(ListActiveTokens(p) \/ PublishTokens(p))
  /\ WF_accessVars(Refresh)

AccessSpec == AccessInit /\ [][AccessNext]_accessVars /\ AccessFairness

\* Authenticate, then the billing check of the middleware.
Answer(t) ==
  IF local[t] = "gone" \/ t \in expired THEN 401
  ELSE IF local[t] = "blocked" THEN 402 ELSE 200

\* The answer the database calls for.
DueAnswer(t) ==
  IF rights[t] = "gone" \/ t \in expired THEN 401
  ELSE IF rights[t] = "blocked" THEN 402 ELSE 200

\* A revocation, a new token and a wallet that ran dry or was topped up all get
\* to the gateway, although two control processes overwrite each other's sets
\* without comparing them and either side's calls may fail.
AccessReaches ==
  \A t \in TenantTokens : Answer(t) # DueAnswer(t) ~> Answer(t) = DueAnswer(t)
=============================================================================
