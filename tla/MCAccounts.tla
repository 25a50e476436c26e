----------------------------- MODULE MCAccounts -----------------------------
(***************************************************************************)
(* Three components of control that share no state here, checked side by   *)
(* side.  A behaviour is about one part, and the others stand still:       *)
(*                                                                         *)
(*   credentials  Credentials, while the provider's quota does not change  *)
(*   quotas       Credentials with all quotas, and at most one event       *)
(*   health       AccountHealth                                            *)
(*   tokens       TokenAccess                                              *)
(***************************************************************************)
EXTENDS Credentials, AccountHealth, TokenAccess

VARIABLE part

TypeOK == CredTypeOK /\ HealthTypeOK /\ AccessTypeOK

Init ==
  /\ part \in {"credentials", "quotas", "health", "tokens"}
  /\ CredInit
  /\ HealthInit
  /\ AccessInit

OneQuota == \A c \in Controls : got'[c] \in {quota, Absent}
OneEvent == events' <= 1

OnAccount == part \in {"credentials", "quotas"}

AccountNext ==
  /\ CredNext
  /\ \/ part = "credentials" /\ OneQuota
     \/ part = "quotas" /\ OneEvent

Next ==
  /\ UNCHANGED part
  /\ \/ AccountNext /\ UNCHANGED <<healthVars, accessVars>>
     \/ part = "health" /\ HealthNext /\ UNCHANGED <<credVars, accessVars>>
     \/ part = "tokens" /\ AccessNext /\ UNCHANGED <<credVars, healthVars>>

vars == <<credVars, healthVars, accessVars, part>>

\* CredFairness and AccessFairness, of the part that runs.
Fairness ==
  /\ \A c \in Controls :
       /\ WF_vars(OnAccount /\ CredStep(c) /\ UNCHANGED <<healthVars, accessVars, part>>)
       /\ SF_vars(OnAccount /\ ListSnapshotAccounts(c) /\ UNCHANGED <<healthVars, accessVars, part>>)
  /\ \A p \in Publishers :
       WF_vars(part = "tokens" /\ (ListActiveTokens(p) \/ PublishTokens(p)) /\ UNCHANGED <<credVars, healthVars, part>>)
  /\ WF_vars(part = "tokens" /\ Refresh /\ UNCHANGED <<credVars, healthVars, part>>)

Spec == Init /\ [][Next]_vars /\ Fairness
=============================================================================
