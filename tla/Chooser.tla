------------------------------ MODULE Chooser ------------------------------
(***************************************************************************)
(* The gateway's choice of an account and what it remembers of failures.   *)
(*                                                                         *)
(*   internal/gateway/chooser.go   Chooser                                 *)
(*   internal/gateway/run.go       BucketLoader.RefreshAll                 *)
(*                                                                         *)
(* One bucket and one model.  Of an account in a snapshot the model keeps  *)
(* the version of its credential; what else rules an account out (status,  *)
(* quota, models, expiry, a stale bucket) may rule out any account at any  *)
(* time.  A cooldown elapses some time, one of 365 days does not.          *)
(***************************************************************************)
EXTENDS Naturals, FiniteSets

CONSTANTS
  Pool,         \* accounts of the bucket
  Path,         \* Path[a]: egressKey, the outbound path of account a
  MaxChanges    \* bound: imports, and removals of the bucket

VARIABLES
  published,   \* published[a]: credential version in the active snapshot
  registered,  \* the bucket is in the registry
  newEpoch,    \* the active snapshot's epoch is not the installed one
  installed,   \* installed[a]: credential version, 0: the account is not there
  cooling,     \* cooling[a]
  seen,        \* egressSeen: accounts rejected on their path within the window
  tripped,     \* paths that are short-circuited
  changes

chooserVars == <<published, registered, newEpoch, installed, cooling, seen, tripped, changes>>

\* Entry of cooling: how long, the version MarkFailure read, and the version
\* whose call failed.
NoCooldown == [until |-> "past", version |-> 0, cause |-> 0]

ChooserInit ==
  /\ published = [a \in Pool |-> 1]
  /\ registered = TRUE
  /\ newEpoch = FALSE
  /\ installed = published
  /\ cooling = [a \in Pool |-> NoCooldown]
  /\ seen = {}
  /\ tripped = {}
  /\ changes = 0

Change == changes < MaxChanges /\ changes' = changes + 1

(***************************************************************************)
(* Control publishes, the gateway polls.                                   *)
(***************************************************************************)

\* The snapshot loop: a new epoch whether anything has changed or not.
Publish ==
  /\ ~newEpoch \/ ~registered
  /\ newEpoch' = TRUE
  /\ registered' = TRUE
  /\ UNCHANGED <<published, installed, cooling, seen, tripped, changes>>

\* A new credential of the account, and its publication.
PublishCredential(a) ==
  /\ Change
  /\ published' = [published EXCEPT ![a] = @ + 1]
  /\ newEpoch' = TRUE
  /\ registered' = TRUE
  /\ UNCHANGED <<installed, cooling, seen, tripped>>

Emptied == [a \in Pool |-> 0]

\* The last account of the bucket is deleted: an empty snapshot, which the
\* gateway may install, and then the bucket leaves the registry.
Unregister ==
  /\ registered
  /\ Change
  /\ registered' = FALSE
  /\ \/ UNCHANGED <<installed, cooling>>
     \/ /\ installed' = Emptied
        /\ cooling' = [a \in Pool |-> IF installed[a] # 0 THEN NoCooldown ELSE cooling[a]]
  /\ UNCHANGED <<published, newEpoch, seen, tripped>>

\* Mutant: cooldowns are kept over an epoch.
EpochClearsNone(a) == FALSE

\* Another epoch than that of the bucket installed before.
EpochClears(a) == newEpoch /\ installed[a] # 0

ReplaceBucket ==
  /\ registered
  /\ newEpoch \/ installed # published
  /\ installed' = published
  /\ newEpoch' = FALSE
  /\ cooling' = [a \in Pool |->
       IF EpochClears(a) \/ cooling[a].version # published[a] THEN NoCooldown ELSE cooling[a]]
  /\ UNCHANGED <<published, registered, seen, tripped, changes>>

\* What is remembered of the accounts stays.
RemoveBucket ==
  /\ ~registered
  /\ installed' = Emptied
  /\ installed' # installed
  /\ UNCHANGED <<published, registered, newEpoch, cooling, seen, tripped, changes>>

(***************************************************************************)
(* Choosing and marking.                                                   *)
(***************************************************************************)

\* The accounts AcquirePreferring may return; the pin of the session decides
\* which, and the snapshot may rule out any of them.
Eligible(excluded) ==
  {a \in Pool \ excluded :
     installed[a] # 0 /\ cooling[a].until = "past" /\ Path[a] \notin tripped}

\* MarkFailure looks up the version again: it may be newer than the one of the
\* lease.  A cooldown replaces a longer one, and a duration of 0 ends it.
MarkFailure(a, cause, until) ==
  /\ cooling' = [cooling EXCEPT ![a] =
       IF until = "past" THEN NoCooldown
       ELSE [until |-> until, version |-> installed[a], cause |-> cause]]
  /\ UNCHANGED <<published, registered, newEpoch, installed, seen, tripped, changes>>

\* Two accounts rejected on one path within the window.
MarkEgressRejected(a) ==
  /\ seen' = seen \cup {a}
  /\ tripped' = IF Cardinality({b \in seen' : Path[b] = Path[a]}) >= 2
                  THEN tripped \cup {Path[a]} ELSE tripped
  /\ UNCHANGED <<published, registered, newEpoch, installed, cooling, changes>>

\* A cooldown, the window of a rejection or a short circuit is over.
Elapse ==
  /\ \/ /\ \E a \in Pool : /\ cooling[a].until = "soon"
                           /\ cooling' = [cooling EXCEPT ![a] = NoCooldown]
        /\ UNCHANGED <<seen, tripped>>
     \/ \E a \in seen : seen' = seen \ {a} /\ UNCHANGED <<cooling, tripped>>
     \/ \E p \in tripped : tripped' = tripped \ {p} /\ UNCHANGED <<cooling, seen>>
  /\ UNCHANGED <<published, registered, newEpoch, installed, changes>>

\* A cooldown that holds an account back for what a credential did that has
\* been replaced.
Wronged(a) ==
  /\ installed[a] # 0
  /\ cooling[a].until # "past"
  /\ cooling[a].cause # installed[a]

\* No account is locked out for the failures of a credential it no longer has,
\* although MarkFailure may put the failure of the old credential, even for 365
\* days, on the new one that was installed while the call ran.
NoLockout == (\E a \in Pool : Wronged(a)) ~> (\A a \in Pool : ~Wronged(a))
=============================================================================
