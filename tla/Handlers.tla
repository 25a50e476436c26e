------------------------------ MODULE Handlers ------------------------------
(***************************************************************************)
(* Requests on their way through the gateway.                              *)
(*                                                                         *)
(*   internal/gateway/server.go   handleNonStreaming, callUpstream,        *)
(*                                handleProtocolStreaming and the release  *)
(*   internal/gateway/sticky.go   Sticky                                   *)
(*                                                                         *)
(* A request that is not streamed has two attempts, with two accounts.  A  *)
(* streamed one has one attempt, and has told the client 200 before it     *)
(* knows how the attempt ends.                                             *)
(***************************************************************************)
EXTENDS Limiter, Chooser, SequencesExt

CONSTANTS
  Tenant,     \* all requests are of one tenant
  Streams     \* requests with stream: true

ASSUME KeysAssumption == Keys = Pool \cup {Tenant} /\ Tenant \notin Pool

VARIABLES
  pc,        \* pc[r]: the next call of request r
  tried,     \* tried[r]: attemptedAccounts, in order
  version,   \* version[r]: of the leased credential
  outcome,   \* outcome[r]: how the call of the upstream ended
  records,   \* records[r]: releases of the attempts, in order
  doubt,     \* doubt[r]: the write of a release has failed
  answer     \* answer[r]: status

requestVars == <<pc, tried, version, outcome, records, doubt, answer>>

\* "unauthorized" is 401 with a static credential, "retry" is 401, 429 and 5xx,
\* "transport" 403 with HTML, "denied" another 403, "rejected" another 4xx;
\* "nousage" is an answer without usage of a provider that must report it.
Outcomes == {"ok", "nousage", "network", "unauthorized", "retry", "transport",
             "denied", "rejected"}
StreamOutcomes == {"ok", "broken"} \cup (Outcomes \ {"nousage", "unauthorized"})

Pending == "none"   \* no outcome or answer yet

RequestsInit ==
  /\ pc = [r \in Requests |-> "new"]
  /\ tried = [r \in Requests |-> <<>>]
  /\ version = [r \in Requests |-> 0]
  /\ outcome = [r \in Requests |-> Pending]
  /\ records = [r \in Requests |-> <<>>]
  /\ doubt = [r \in Requests |-> FALSE]
  /\ answer = [r \in Requests |-> Pending]

At(r, l) == pc[r] = l
Goto(r, l) == pc' = [pc EXCEPT ![r] = l]

\* The handler has its answer and goes on to its deferred calls.
Return(r, status, l) ==
  /\ answer' = [answer EXCEPT ![r] = status]
  /\ Goto(r, l)

\* The lease and the result of an attempt that is over.
Forget(r) ==
  /\ version' = [version EXCEPT ![r] = 0]
  /\ outcome' = [outcome EXCEPT ![r] = Pending]

\* AcquireTenant; an error of any kind is answered with 429.
AcquireTenant(r) ==
  /\ At(r, "new")
  /\ \/ Grant(Tenant, r) /\ Goto(r, "choose")
     \/ Refuse(Tenant) /\ Goto(r, "new")
     \/ Unreachable(Tenant) /\ Goto(r, "new")
  /\ UNCHANGED <<chooserVars, tried, version, outcome, records, doubt, answer>>

Account(r) == Last(tried[r])

\* AcquirePreferring, which excludes the accounts tried before; the second time
\* its error gives way to the answer of the first attempt.
Choose(r) ==
  /\ At(r, "choose")
  /\ \/ \E a \in Eligible(ToSet(tried[r])) :
          /\ tried' = [tried EXCEPT ![r] = Append(@, a)]
          /\ version' = [version EXCEPT ![r] = installed[a]]
          /\ Goto(r, "limit")
          /\ UNCHANGED answer
     \/ /\ \E status \in IF tried[r] = <<>> THEN {"429", "503"} ELSE {"upstream"} :
             Return(r, status, "leave")
        /\ UNCHANGED <<tried, version>>
  /\ UNCHANGED <<limiterVars, chooserVars, outcome, records, doubt>>

\* The account's limit; 429 again, on a second attempt too.  A streamed request
\* is rendered for the account before, which may fail.
AcquireAccount(r) ==
  /\ At(r, "limit")
  /\ \/ Grant(Account(r), r) /\ Goto(r, "call") /\ UNCHANGED answer
     \/ r \in Streams /\ Return(r, "400", "leave") /\ UNCHANGED limiterVars
     \/ Refuse(Account(r)) /\ Return(r, "429", "leave")
     \/ /\ Unreachable(Account(r))
        /\ IF MayPass(Account(r)) THEN Goto(r, "call") /\ UNCHANGED answer
             ELSE Return(r, "429", "leave")
  /\ UNCHANGED <<chooserVars, tried, version, outcome, records, doubt>>

\* attempt_started is written before anything is sent.  A stream that breaks has
\* begun with 200.
CallUpstream(r) ==
  /\ At(r, "call")
  /\ \/ /\ \E o \in IF r \in Streams THEN StreamOutcomes ELSE Outcomes :
             outcome' = [outcome EXCEPT ![r] = o]
        /\ Goto(r, "record")
        /\ UNCHANGED <<answer, faults>>
     \/ Fault /\ Return(r, "503", "free") /\ UNCHANGED outcome
  /\ UNCHANGED <<count, holders, lapsed, chooserVars, tried, version, records, doubt>>

\* Mutant: an attempt that was abandoned for want of usage is recorded as ok.
RecordedServed(o) == IF o \in {"ok", "nousage"} THEN "ok" ELSE "failed"

\* error_class of the release.
ErrorClass(o) == IF o = "ok" THEN "ok" ELSE "failed"

Sent200(r) == r \in Streams /\ outcome[r] \in {"ok", "broken"}

\* The write of the release outlives the request's context; when it fails the
\* release may have been written all the same.
WriteRelease(r) ==
  /\ At(r, "record")
  /\ LET written == [records EXCEPT ![r] = Append(@, ErrorClass(outcome[r]))]
     IN \/ /\ records' = written
           /\ Goto(r, IF r \in Streams THEN "mark" ELSE "free")
           /\ UNCHANGED <<version, outcome, doubt, answer, faults>>
        \/ /\ Fault
           /\ records' \in {records, written}
           /\ doubt' = [doubt EXCEPT ![r] = TRUE]
           /\ Return(r, IF Sent200(r) THEN "200" ELSE "503", "free")
           /\ Forget(r)
  /\ UNCHANGED <<count, holders, lapsed, chooserVars, tried>>

\* releaseLimiter: called after the release is written, or deferred.
FreeAccount(r) ==
  /\ At(r, "free")
  /\ Release(Account(r), r)
  /\ Goto(r, IF answer[r] = Pending THEN "mark" ELSE "leave")
  /\ UNCHANGED <<chooserVars, tried, version, outcome, records, doubt, answer>>

\* How long the outcome cools the account; "denied" has no duration unless the
\* upstream names one.
Cooldowns(o) ==
  CASE o = "unauthorized" -> {"year"}
    [] o = "denied" -> {"past", "soon"}
    [] OTHER -> {"soon"}

\* classifyHTTPWithReset and markTransportOrAccount.
MarkOutcome(r) ==
  CASE outcome[r] \in {"ok", "nousage", "network", "broken"} -> UNCHANGED chooserVars
    [] outcome[r] = "transport" -> MarkEgressRejected(Account(r))
    [] OTHER -> \E until \in Cooldowns(outcome[r]) : MarkFailure(Account(r), version[r], until)

\* shouldFailoverStatus, and the integrity policy; the network is not retried.
FailsOver(r) ==
  /\ outcome[r] \notin {"ok", "network", "rejected"}
  /\ r \notin Streams
  /\ Len(tried[r]) < 2

Status(r) ==
  CASE outcome[r] = "ok" \/ Sent200(r) -> "200"
    [] outcome[r] \in {"network", "nousage"} -> "502"
    [] OTHER -> "upstream"

\* The failure is marked before another account is chosen.
Mark(r) ==
  /\ At(r, "mark")
  /\ MarkOutcome(r)
  /\ IF FailsOver(r) THEN Goto(r, "choose") /\ UNCHANGED answer
       ELSE Return(r, Status(r), IF r \in Streams THEN "free" ELSE "leave")
  /\ Forget(r)
  /\ UNCHANGED <<limiterVars, tried, records, doubt>>

\* The deferred release of the tenant's slot; nothing is left of the request.
FreeTenant(r) ==
  /\ At(r, "leave")
  /\ Release(Tenant, r)
  /\ Goto(r, "new")
  /\ tried' = [tried EXCEPT ![r] = <<>>]
  /\ Forget(r)
  /\ records' = [records EXCEPT ![r] = <<>>]
  /\ doubt' = [doubt EXCEPT ![r] = FALSE]
  /\ answer' = [answer EXCEPT ![r] = Pending]
  /\ UNCHANGED chooserVars

RequestStep(r) ==
  \/ AcquireTenant(r) \/ Choose(r) \/ AcquireAccount(r)
  \/ CallUpstream(r) \/ WriteRelease(r) \/ FreeAccount(r) \/ Mark(r) \/ FreeTenant(r)

handlerVars == <<limiterVars, chooserVars, requestVars>>

HandlersInit == LimiterInit /\ ChooserInit /\ RequestsInit

RequestNext == \E r \in Requests : RequestStep(r)

LimiterNext == (\E k \in Keys : KeyExpires(k)) /\ UNCHANGED <<chooserVars, requestVars>>

\* BucketLoader.RefreshAll, every five seconds.
Reload == (ReplaceBucket \/ RemoveBucket) /\ UNCHANGED <<limiterVars, requestVars>>

Republish == Publish /\ UNCHANGED <<limiterVars, requestVars>>

ChooserNext ==
  \/ Reload \/ Republish
  \/ /\ Unregister \/ Elapse \/ \E a \in Pool : PublishCredential(a)
     /\ UNCHANGED <<limiterVars, requestVars>>

HandlersNext == RequestNext \/ LimiterNext \/ ChooserNext

\* The snapshot tickers of control and of the gateway.
HandlersFairness == WF_handlerVars(Republish) /\ WF_handlerVars(Reload)

HandlersSpec == HandlersInit /\ [][HandlersNext]_handlerVars /\ HandlersFairness

\* What the client is told and what was recorded for it agree when the handler
\* returns: no attempt but the last is recorded as served, the last one is when a
\* request that is not streamed is answered, and a record of having been served
\* comes with the answer, unless the write of the record was in doubt.
AnsweredAsRecorded ==
  \A r \in Requests : At(r, "leave") =>
    /\ \A i \in DOMAIN records[r] : records[r][i] = "ok" => i = Len(tried[r])
    /\ answer[r] = "200" /\ r \notin Streams => "ok" \in ToSet(records[r])
    /\ "ok" \in ToSet(records[r]) => answer[r] = "200" \/ doubt[r]
=============================================================================
