----------------------------- MODULE MCGateway -----------------------------
(***************************************************************************)
(* The gateway for TLC.  Two requests of one tenant, the second streamed,  *)
(* and two accounts on one outbound path.  A behaviour is about one part:  *)
(*                                                                         *)
(*   slots      requests, counters that expire, Redis calls that fail      *)
(*   snapshots  requests, a bucket that is republished and removed,        *)
(*              credentials that are replaced                              *)
(*   paths      requests, outbound paths that reject                       *)
(*   streams    the drain of one streamed answer after another             *)
(***************************************************************************)
EXTENDS Handlers, StreamDrain

VARIABLE part

MCPath == [a \in Pool |-> "direct"]
MCLimits == [k \in Keys |-> IF k = Tenant THEN 2 ELSE 1]

vars == <<handlerVars, streamVars, part>>

Init ==
  /\ HandlersInit
  /\ part \in {"slots", "snapshots", "paths", "streams"}
  /\ IF part = "streams" THEN StreamInit
       ELSE StreamInit /\ source = "chat" /\ target = "chat"

NoRejection == \A r \in Requests : outcome'[r] # "transport"

SlotsNext == part = "slots" /\ (RequestNext \/ LimiterNext) /\ NoRejection

\* In the part "snapshots" the bucket has one account that is ever eligible.
Alone == CHOOSE a \in Pool : TRUE
OnlyOne ==
  /\ \A r \in Requests : ToSet(tried'[r]) \subseteq {Alone}
  /\ \A a \in Pool \ {Alone} : published'[a] = published[a]

SnapshotsNext ==
  /\ part = "snapshots"
  /\ RequestNext \/ ChooserNext
  /\ NoRejection /\ OnlyOne /\ faults' = faults

PathsNext ==
  /\ part = "paths"
  /\ RequestNext \/ ChooserNext
  /\ newEpoch' = newEpoch /\ registered' = registered /\ faults' = faults

Next ==
  /\ UNCHANGED part
  /\ \/ (SlotsNext \/ SnapshotsNext \/ PathsNext) /\ UNCHANGED streamVars
     \/ part = "streams" /\ StreamNext /\ UNCHANGED handlerVars

\* HandlersFairness, in the part where the tickers run.
Fairness ==
  /\ WF_vars(part = "snapshots" /\ Republish /\ UNCHANGED <<streamVars, part>>)
  /\ WF_vars(part = "snapshots" /\ Reload /\ UNCHANGED <<streamVars, part>>)

Spec == Init /\ [][Next]_vars /\ Fairness
=============================================================================
