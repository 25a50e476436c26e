---------------------------- MODULE WrapperJobs ----------------------------
(***************************************************************************)
(* What the wrapper promises its caller: a job ends at most once, for      *)
(* good, and whoever asked for it is told how it ended or gives up.        *)
(***************************************************************************)
EXTENDS Naturals

CONSTANTS Jobs, Outcomes

VARIABLES status, answer

Init ==
  /\ status = [j \in Jobs |-> "new"]
  /\ answer = [j \in Jobs |-> "none"]

Submit(j) ==
  /\ status[j] = "new"
  /\ status' = [status EXCEPT ![j] = "queued"]
  /\ UNCHANGED answer

Finish(j, end) ==
  /\ status[j] = "queued"
  /\ status' = [status EXCEPT ![j] = end]
  /\ UNCHANGED answer

Answer(j) ==
  /\ answer[j] = "none"
  /\ \/ status[j] \in Outcomes /\ answer' = [answer EXCEPT ![j] = status[j]]
     \/ status[j] # "new" /\ answer' = [answer EXCEPT ![j] = "gave up"]
  /\ UNCHANGED status

Next ==
  \E j \in Jobs : Submit(j) \/ Answer(j) \/ \E end \in Outcomes \cup {"dead"} : Finish(j, end)

Spec == Init /\ [][Next]_<<status, answer>>
=============================================================================
