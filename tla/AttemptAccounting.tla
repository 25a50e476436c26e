------------------------- MODULE AttemptAccounting -------------------------
(***************************************************************************)
(* What the metering pipeline promises about one upstream attempt, with no *)
(* stream, consumer or transaction in sight: an attempt becomes known      *)
(* once, is closed once, either by the gateway's own release (metered) or  *)
(* by the reconciler (reconciled), and the account it used is judged       *)
(* exactly once, and only by a release the gateway really sent.            *)
(***************************************************************************)
EXTENDS Naturals

CONSTANT Attempts

VARIABLES account,  \* account[a]: where attempt a stands in the books
          judged    \* judged[a]: how often a's outcome was applied to its account

vars == <<account, judged>>

AccountState == {"unseen", "open", "metered", "reconciled"}

Init == /\ account = [a \in Attempts |-> "unseen"]
        /\ judged  = [a \in Attempts |-> 0]

Open(a) == /\ account[a] = "unseen"
           /\ account' = [account EXCEPT ![a] = "open"]
           /\ UNCHANGED judged

Meter(a) == /\ account[a] = "open"
            /\ account' = [account EXCEPT ![a] = "metered"]
            /\ judged'  = [judged EXCEPT ![a] = @ + 1]

\* The reconciler closes any set of open attempts in one transaction.
Reconcile(S) == /\ S # {}
                /\ \A a \in S : account[a] = "open"
                /\ account' = [a \in Attempts |->
                                 IF a \in S THEN "reconciled" ELSE account[a]]
                /\ UNCHANGED judged

Next == \/ \E a \in Attempts : Open(a) \/ Meter(a)
        \/ \E S \in SUBSET Attempts : Reconcile(S)

Spec == Init /\ [][Next]_vars

\* Every known attempt is closed in the end.
Close(a) == Meter(a) \/ \E S \in SUBSET Attempts : a \in S /\ Reconcile(S)

FairSpec == Spec /\ \A a \in Attempts : WF_vars(Close(a))
=============================================================================
