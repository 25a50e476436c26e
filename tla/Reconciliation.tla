--------------------------- MODULE Reconciliation ---------------------------
(***************************************************************************)
(* The three-way reconciliation of internal/control/billing_reconcile.go   *)
(* over the state of module Billing: usage ledger, billing runs and wallet *)
(* journal.  It reads one repeatable-read snapshot and writes nothing, so  *)
(* it is a state function: what it would report if it ran now, with a      *)
(* window that holds every row.                                            *)
(***************************************************************************)
EXTENDS Billing, Functions

\* Rows billed for tenant t under run i, and their sum, which skips NULLs
\* (runLedgerTotals).
RunRows(t, i) == {r \in Releases : /\ ledger[r].state = "billed" /\ ledger[r].amount # NoAmount
                                   /\ Usage[r].tenant = t /\ ledger[r].run = i}

RowAmount == [r \in Releases |-> ledger[r].amount]

RunLedgerTotal(t, i) == SumFunctionOnSet(RowAmount, RunRows(t, i))

\* The amounts in the journal of t, and their sum over the positions K.
Moved(t) == [k \in DOMAIN journal[t] |-> journal[t][k].amount]

SumJournal(t, K) == SumFunctionOnSet(Moved(t), K)

Debits(t) == {k \in DOMAIN journal[t] : journal[t][k].kind = "debit"}

\* runWalletDebits: the debits of a run, as a positive amount.
RunWalletDebit(t, i) == -SumJournal(t, {k \in Debits(t) : journal[t][k].run = i})

JournalSum(t) == SumJournal(t, DOMAIN journal[t])

Rows == {r \in Releases : ledger[r].state # "absent"}
BilledRows == {r \in Rows : ledger[r].state = "billed"}
Amounts == {r \in BilledRows : ledger[r].amount # NoAmount}

\* The run/tenant pairs that Run compares.
Runs == {<<Usage[r].tenant, ledger[r].run>> : r \in {r \in Amounts : ledger[r].run # NoRun}}

Unequal == {x \in Runs : RunLedgerTotal(x[1], x[2]) # RunWalletDebit(x[1], x[2])}

\* Everything Run would report, by kind.
Discrepancies ==
  [billed_row_without_amount |-> BilledRows \ Amounts,
   billed_row_without_run    |-> {r \in Amounts : ledger[r].run = NoRun},
   amount_on_unsettled_row   |-> {r \in Rows \ BilledRows : ledger[r].amount # NoAmount},
   run_debit_mismatch        |-> {x \in Unequal : x[1] \in wallets},
   missing_wallet            |-> {x \in Unequal : x[1] \notin wallets},
   wallet_balance_drift      |-> {t \in {Usage[r].tenant : r \in Rows} :
                                    t \in wallets /\ balance[t] # JournalSum(t)}]

-----------------------------------------------------------------------------

\* The books always balance: at no instant does the reconciliation report
\* anything, whatever runs, rulings, top-ups and failures are under way.
BooksBalance == \A kind \in DOMAIN Discrepancies : Discrepancies[kind] = {}

\* Money is conserved end to end: what a tenant was charged is exactly the sum
\* of its billed rows, so its balance is what operators moved less that sum.
\* A row charged twice or a debit without its rows breaks it.
MoneyConserved ==
  \A t \in Tenants :
    balance[t] = SumJournal(t, DOMAIN journal[t] \ Debits(t))
                 - SumFunctionOnSet(RowAmount, {r \in BilledRows : Usage[r].tenant = t})
=============================================================================
