------------------------------- MODULE Billing -------------------------------
(***************************************************************************)
(* The deduction job over the usage ledger, with the price table it reads, *)
(* the wallets it debits (module Wallet) and the operator's ruling on rows *)
(* the policy holds.                                                       *)
(*                                                                         *)
(*   internal/control/billing_job.go     RunOnce, settleTenant             *)
(*   internal/control/billing_policy.go  usageDispositions                 *)
(*   internal/control/billing.go         InsertModelPrice, priceAt         *)
(*   internal/control/console_held.go    resolveHeld                       *)
(*                                                                         *)
(* Several control processes may run the job at once.  A settlement holds  *)
(* FOR UPDATE locks on its rows: `rows` is both what it works on and what  *)
(* it has locked.  billing_runs is written and never read, so of a run     *)
(* only its ID is kept; an ID is fresh when nothing bears it.              *)
(***************************************************************************)
EXTENDS Wallet, FiniteSets

CONSTANTS
  Controls,     \* control processes
  Models,       \* (provider, model) pairs
  Units,        \* unit prices
  UnitScale,    \* tokens one unit price covers
  Releases,     \* usage events
  Usage,        \* Usage[r]: what the event of row r says
  MaxTime,      \* bound: the clock
  MaxPrices,    \* bound: price inserts
  PromptInsert  \* TRUE: a price INSERT commits before its effective_from

UsageClass == [source : {"upstream", "estimated", "missing", "other"},
               partial : BOOLEAN, succeeded : BOOLEAN]

ASSUME UsageAssumption ==
  Usage \in [Releases -> [tenant : Tenants, model : Models, class : UsageClass, tokens : Nat]]
ASSUME PriceAssumption == Units \subseteq Nat /\ UnitScale \in Nat \ {0}
ASSUME TimeAssumption == MaxTime \in Nat /\ MaxPrices \in Nat
ASSUME PromptAssumption == PromptInsert \in BOOLEAN

VARIABLES
  clock,
  prices,      \* model_prices
  inserting,   \* prices that passed the check of InsertModelPrice
  ledger,      \* the billing columns of usage_ledger
  resolution,  \* billing_resolutions: outcome of the ruling on a row
  pc,          \* pc[c]: where the job of control c is
  run,         \* run[c]: its run ID
  windowEnd,   \* windowEnd[c]
  queue,       \* queue[c]: tenants still to settle
  found,       \* found[c]: rows the snapshot of selectBillableRows saw
  rows,        \* rows[c]: rows locked and in settlement
  left,        \* left[c]: rows not priced yet
  quote,       \* quote[c][r]: the amount of row r, NoAmount when unpriced
  debited      \* debited[c]: sum of the amounts so far

priceVars == <<clock, prices, inserting>>
rowVars   == <<ledger, resolution>>
jobVars   == <<pc, run, windowEnd, queue, found, rows, left, quote, debited>>
vars == <<walletVars, callVars, faults, priceVars, rowVars, jobVars>>

NoAmount == -1

Price == [model : Models, from : 1 .. MaxTime, unit : Units]
BillingState == {"absent", "pending", "billed", "unpriced", "held", "not_billable"}
Row == [state : BillingState, at : 0 .. MaxTime, amount : Nat \cup {NoAmount},
        run : RunIds \cup {NoRun}]

TypeOK ==
  /\ WalletTypeOK
  /\ clock \in 0 .. MaxTime
  /\ prices \subseteq Price
  /\ inserting \subseteq Price
  /\ ledger \in [Releases -> Row]
  /\ resolution \in [Releases -> {"none", "billed", "unpriced", "not_billable"}]
  /\ pc \in [Controls -> {"idle", "list", "next", "lock", "price"}]
  /\ run \in [Controls -> RunIds \cup {NoRun}]
  /\ windowEnd \in [Controls -> 0 .. MaxTime]
  /\ queue \in [Controls -> SUBSET Tenants]
  /\ found \in [Controls -> SUBSET Releases]
  /\ rows \in [Controls -> SUBSET Releases]
  /\ left \in [Controls -> SUBSET Releases]
  /\ quote \in [Controls -> [Releases -> Nat \cup {NoAmount}]]
  /\ debited \in [Controls -> Nat]

LedgerRow(state, at, amount, runID) ==
  [state |-> state, at |-> at, amount |-> amount, run |-> runID]

Init ==
  /\ WalletInit
  /\ clock = 0
  /\ prices = {}
  /\ inserting = {}
  /\ ledger = [r \in Releases |-> LedgerRow("absent", 0, NoAmount, NoRun)]
  /\ resolution = [r \in Releases |-> "none"]
  /\ pc = [c \in Controls |-> "idle"]
  /\ run = [c \in Controls |-> NoRun]
  /\ windowEnd = [c \in Controls |-> 0]
  /\ queue = [c \in Controls |-> {}]
  /\ found = [c \in Controls |-> {}]
  /\ rows = [c \in Controls |-> {}]
  /\ left = [c \in Controls |-> {}]
  /\ quote = [c \in Controls |-> [r \in Releases |-> NoAmount]]
  /\ debited = [c \in Controls |-> 0]

Tick ==
  /\ clock < MaxTime
  /\ clock' = clock + 1
  /\ UNCHANGED <<walletVars, callVars, faults, prices, inserting, rowVars, jobVars>>

(***************************************************************************)
(* Prices.                                                                 *)
(***************************************************************************)

\* InsertModelPrice compares effective_from with the time of the request ...
CheckPrice(m, from, unit) ==
  /\ from > clock
  /\ Cardinality(prices) + Cardinality(inserting) < MaxPrices
  /\ inserting' = inserting \cup {[model |-> m, from |-> from, unit |-> unit]}
  /\ UNCHANGED <<walletVars, callVars, faults, clock, prices, rowVars, jobVars>>

SameInstant(p) == \E o \in prices : o.model = p.model /\ o.from = p.from

\* ... and the INSERT lands some time later, unless the instant is taken.
InsertModelPrice(p) ==
  /\ p \in inserting
  /\ PromptInsert => clock < p.from
  /\ ~SameInstant(p)
  /\ prices' = prices \cup {p}
  /\ inserting' = inserting \ {p}
  /\ UNCHANGED <<walletVars, callVars, faults, clock, rowVars, jobVars>>

\* The request is refused by the unique key or runs out of time.
DropPrice(p) ==
  /\ p \in inserting
  /\ inserting' = inserting \ {p}
  /\ UNCHANGED <<walletVars, callVars, faults, clock, prices, rowVars, jobVars>>

\* Mutant: the price in effect when the job runs.
EffectiveNow(m, at) == {p \in prices : p.model = m /\ p.from <= clock}

InEffect(m, at) == {p \in prices : p.model = m /\ p.from <= at}

\* lineAmount, rounded to the money scale half away from zero.
LineAmount(tokens, unit) == (2 * tokens * unit + UnitScale) \div (2 * UnitScale)

\* ORDER BY effective_from DESC LIMIT 1
Latest(S) == CHOOSE p \in S : \A o \in S : o.from <= p.from

\* priceAt and lineAmount for a row: the latest price in effect when the
\* request happened, NoAmount when there was none.
AmountOf(r, at) ==
  LET in == InEffect(Usage[r].model, at)
  IN  IF in = {} THEN NoAmount ELSE LineAmount(Usage[r].tokens, Latest(in).unit)

(***************************************************************************)
(* The usage ledger and the policy.                                        *)
(***************************************************************************)

\* HandleRelease inserts the row, some time after the request happened.
RecordUsage(r) ==
  /\ ledger[r].state = "absent"
  /\ \E at \in 0 .. clock :
       /\ at < MaxTime
       /\ ledger' = [ledger EXCEPT ![r] = LedgerRow("pending", at, NoAmount, NoRun)]
  /\ UNCHANGED <<walletVars, callVars, faults, priceVars, resolution, jobVars>>

\* Mutant: whatever was served is billed.
BillServed(class) == IF class.succeeded THEN "bill" ELSE "not_billable"

\* usageDispositions; a class the table does not know is held.
dispositionFor(class) ==
  CASE class.source = "upstream" -> IF class.succeeded THEN "bill" ELSE "not_billable"
    [] class.source = "missing"  -> IF class.succeeded THEN "hold" ELSE "not_billable"
    [] OTHER -> "hold"

billingStateFor(disposition) == IF disposition = "hold" THEN "held" ELSE "not_billable"

Billable(r) == dispositionFor(Usage[r].class) = "bill"

(***************************************************************************)
(* BillingJob.RunOnce.                                                     *)
(***************************************************************************)

UsedRuns == {run[c] : c \in Controls} \cup {ledger[r].run : r \in Releases}
            \cup UNION {{e.run : e \in Entries(t)} : t \in Tenants}

\* newBillingRunID draws a random ID; which one does not matter.
FreshRun == CHOOSE i \in RunIds \ UsedRuns : TRUE

Goto(c, l) == pc' = [pc EXCEPT ![c] = l]

\* A run begins, unless the price table is empty.
StartRun(c) ==
  /\ pc[c] = "idle"
  /\ prices # {}
  /\ RunIds \ UsedRuns # {}
  /\ run' = [run EXCEPT ![c] = FreshRun]
  /\ windowEnd' = [windowEnd EXCEPT ![c] = clock]
  /\ Goto(c, "list")
  /\ UNCHANGED <<walletVars, callVars, faults, priceVars, rowVars, queue, found, rows, left,
                 quote, debited>>

\* Rows the run may examine.
Eligible(c, t) == {r \in Releases : /\ ledger[r].state = "pending"
                                    /\ Usage[r].tenant = t
                                    /\ ledger[r].at < windowEnd[c]}

pendingTenants(c) ==
  /\ pc[c] = "list"
  /\ queue' = [queue EXCEPT ![c] = {t \in Tenants : Eligible(c, t) # {}}]
  /\ Goto(c, "next")
  /\ UNCHANGED <<walletVars, callVars, faults, priceVars, rowVars, run, windowEnd, found, rows,
                 left, quote, debited>>

\* selectBillableRows: the statement's snapshot is taken ...
SelectRows(c) ==
  /\ pc[c] = "next"
  /\ \E t \in queue[c] :
       /\ found' = [found EXCEPT ![c] = Eligible(c, t)]
       /\ queue' = [queue EXCEPT ![c] = @ \ {t}]
  /\ Goto(c, "lock")
  /\ UNCHANGED <<walletVars, callVars, faults, priceVars, rowVars, run, windowEnd, rows, left,
                 quote, debited>>

\* The WHERE clause is evaluated again on a row that another transaction changed.
StillPending(S) == {r \in S : ledger[r].state = "pending"}

\* Mutant: a select without FOR UPDATE.
NoWait(c) == c \in Controls

\* FOR UPDATE waits until no other settlement holds one of the rows.
Lockable(c) == \A d \in Controls \ {c} : rows[d] \cap found[c] = {}

\* ... and its rows are locked.
LockRows(c) ==
  /\ pc[c] = "lock"
  /\ Lockable(c)
  /\ LET locked == StillPending(found[c]) IN
       /\ rows' = [rows EXCEPT ![c] = locked]
       /\ left' = [left EXCEPT ![c] = {r \in locked : Billable(r)}]
       /\ Goto(c, IF locked = {} THEN "next" ELSE "price")
  /\ found' = [found EXCEPT ![c] = {}]
  /\ UNCHANGED <<walletVars, callVars, faults, priceVars, rowVars, run, windowEnd, queue,
                 quote, debited>>

\* Mutant: an unpriced row is added up like any other.
AccrueAny(sum, amount) == sum + amount

Accrue(sum, amount) == IF amount = NoAmount THEN sum ELSE sum + amount

\* One row is priced at its occurred_at, and its rounded amount added up.
PriceRow(c) ==
  /\ pc[c] = "price"
  /\ \E r \in left[c] :
       LET amount == AmountOf(r, ledger[r].at) IN
         /\ quote' = [quote EXCEPT ![c][r] = amount]
         /\ debited' = [debited EXCEPT ![c] = Accrue(@, amount)]
         /\ left' = [left EXCEPT ![c] = @ \ {r}]
  /\ UNCHANGED <<walletVars, callVars, faults, priceVars, rowVars, pc, run, windowEnd, queue,
                 found, rows>>

\* Mutant: the sum is carried over to the next tenant.
KeepDebited(c) ==
  /\ rows' = [rows EXCEPT ![c] = {}]
  /\ left' = [left EXCEPT ![c] = {}]
  /\ found' = [found EXCEPT ![c] = {}]
  /\ quote' = [quote EXCEPT ![c] = [r \in Releases |-> NoAmount]]
  /\ UNCHANGED debited

\* The settlement transaction of c ends and its locks go.
EndSettlement(c) ==
  /\ rows' = [rows EXCEPT ![c] = {}]
  /\ left' = [left EXCEPT ![c] = {}]
  /\ found' = [found EXCEPT ![c] = {}]
  /\ quote' = [quote EXCEPT ![c] = [r \in Releases |-> NoAmount]]
  /\ debited' = [debited EXCEPT ![c] = 0]

\* RunOnce returns and closeRun records the totals.
EndRun(c) ==
  /\ run' = [run EXCEPT ![c] = NoRun]
  /\ windowEnd' = [windowEnd EXCEPT ![c] = 0]
  /\ queue' = [queue EXCEPT ![c] = {}]
  /\ EndSettlement(c)
  /\ Goto(c, "idle")

TenantOf(c) == Usage[CHOOSE r \in rows[c] : TRUE].tenant

DebitId(c) == [run |-> run[c], tenant |-> TenantOf(c)]

\* Mutant: the debit commits without the marks.
Unmarked(c, r) == ledger[r]

\* The billing columns settleTenant writes for row r.
SettledRow(c, r) ==
  LET state == IF ~Billable(r) THEN billingStateFor(dispositionFor(Usage[r].class))
               ELSE IF quote[c][r] = NoAmount THEN "unpriced" ELSE "billed"
  IN  LedgerRow(state, ledger[r].at, quote[c][r], run[c])

\* The debit and the marks of all rows commit together; a zero total settles
\* the rows without a journal entry.
Settle(c) ==
  /\ pc[c] = "price" /\ left[c] = {}
  /\ \/ debited[c] = 0 /\ UNCHANGED <<balance, journal>>
     \/ /\ MovementAllowed(TenantOf(c), DebitId(c), "debit", -debited[c])
        /\ Move(TenantOf(c), DebitId(c), "debit", -debited[c], run[c])
  /\ ledger' = [r \in Releases |-> IF r \in rows[c] THEN SettledRow(c, r) ELSE ledger[r]]
  /\ EndSettlement(c)
  /\ Goto(c, "next")
  /\ UNCHANGED <<wallets, callVars, faults, priceVars, resolution, run, windowEnd, queue>>

\* Mutant: one tenant without a wallet ends the run.
RefusalEndsRun(c) ==
  /\ pc[c] = "price" /\ left[c] = {}
  /\ debited[c] > 0
  /\ ~MovementAllowed(TenantOf(c), DebitId(c), "debit", -debited[c])
  /\ EndRun(c)
  /\ UNCHANGED <<walletVars, callVars, faults, priceVars, rowVars>>

\* The debit is refused (no wallet): the tenant's rows stay pending.
SettleRefused(c) ==
  /\ pc[c] = "price" /\ left[c] = {}
  /\ debited[c] > 0
  /\ ~MovementAllowed(TenantOf(c), DebitId(c), "debit", -debited[c])
  /\ EndSettlement(c)
  /\ Goto(c, "next")
  /\ UNCHANGED <<walletVars, callVars, faults, priceVars, rowVars, run, windowEnd, queue>>

\* A database error rolls the settlement back; the run goes on to the next tenant.
SettleFails(c) ==
  /\ pc[c] \in {"lock", "price"}
  /\ Fault
  /\ EndSettlement(c)
  /\ Goto(c, "next")
  /\ UNCHANGED <<walletVars, callVars, priceVars, rowVars, run, windowEnd, queue>>

FinishRun(c) ==
  /\ pc[c] = "next" /\ queue[c] = {}
  /\ EndRun(c)
  /\ UNCHANGED <<walletVars, callVars, faults, priceVars, rowVars>>

\* The process dies, or pendingTenants fails: the open transaction is rolled back.
AbandonRun(c) ==
  /\ pc[c] # "idle"
  /\ Fault
  /\ EndRun(c)
  /\ UNCHANGED <<walletVars, callVars, priceVars, rowVars>>

(***************************************************************************)
(* resolveHeld: one transaction under the row's lock.                      *)
(***************************************************************************)

Rule(r, outcome, amount, runID) ==
  /\ ledger' = [ledger EXCEPT ![r] = LedgerRow(outcome, @.at, amount, runID)]
  /\ resolution' = [resolution EXCEPT ![r] = outcome]

\* Mutant: any row without a ruling can be ruled on.
IsRecorded(r) == ledger[r].state # "absent" /\ resolution[r] = "none"

\* The locked row is checked again; billing_resolutions has one row per event.
IsHeld(r) == ledger[r].state = "held" /\ resolution[r] = "none"

WriteOff(r) ==
  /\ IsHeld(r)
  /\ Rule(r, "not_billable", NoAmount, NoRun)
  /\ UNCHANGED <<walletVars, callVars, faults, priceVars, jobVars>>

\* A manual bill is a run of one row.
BillHeld(r) ==
  /\ IsHeld(r)
  /\ RunIds \ UsedRuns # {}
  /\ LET amount == AmountOf(r, ledger[r].at)
         t      == Usage[r].tenant
         id     == [run |-> FreshRun, tenant |-> t]
     IN  \/ /\ amount = NoAmount
            /\ Rule(r, "unpriced", NoAmount, FreshRun)
            /\ UNCHANGED <<balance, journal>>
         \/ /\ amount = 0
            /\ Rule(r, "billed", 0, FreshRun)
            /\ UNCHANGED <<balance, journal>>
         \/ /\ amount > 0
            /\ MovementAllowed(t, id, "debit", -amount)
            /\ Move(t, id, "debit", -amount, FreshRun)
            /\ Rule(r, "billed", amount, FreshRun)
  /\ UNCHANGED <<wallets, callVars, faults, priceVars, jobVars>>

Step(c) == \/ StartRun(c) \/ pendingTenants(c) \/ SelectRows(c) \/ LockRows(c)
           \/ PriceRow(c) \/ Settle(c) \/ SettleRefused(c) \/ FinishRun(c)

Next ==
  \/ Tick
  \/ \E m \in Models, from \in 1 .. MaxTime, unit \in Units : CheckPrice(m, from, unit)
  \/ \E p \in inserting : InsertModelPrice(p) \/ DropPrice(p)
  \/ \E r \in Releases : RecordUsage(r) \/ WriteOff(r) \/ BillHeld(r)
  \/ \E c \in Controls : Step(c) \/ SettleFails(c) \/ AbandonRun(c)
  \/ \E q \in Requests : ConsoleStep(q) /\ UNCHANGED <<priceVars, rowVars, jobVars>>

Spec == Init /\ [][Next]_vars

\* The control loop runs the job at every tick of its timer; the clock advances.
Fairness == WF_vars(Tick) /\ \A c \in Controls : WF_vars(Step(c))

FairSpec == Spec /\ Fairness

-----------------------------------------------------------------------------

Measured(r) == Usage[r].class.source = "upstream" /\ Usage[r].class.succeeded

\* A past bill is replayable (D3): the amount of a billed row is what today's
\* price table gives for its occurred_at, and an unpriced row has no price even
\* now.  A price that lands late may not reach back to settled usage.
BillsReplayable ==
  \A r \in Releases :
    ledger[r].state \in {"billed", "unpriced"} => ledger[r].amount = AmountOf(r, ledger[r].at)

\* No machine decides about usage nobody measured: a row without the upstream's
\* own counts of a request that was served is charged only by an operator's ruling, and every ruling is still what the row
\* says, whatever job runs race it.
RulingsStand ==
  \A r \in Releases :
    /\ ledger[r].state = "billed" /\ ~Measured(r) => resolution[r] = "billed"
    /\ resolution[r] # "none" => ledger[r].state = resolution[r]

\* Two settlements never work on the same row, and what a settlement has locked
\* is still pending: nobody charges it meanwhile.
SettlementsExclusive ==
  /\ \A c, d \in Controls : c # d => rows[c] \cap rows[d] = {}
  /\ \A c \in Controls : \A r \in rows[c] : ledger[r].state = "pending"

Final == {"billed", "unpriced", "not_billable"}

\* A row that was settled is never settled again: its state, its amount and its
\* run stay.
SettledForGood ==
  [][\A r \in Releases : ledger[r].state \in Final => ledger'[r] = ledger[r]]_vars

\* A tenant with a wallet is settled in the end once prices exist, whatever
\* becomes of the other tenants of a run and of runs that fail.
RowsGetSettled ==
  \A r \in Releases :
    (ledger[r].state = "pending" /\ Usage[r].tenant \in wallets /\ prices # {})
      ~> ledger[r].state # "pending"
=============================================================================
