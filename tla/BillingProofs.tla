---------------------------- MODULE BillingProofs ----------------------------
(***************************************************************************)
(* Proofs about Billing for every set of tenants, control processes, rows  *)
(* and console requests, every price table and every clock.                *)
(*                                                                         *)
(* The invariant behind them says what a settlement in flight knows: the   *)
(* rows it works on are its own and pending (SettlementsExclusive), it has *)
(* a run and at least one row (JobShape), and what it has quoted is what   *)
(* the price table says (QuotesHold).  That the sums of the ledger, the    *)
(* runs and the journals agree is proved in ReconciliationProofs.          *)
(***************************************************************************)
EXTENDS Billing, SequenceTheorems, WellFoundedInduction, TLAPS

-----------------------------------------------------------------------------
(* Operators. *)

\* A nonempty set of instants up to MaxTime has a latest one.
LEMMA LatestExists ==
  ASSUME NEW S, S \subseteq 0 .. MaxTime, S # {}
  PROVE  \E x \in S : \A y \in S : y <= x
<1> DEFINE Less == {ss \in Nat \X Nat : ss[1] < ss[2]}
           T == {MaxTime - x : x \in S}
<1>a. IsWellFoundedOn(Less, Nat)
  BY NatLessThanWellFounded, Zenon DEF OpToRel
<1>b. T \subseteq Nat /\ T # {}
  <2>1. \A x \in S : MaxTime - x \in Nat
    BY TimeAssumption
  <2>2. PICK x \in S : TRUE
    OBVIOUS
  <2>3. MaxTime - x \in T
    BY <2>2
  <2>4. T \subseteq Nat
    BY <2>1
  <2>5. QED
    BY <2>3, <2>4
<1>1. PICK m \in T : \A n \in T : ~(<<n, m>> \in Less)
  <2> HIDE DEF Less, T
  <2> QED BY <1>a, <1>b, WFMin
<1>2. PICK x \in S : m = MaxTime - x
  OBVIOUS
<1>3. ASSUME NEW y \in S PROVE y <= x
  <2> DEFINE n == MaxTime - y
  <2>1. n \in T /\ n \in Nat /\ m \in Nat
    BY <1>b
  <2>2. <<n, m>> \in Nat \X Nat /\ <<n, m>>[1] = n /\ <<n, m>>[2] = m
    BY <2>1
  <2>3. ~(n < m)
    <3> HIDE DEF n, T
    <3> QED BY <2>1, <2>2, <1>1, Zenon
  <2>4. QED
    BY <2>1, <2>3, <1>2, TimeAssumption
<1>4. QED
  BY <1>3

\* The rounded amount of a line is a natural number of money units.
LEMMA LineAmountType ==
  ASSUME NEW n \in Nat, NEW u \in Nat
  PROVE  LineAmount(n, u) \in Nat
<1>1. n * u \in Nat
  OBVIOUS
<1> DEFINE p == n * u
<1>2. 2 * n * u = 2 * p
  OBVIOUS
<1>3. 2 * p + UnitScale \in Nat /\ 2 * UnitScale \in Nat /\ 2 * UnitScale > 0
  BY <1>1, PriceAssumption
<1>4. \A a, b \in Nat : b > 0 => a \div b \in Nat
  OBVIOUS
<1>5. QED
  BY <1>2, <1>3, <1>4 DEF LineAmount

\* Pricing a row gives an amount or NoAmount: of the prices in effect there is
\* always a latest one.
LEMMA AmountType ==
  ASSUME prices \subseteq Price, NEW r \in Releases, NEW at \in 0 .. MaxTime
  PROVE  AmountOf(r, at) \in Nat \cup {NoAmount}
<1> DEFINE in == InEffect(Usage[r].model, at)
           p  == Latest(in)
<1>1. in \subseteq Price
  BY DEF InEffect
<1>2. Usage[r].tokens \in Nat
  BY UsageAssumption
<1>3. CASE in = {}
  BY <1>3 DEF AmountOf
<1>4. CASE in # {}
  <2> DEFINE S == {o.from : o \in in}
  <2>1. S \subseteq 0 .. MaxTime /\ S # {}
    BY <1>1, <1>4, TimeAssumption DEF Price
  <2>2. PICK x \in S : \A y \in S : y <= x
    <3> HIDE DEF S
    <3> QED BY <2>1, LatestExists
  <2>3. \E q \in in : \A o \in in : o.from <= q.from
    BY <2>2
  <2>4. p \in in
    <3> HIDE DEF in
    <3> QED BY <2>3 DEF Latest
  <2>5. p.unit \in Nat
    <3> HIDE DEF p, in
    <3> QED BY <1>1, <2>4, PriceAssumption DEF Price
  <2>6. LineAmount(Usage[r].tokens, p.unit) \in Nat
    <3> HIDE DEF p
    <3> QED BY <1>2, <2>5, LineAmountType
  <2>7. AmountOf(r, at) = LineAmount(Usage[r].tokens, p.unit)
    <3> HIDE DEF LineAmount
    <3> QED BY <1>4 DEF AmountOf
  <2>8. QED
    BY <2>6, <2>7
<1>5. QED
  BY <1>3, <1>4

\* A fresh run ID is a run ID nothing bears.
LEMMA FreshRunIn ==
  ASSUME RunIds \ UsedRuns # {}
  PROVE  FreshRun \in RunIds /\ FreshRun \notin UsedRuns
  BY DEF FreshRun

-----------------------------------------------------------------------------
(* The wallet. *)

\* A movement appends one well-formed row to the journal of its tenant and
\* leaves the chain of balances unbroken.
LEMMA MoveKeeps ==
  ASSUME WalletTypeOK, JournalChains,
         NEW t \in Tenants, NEW id \in TransactionId,
         NEW kind \in {"topup", "adjustment", "debit"}, NEW amount \in Int,
         NEW runID \in RunIds \cup {NoRun}, Move(t, id, kind, amount, runID)
  PROVE  /\ balance' \in [Tenants -> Int]
         /\ journal' \in [Tenants -> Seq(Movement)]
         /\ JournalChains'
<1> DEFINE e == [id |-> id, kind |-> kind, amount |-> amount, run |-> runID,
                 after |-> balance[t] + amount]
           n == Len(journal[t])
<1>1. /\ balance \in [Tenants -> Int] /\ journal \in [Tenants -> Seq(Movement)]
      /\ balance[t] \in Int /\ journal[t] \in Seq(Movement) /\ n \in Nat
  BY LenProperties DEF WalletTypeOK
<1>2. e \in Movement /\ e.after = balance[t] + amount /\ e.amount = amount
  BY <1>1 DEF Movement
<1>3. /\ balance' = [balance EXCEPT ![t] = @ + amount]
      /\ journal' = [journal EXCEPT ![t] = Append(@, e)]
  BY DEF Move
<1> HIDE DEF e
<1>4. /\ Append(journal[t], e) \in Seq(Movement)
      /\ Len(Append(journal[t], e)) = n + 1
      /\ Append(journal[t], e)[n + 1] = e
      /\ \A k \in 1 .. n : Append(journal[t], e)[k] = journal[t][k]
  BY <1>1, <1>2, AppendProperties
<1>5. balance' \in [Tenants -> Int] /\ journal' \in [Tenants -> Seq(Movement)]
  BY <1>1, <1>3, <1>4
<1>6. ASSUME NEW u \in Tenants
      PROVE  /\ balance'[u] = Last(u)'
             /\ \A k \in 1 .. Len(journal'[u]) :
                  journal'[u][k].after =
                    (IF k = 1 THEN 0 ELSE journal'[u][k - 1].after) + journal'[u][k].amount
  <2>1. CASE u # t
    <3>1. balance'[u] = balance[u] /\ journal'[u] = journal[u]
      BY <1>1, <1>3, <2>1
    <3>2. QED
      BY <3>1 DEF JournalChains, Last
  <2>2. CASE u = t
    <3>1. /\ balance'[t] = balance[t] + amount /\ journal'[t] = Append(journal[t], e)
      BY <1>1, <1>3
    <3>2. journal'[t] # << >> /\ Len(journal'[t]) = n + 1
      <4>1. Len(journal'[t]) = n + 1
        BY <3>1, <1>4
      <4>2. Len(<< >>) = 0
        OBVIOUS
      <4>3. QED
        BY <4>1, <4>2, <1>1
    <3>3. balance'[t] = Last(t)'
      BY <3>1, <3>2, <1>2, <1>4 DEF Last
    <3>4. balance[t] = IF n = 0 THEN 0 ELSE journal[t][n].after
      BY <1>1, EmptySeq DEF JournalChains, Last
    <3>5. ASSUME NEW k \in 1 .. n + 1
          PROVE  journal'[t][k].after =
                   (IF k = 1 THEN 0 ELSE journal'[t][k - 1].after) + journal'[t][k].amount
      <4>1. CASE k = n + 1
        <5>1. journal'[t][k] = e
          BY <3>1, <1>4, <4>1
        <5>2. (IF k = 1 THEN 0 ELSE journal'[t][k - 1].after) = balance[t]
          BY <3>1, <3>4, <1>4, <4>1, <1>1
        <5>3. QED
          BY <5>1, <5>2, <1>2
      <4>2. CASE k \in 1 .. n
        <5>1. journal'[t][k] = journal[t][k]
          BY <3>1, <1>4, <4>2
        <5>2. k # 1 => journal'[t][k - 1] = journal[t][k - 1]
          BY <3>1, <1>4, <4>2, <1>1
        <5>3. QED
          BY <5>1, <5>2, <4>2 DEF JournalChains
      <4>3. QED
        BY <4>1, <4>2, <1>1
    <3>6. QED
      BY <2>2, <3>2, <3>3, <3>5
  <2>3. QED
    BY <2>1, <2>2
<1>7. QED
  BY <1>5, <1>6 DEF JournalChains

\* A console call keeps the wallets well-formed and the journal chained.
LEMMA ConsoleKeeps ==
  ASSUME WalletTypeOK, JournalChains, NEW q \in Requests, ConsoleStep(q)
  PROVE  WalletTypeOK' /\ JournalChains'
<1> USE DEF walletVars, callVars, Answer
<1>0. /\ Request[q].tenant \in Tenants /\ Request[q].amount \in Int
      /\ Request[q].kind \in {"topup", "adjustment", "debit"}
      /\ Key(q) \in TransactionId
  BY RequestAssumption DEF Body, Key, TransactionId
<1>1. CASE UNCHANGED <<balance, journal>>
  <2>1. JournalChains'
    BY <1>1 DEF JournalChains, Last
  <2>2. wallets' \subseteq Tenants /\ faults' \in 0 .. MaxFaults
    BY <1>0, MaxFaultsAssumption
    DEF WalletTypeOK, ConsoleStep, Submit, EnsureWallet, ApplyMovement, ConfirmReplay, CallFails, Fault
  <2>3. call' \in [Requests -> {"idle", "ensure", "move", "confirm"}]
    BY DEF WalletTypeOK, ConsoleStep, Submit, EnsureWallet, ApplyMovement, ConfirmReplay, CallFails
  <2>4. answer' \in [Requests -> {"none", "created", "replayed", "conflict", "not_found", "error"}]
    BY DEF WalletTypeOK, ConsoleStep, Submit, EnsureWallet, ApplyMovement, ConfirmReplay, CallFails
  <2>5. QED
    BY <1>1, <2>1, <2>2, <2>3, <2>4 DEF WalletTypeOK
<1>2. CASE /\ Move(Request[q].tenant, Key(q), Request[q].kind, Request[q].amount, NoRun)
           /\ \/ Answer(q, "created") /\ UNCHANGED faults
              \/ Answer(q, "error") /\ Fault
           /\ UNCHANGED wallets
  <2>1. /\ balance' \in [Tenants -> Int] /\ journal' \in [Tenants -> Seq(Movement)]
        /\ JournalChains'
    BY <1>0, <1>2, MoveKeeps
  <2>2. wallets' \subseteq Tenants /\ faults' \in 0 .. MaxFaults
    BY <1>2, MaxFaultsAssumption DEF WalletTypeOK, Fault
  <2>3. call' \in [Requests -> {"idle", "ensure", "move", "confirm"}]
    BY <1>2 DEF WalletTypeOK
  <2>4. answer' \in [Requests -> {"none", "created", "replayed", "conflict", "not_found", "error"}]
    BY <1>2 DEF WalletTypeOK
  <2>5. QED
    BY <2>1, <2>2, <2>3, <2>4 DEF WalletTypeOK
<1>3. QED
  BY <1>1, <1>2 DEF ConsoleStep, Submit, EnsureWallet, ApplyMovement, ConfirmReplay, CallFails

-----------------------------------------------------------------------------
(* The job. *)

\* What the program counter of a job tells about the rest of its state.
JobShape ==
  \A c \in Controls :
    /\ pc[c] # "idle" => run[c] \in RunIds
    /\ pc[c] = "price" <=> rows[c] # {}
    /\ left[c] \subseteq {r \in rows[c] : Billable(r)}
    /\ \A r \in Releases : r \notin rows[c] \/ ~Billable(r) => quote[c][r] = NoAmount

\* The types of the variables that are Billing's own.
JobTypeOK ==
  /\ clock \in 0 .. MaxTime
  /\ prices \subseteq Price
  /\ inserting \subseteq Price
  /\ ledger \in [Releases -> Row]
  /\ resolution \in [Releases -> {"none", "billed", "unpriced", "not_billable"}]
  /\ pc \in [Controls -> {"idle", "list", "next", "lock", "price"}]
  /\ run \in [Controls -> RunIds \cup {NoRun}]
  /\ windowEnd \in [Controls -> 0 .. MaxTime]
  /\ queue \in [Controls -> SUBSET Tenants]
  /\ found \in [Controls -> SUBSET Releases]
  /\ rows \in [Controls -> SUBSET Releases]
  /\ left \in [Controls -> SUBSET Releases]
  /\ quote \in [Controls -> [Releases -> Nat \cup {NoAmount}]]
  /\ debited \in [Controls -> Nat]

WalletInv == WalletTypeOK /\ JournalChains

JobInv == JobTypeOK /\ JobShape /\ SettlementsExclusive

Inv == WalletInv /\ JobInv

\* Every initial state satisfies the invariant.
LEMMA InvInit == Init => Inv
<1> SUFFICES ASSUME Init PROVE Inv
  OBVIOUS
<1>1. WalletInv
  BY EmptySeq, MaxFaultsAssumption DEF Init, WalletInit, WalletInv, WalletTypeOK, JournalChains, Last
<1>2. JobTypeOK
  BY TimeAssumption DEF Init, JobTypeOK, Row, LedgerRow, BillingState, NoAmount, NoRun
<1>3. JobShape /\ SettlementsExclusive
  BY DEF Init, JobShape, SettlementsExclusive
<1>4. QED
  BY <1>1, <1>2, <1>3 DEF Inv, JobInv

\* What does not touch the wallet keeps it as it is.
LEMMA WalletUntouched ==
  ASSUME WalletInv, UNCHANGED <<walletVars, callVars>>, UNCHANGED faults \/ Fault
  PROVE  WalletInv'
<1> USE DEF walletVars, callVars
<1>1. faults' \in 0 .. MaxFaults
  BY MaxFaultsAssumption DEF WalletInv, WalletTypeOK, Fault
<1>2. WalletTypeOK'
  BY <1>1 DEF WalletInv, WalletTypeOK
<1>3. JournalChains'
  BY DEF WalletInv, JournalChains, Last
<1>4. QED
  BY <1>2, <1>3 DEF WalletInv

\* The clock and the price table: nothing of the job depends on them.
LEMMA PricesKeep ==
  ASSUME JobInv,
         \/ Tick
         \/ \E m \in Models, from \in 1 .. MaxTime, unit \in Units : CheckPrice(m, from, unit)
         \/ \E p \in inserting : InsertModelPrice(p) \/ DropPrice(p)
  PROVE  JobInv'
<1> USE DEF rowVars, jobVars
<1>1. UNCHANGED <<rowVars, jobVars>>
  BY DEF Tick, CheckPrice, InsertModelPrice, DropPrice
<1>2. /\ clock' \in 0 .. MaxTime
      /\ prices' \subseteq Price
      /\ inserting' \subseteq Price
  <2> USE DEF JobInv, JobTypeOK
  <2>1. CASE Tick
    BY <2>1, TimeAssumption DEF Tick
  <2>2. ASSUME NEW m \in Models, NEW from \in 1 .. MaxTime, NEW unit \in Units,
               CheckPrice(m, from, unit)
        PROVE  clock' \in 0 .. MaxTime /\ prices' \subseteq Price /\ inserting' \subseteq Price
    <3>1. [model |-> m, from |-> from, unit |-> unit] \in Price
      BY DEF Price
    <3>2. QED
      BY <2>2, <3>1 DEF CheckPrice
  <2>3. CASE \E p \in inserting : InsertModelPrice(p) \/ DropPrice(p)
    BY <2>3 DEF InsertModelPrice, DropPrice
  <2>4. QED
    BY <2>1, <2>2, <2>3
<1>3. JobTypeOK'
  BY <1>1, <1>2 DEF JobInv, JobTypeOK
<1>4. JobShape' /\ SettlementsExclusive'
  BY <1>1 DEF JobInv, JobShape, SettlementsExclusive, Billable
<1>5. QED
  BY <1>3, <1>4 DEF JobInv

\* A new row is pending and in nobody's hands.
LEMMA RecordKeeps ==
  ASSUME JobInv, NEW r \in Releases, RecordUsage(r)
  PROVE  JobInv'
<1> USE DEF priceVars, jobVars
<1>1. UNCHANGED <<priceVars, resolution, jobVars>>
  BY DEF RecordUsage
<1>2. PICK at \in 0 .. clock :
        ledger' = [ledger EXCEPT ![r] = LedgerRow("pending", at, NoAmount, NoRun)]
  BY DEF RecordUsage
<1>3. LedgerRow("pending", at, NoAmount, NoRun) \in Row
  <2>1. at \in 0 .. MaxTime
    BY TimeAssumption DEF JobInv, JobTypeOK
  <2>2. QED
    BY <2>1 DEF Row, BillingState, LedgerRow
<1>4. JobTypeOK'
  BY <1>1, <1>2, <1>3 DEF JobInv, JobTypeOK
<1>5. JobShape'
  BY <1>1 DEF JobInv, JobShape, Billable
<1>6. \A s \in Releases : ledger[s].state = "pending" => ledger'[s].state = "pending"
  BY <1>2 DEF JobInv, JobTypeOK, LedgerRow
<1>7. SettlementsExclusive'
  BY <1>1, <1>6 DEF JobInv, JobTypeOK, SettlementsExclusive
<1>8. QED
  BY <1>4, <1>5, <1>7 DEF JobInv

\* The steps of a run that change neither a row nor a wallet.
LEMMA RunKeeps ==
  ASSUME JobInv, NEW c \in Controls,
         \/ StartRun(c) \/ pendingTenants(c) \/ SelectRows(c) \/ LockRows(c) \/ PriceRow(c)
         \/ SettleRefused(c) \/ SettleFails(c) \/ FinishRun(c) \/ AbandonRun(c)
  PROVE  JobInv'
<1> USE DEF JobInv, rowVars, priceVars, Goto
<1>0. JobTypeOK /\ JobShape /\ SettlementsExclusive
  OBVIOUS
<1>1. CASE StartRun(c)
  <2>1. FreshRun \in RunIds
    BY <1>1, FreshRunIn DEF StartRun
  <2>2. JobTypeOK'
    BY <1>1, <2>1 DEF StartRun, JobTypeOK
  <2>3. JobShape' /\ SettlementsExclusive'
    BY <1>1, <2>1 DEF StartRun, JobTypeOK, JobShape, SettlementsExclusive, Billable
  <2>4. QED
    BY <2>2, <2>3
<1>2. CASE pendingTenants(c)
  BY <1>2 DEF pendingTenants, JobTypeOK, JobShape, SettlementsExclusive, Billable
<1>3. CASE SelectRows(c)
  <2>1. \A t : Eligible(c, t) \subseteq Releases
    BY DEF Eligible
  <2>2. QED
    BY <1>3, <2>1 DEF SelectRows, JobTypeOK, JobShape, SettlementsExclusive, Billable
<1>4. CASE LockRows(c)
  <2> DEFINE locked == StillPending(found[c])
  <2>1. /\ locked \subseteq Releases /\ locked \subseteq found[c]
        /\ \A r \in locked : ledger[r].state = "pending"
    BY DEF StillPending, JobTypeOK
  <2>2. /\ rows' = [rows EXCEPT ![c] = locked]
        /\ left' = [left EXCEPT ![c] = {r \in locked : Billable(r)}]
        /\ pc' = [pc EXCEPT ![c] = IF locked = {} THEN "next" ELSE "price"]
        /\ found' = [found EXCEPT ![c] = {}]
        /\ pc[c] = "lock" /\ Lockable(c)
        /\ UNCHANGED <<clock, prices, inserting, ledger, resolution, run, windowEnd, queue,
                       quote, debited>>
    BY <1>4 DEF LockRows
  <2> HIDE DEF locked
  <2>3. JobTypeOK'
    BY <2>1, <2>2 DEF JobTypeOK
  <2>4. rows[c] = {} /\ \A r \in Releases : quote[c][r] = NoAmount
    BY <2>2 DEF JobShape
  <2>5. JobShape'
    BY <2>1, <2>2, <2>4 DEF JobTypeOK, JobShape, Billable
  <2>6. SettlementsExclusive'
    BY <2>1, <2>2 DEF JobTypeOK, SettlementsExclusive, Lockable
  <2>7. QED
    BY <2>3, <2>5, <2>6
<1>5. CASE PriceRow(c)
  <2>1. PICK r \in left[c] :
          /\ quote' = [quote EXCEPT ![c][r] = AmountOf(r, ledger[r].at)]
          /\ debited' = [debited EXCEPT ![c] = Accrue(@, AmountOf(r, ledger[r].at))]
          /\ left' = [left EXCEPT ![c] = @ \ {r}]
    BY <1>5 DEF PriceRow
  <2>2. r \in Releases /\ ledger[r].at \in 0 .. MaxTime /\ r \in rows[c]
    BY DEF JobTypeOK, JobShape, Row
  <2>3. AmountOf(r, ledger[r].at) \in Nat \cup {NoAmount}
    BY <2>2, AmountType DEF JobTypeOK
  <2>4. UNCHANGED <<clock, prices, inserting, ledger, resolution, pc, run, windowEnd, queue,
                    found, rows>>
    BY <1>5 DEF PriceRow
  <2>5. Accrue(debited[c], AmountOf(r, ledger[r].at)) \in Nat
    BY <2>3 DEF Accrue, JobTypeOK
  <2>6. JobTypeOK'
    BY <2>1, <2>2, <2>3, <2>4, <2>5 DEF JobTypeOK
  <2>7. SettlementsExclusive'
    BY <2>4 DEF SettlementsExclusive
  <2>8. JobShape'
    <3>1. \A d \in Controls : \A s \in Releases :
            quote'[d][s] # quote[d][s] => d = c /\ s = r
      BY <2>1, <2>2 DEF JobTypeOK
    <3>2. r \in rows[c] /\ Billable(r) /\ \A d \in Controls : left'[d] \subseteq left[d]
      BY <2>1 DEF JobShape, JobTypeOK
    <3>3. QED
      BY <3>1, <3>2, <2>4 DEF JobShape, Billable
  <2>9. QED
    BY <2>6, <2>7, <2>8
<1>6. CASE SettleRefused(c) \/ SettleFails(c) \/ FinishRun(c) \/ AbandonRun(c)
  <2>1. \/ /\ pc' = [pc EXCEPT ![c] = "next"] /\ pc[c] # "idle"
           /\ UNCHANGED <<run, windowEnd, queue>>
        \/ /\ pc' = [pc EXCEPT ![c] = "idle"] /\ run' = [run EXCEPT ![c] = NoRun]
           /\ windowEnd' = [windowEnd EXCEPT ![c] = 0] /\ queue' = [queue EXCEPT ![c] = {}]
    BY <1>6 DEF SettleRefused, SettleFails, FinishRun, AbandonRun, EndRun
  <2>2. EndSettlement(c) /\ UNCHANGED <<clock, prices, inserting, ledger, resolution>>
    BY <1>6 DEF SettleRefused, SettleFails, FinishRun, AbandonRun, EndRun
  <2>3. JobTypeOK'
    <3>1. /\ pc' \in [Controls -> {"idle", "list", "next", "lock", "price"}]
          /\ run' \in [Controls -> RunIds \cup {NoRun}]
          /\ windowEnd' \in [Controls -> 0 .. MaxTime]
          /\ queue' \in [Controls -> SUBSET Tenants]
      <4>1. 0 \in 0 .. MaxTime
        BY TimeAssumption
      <4>2. pc' \in [Controls -> {"idle", "list", "next", "lock", "price"}]
        BY <2>1 DEF JobTypeOK
      <4>3. run' \in [Controls -> RunIds \cup {NoRun}]
        BY <2>1 DEF JobTypeOK
      <4>4. windowEnd' \in [Controls -> 0 .. MaxTime]
        BY <2>1, <4>1 DEF JobTypeOK
      <4>5. queue' \in [Controls -> SUBSET Tenants]
        BY <2>1 DEF JobTypeOK
      <4>6. QED
        BY <4>2, <4>3, <4>4, <4>5
    <3>2. /\ found' \in [Controls -> SUBSET Releases]
          /\ rows' \in [Controls -> SUBSET Releases]
          /\ left' \in [Controls -> SUBSET Releases]
          /\ debited' \in [Controls -> Nat]
      BY <2>2 DEF JobTypeOK, EndSettlement
    <3>3. quote' \in [Controls -> [Releases -> Nat \cup {NoAmount}]]
      BY <2>2 DEF JobTypeOK, EndSettlement
    <3>4. QED
      BY <2>2, <3>1, <3>2, <3>3 DEF JobTypeOK
  <2>4. JobShape'
    BY <2>1, <2>2 DEF JobTypeOK, JobShape, EndSettlement, Billable
  <2>5. SettlementsExclusive'
    BY <2>2 DEF JobTypeOK, SettlementsExclusive, EndSettlement
  <2>6. QED
    BY <2>3, <2>4, <2>5
<1>7. QED
  BY <1>1, <1>2, <1>3, <1>4, <1>5, <1>6

\* The row settleTenant writes is well-formed, final or held.
LEMMA SettledRowType ==
  ASSUME JobInv, NEW c \in Controls, pc[c] = "price", NEW r \in Releases
  PROVE  /\ SettledRow(c, r) \in Row
         /\ SettledRow(c, r).state \in {"billed", "unpriced", "held", "not_billable"}
<1>1. /\ ledger[r].at \in 0 .. MaxTime /\ quote[c][r] \in Nat \cup {NoAmount}
      /\ run[c] \in RunIds
  BY DEF JobInv, JobTypeOK, JobShape, Row
<1>2. QED
  BY <1>1 DEF SettledRow, LedgerRow, Row, BillingState, billingStateFor

\* A settlement commits: its rows leave "pending" as its locks go.
LEMMA SettleKeeps ==
  ASSUME Inv, NEW c \in Controls, Settle(c)
  PROVE  Inv'
<1> USE DEF Inv, JobInv, priceVars, callVars
<1>0. /\ JobTypeOK /\ JobShape /\ SettlementsExclusive
      /\ pc[c] = "price" /\ rows[c] # {} /\ run[c] \in RunIds /\ debited[c] \in Nat
  BY DEF Settle, JobShape, JobTypeOK
<1>1. WalletInv'
  <2>1. TenantOf(c) \in Tenants
    <3>1. PICK r \in rows[c] : r = CHOOSE x \in rows[c] : TRUE
      BY <1>0
    <3>2. r \in Releases
      BY <1>0 DEF JobTypeOK
    <3>3. QED
      BY <3>1, <3>2, UsageAssumption DEF TenantOf
  <2>2. DebitId(c) \in TransactionId
    BY <1>0, <2>1 DEF DebitId, TransactionId
  <2>3. CASE UNCHANGED <<balance, journal>>
    <3>1. UNCHANGED <<walletVars, callVars, faults>>
      BY <2>3 DEF Settle, walletVars
    <3>2. QED
      BY <3>1, WalletUntouched
  <2>4. CASE Move(TenantOf(c), DebitId(c), "debit", -debited[c], run[c])
    <3>1. /\ balance' \in [Tenants -> Int] /\ journal' \in [Tenants -> Seq(Movement)]
          /\ JournalChains'
      <4>1. -debited[c] \in Int /\ run[c] \in RunIds \cup {NoRun}
            /\ "debit" \in {"topup", "adjustment", "debit"}
        BY <1>0
      <4>2. QED
        BY <2>1, <2>2, <2>4, <4>1, MoveKeeps DEF WalletInv
    <3>2. UNCHANGED <<wallets, call, answer, faults>>
      BY DEF Settle
    <3>3. QED
      BY <3>1, <3>2 DEF WalletInv, WalletTypeOK
  <2>5. QED
    BY <2>3, <2>4 DEF Settle
<1>2. /\ ledger' = [r \in Releases |-> IF r \in rows[c] THEN SettledRow(c, r) ELSE ledger[r]]
      /\ EndSettlement(c)
      /\ pc' = [pc EXCEPT ![c] = "next"]
      /\ UNCHANGED <<clock, prices, inserting, resolution, run, windowEnd, queue>>
  BY DEF Settle, Goto
<1>3. ledger' \in [Releases -> Row]
  BY <1>0, <1>2, SettledRowType DEF JobTypeOK
<1>4. JobTypeOK'
  <2>1. pc' \in [Controls -> {"idle", "list", "next", "lock", "price"}]
    BY <1>2 DEF JobTypeOK
  <2>2. /\ found' \in [Controls -> SUBSET Releases]
        /\ rows' \in [Controls -> SUBSET Releases]
        /\ left' \in [Controls -> SUBSET Releases]
        /\ debited' \in [Controls -> Nat]
    BY <1>2 DEF JobTypeOK, EndSettlement
  <2>3. quote' \in [Controls -> [Releases -> Nat \cup {NoAmount}]]
    BY <1>2 DEF JobTypeOK, EndSettlement
  <2>4. QED
    BY <1>2, <1>3, <2>1, <2>2, <2>3 DEF JobTypeOK
<1>5. JobShape'
  BY <1>0, <1>2 DEF JobTypeOK, JobShape, EndSettlement, Billable
<1>6. SettlementsExclusive'
  <2>1. /\ rows'[c] = {} /\ \A d \in Controls \ {c} : rows'[d] = rows[d]
    BY <1>2 DEF JobTypeOK, EndSettlement
  <2>2. \A d \in Controls \ {c} : \A r \in rows[d] : r \notin rows[c] /\ ledger'[r] = ledger[r]
    BY <1>0, <1>2 DEF JobTypeOK, SettlementsExclusive
  <2>3. QED
    BY <2>1, <2>2 DEF SettlementsExclusive
<1>7. QED
  BY <1>1, <1>4, <1>5, <1>6

\* An operator's ruling touches one held row, which no settlement works on.
LEMMA RulingKeeps ==
  ASSUME Inv, NEW r \in Releases, WriteOff(r) \/ BillHeld(r)
  PROVE  Inv'
<1> USE DEF Inv, JobInv, priceVars, callVars, jobVars
<1>0. JobTypeOK /\ JobShape /\ SettlementsExclusive /\ ledger[r].at \in 0 .. MaxTime
  BY DEF JobTypeOK, Row
<1>1. AmountOf(r, ledger[r].at) \in Nat \cup {NoAmount}
  BY <1>0, AmountType DEF JobTypeOK
<1>2. BillHeld(r) => FreshRun \in RunIds
  BY FreshRunIn DEF BillHeld
<1>3. /\ UNCHANGED <<clock, prices, inserting, jobVars>>
      /\ ledger[r].state = "held"
      /\ \E outcome \in {"billed", "unpriced", "not_billable"}, amount \in Nat \cup {NoAmount},
            runID \in RunIds \cup {NoRun} :
           Rule(r, outcome, amount, runID)
  BY <1>1, <1>2 DEF WriteOff, BillHeld, IsHeld
<1>4. PICK outcome \in {"billed", "unpriced", "not_billable"}, amount \in Nat \cup {NoAmount},
           runID \in RunIds \cup {NoRun} :
         /\ ledger' = [ledger EXCEPT ![r] = LedgerRow(outcome, ledger[r].at, amount, runID)]
         /\ resolution' = [resolution EXCEPT ![r] = outcome]
  BY <1>3 DEF Rule
<1>5. JobTypeOK'
  <2>1. LedgerRow(outcome, ledger[r].at, amount, runID) \in Row
    BY <1>0 DEF LedgerRow, Row, BillingState
  <2>2. QED
    BY <1>3, <1>4, <2>1 DEF JobTypeOK
<1>6. JobShape'
  BY <1>3 DEF JobShape, Billable
<1>7. SettlementsExclusive'
  <2>1. \A c \in Controls : r \notin rows[c]
    BY <1>3 DEF SettlementsExclusive
  <2>2. QED
    BY <1>3, <1>4, <2>1 DEF JobTypeOK, SettlementsExclusive
<1>8. WalletInv'
  <2>1. CASE UNCHANGED <<balance, journal>>
    <3>1. UNCHANGED <<walletVars, callVars, faults>>
      BY <2>1 DEF WriteOff, BillHeld, walletVars
    <3>2. QED
      BY <3>1, WalletUntouched
  <2> DEFINE a == AmountOf(r, ledger[r].at)
             t == Usage[r].tenant
             id == [run |-> FreshRun, tenant |-> t]
  <2>2. CASE BillHeld(r) /\ a > 0 /\ Move(t, id, "debit", -a, FreshRun)
    <3>1. t \in Tenants /\ id \in TransactionId /\ FreshRun \in RunIds \cup {NoRun}
      BY <1>2, <2>2, UsageAssumption DEF TransactionId
    <3>2. -a \in Int /\ "debit" \in {"topup", "adjustment", "debit"}
      BY <1>1, <2>2 DEF NoAmount
    <3>3. /\ balance' \in [Tenants -> Int] /\ journal' \in [Tenants -> Seq(Movement)]
          /\ JournalChains'
      <4> HIDE DEF a, t, id
      <4> QED BY <3>1, <3>2, <2>2, MoveKeeps DEF WalletInv
    <3>4. UNCHANGED <<wallets, call, answer, faults>>
      BY <2>2 DEF BillHeld
    <3>5. QED
      BY <3>3, <3>4 DEF WalletInv, WalletTypeOK
  <2>3. QED
    BY <2>1, <2>2 DEF WriteOff, BillHeld, walletVars
<1>9. QED
  BY <1>5, <1>6, <1>7, <1>8

\* Every step keeps the invariant.
LEMMA InvNext == Inv /\ [Next]_vars => Inv'
<1> SUFFICES ASSUME Inv, [Next]_vars PROVE Inv'
  OBVIOUS
<1>1. CASE UNCHANGED vars
  <2>1. UNCHANGED <<walletVars, callVars, faults>> /\ UNCHANGED <<priceVars, rowVars, jobVars>>
    BY <1>1 DEF vars
  <2>2. WalletInv'
    BY <2>1, WalletUntouched DEF Inv
  <2>3. JobInv'
    BY <2>1 DEF Inv, JobInv, JobTypeOK, JobShape, SettlementsExclusive, Billable,
                priceVars, rowVars, jobVars
  <2>4. QED
    BY <2>2, <2>3 DEF Inv
<1>2. CASE \/ Tick
           \/ \E m \in Models, from \in 1 .. MaxTime, unit \in Units : CheckPrice(m, from, unit)
           \/ \E p \in inserting : InsertModelPrice(p) \/ DropPrice(p)
  <2>1. UNCHANGED <<walletVars, callVars, faults>>
    BY <1>2 DEF Tick, CheckPrice, InsertModelPrice, DropPrice
  <2>2. QED
    BY <1>2, <2>1, WalletUntouched, PricesKeep DEF Inv
<1>3. ASSUME NEW r \in Releases, RecordUsage(r) PROVE Inv'
  <2>1. UNCHANGED <<walletVars, callVars, faults>>
    BY <1>3 DEF RecordUsage
  <2>2. QED
    BY <1>3, <2>1, WalletUntouched, RecordKeeps DEF Inv
<1>4. ASSUME NEW r \in Releases, WriteOff(r) \/ BillHeld(r) PROVE Inv'
  BY <1>4, RulingKeeps
<1>5. ASSUME NEW c \in Controls,
             \/ StartRun(c) \/ pendingTenants(c) \/ SelectRows(c) \/ LockRows(c) \/ PriceRow(c)
             \/ SettleRefused(c) \/ SettleFails(c) \/ FinishRun(c) \/ AbandonRun(c)
      PROVE  Inv'
  <2>1. UNCHANGED <<walletVars, callVars>> /\ (UNCHANGED faults \/ Fault)
    BY <1>5 DEF StartRun, pendingTenants, SelectRows, LockRows, PriceRow, SettleRefused,
                SettleFails, FinishRun, AbandonRun
  <2>2. QED
    BY <1>5, <2>1, WalletUntouched, RunKeeps DEF Inv
<1>6. ASSUME NEW c \in Controls, Settle(c) PROVE Inv'
  BY <1>6, SettleKeeps
<1>7. ASSUME NEW q \in Requests, ConsoleStep(q), UNCHANGED <<priceVars, rowVars, jobVars>>
      PROVE  Inv'
  <2>1. WalletInv'
    BY <1>7, ConsoleKeeps DEF Inv, WalletInv
  <2>2. JobInv'
    BY <1>7 DEF Inv, JobInv, JobTypeOK, JobShape, SettlementsExclusive, Billable,
                priceVars, rowVars, jobVars
  <2>3. QED
    BY <2>1, <2>2 DEF Inv
<1>8. QED
  BY <1>1, <1>2, <1>3, <1>4, <1>5, <1>6, <1>7 DEF Next, Step

\* The invariant holds in every reachable state.
THEOREM Invariance == Spec => []Inv
  BY InvInit, InvNext, PTL DEF Spec

\* Every variable of the billing subsystem keeps its type, the amounts and the
\* balances that pricing and movements compute included.
THEOREM TypeCorrect == Spec => []TypeOK
<1>1. Inv => TypeOK
  BY DEF Inv, JobInv, JobTypeOK, TypeOK, WalletInv
<1>2. QED
  BY <1>1, Invariance, PTL

\* The FOR UPDATE locks of selectBillableRows keep any number of concurrent
\* settlements apart, and nobody charges a row that one of them holds.
THEOREM Exclusive == Spec => []SettlementsExclusive
<1>1. Inv => SettlementsExclusive
  BY DEF Inv, JobInv
<1>2. QED
  BY <1>1, Invariance, PTL

\* The journal of every wallet is an unbroken chain that ends in its balance,
\* whatever mixture of top-ups, corrections, runs and rulings wrote it.
THEOREM JournalsChained == Spec => []JournalChains
<1>1. Inv => JournalChains
  BY DEF Inv, WalletInv
<1>2. QED
  BY <1>1, Invariance, PTL

-----------------------------------------------------------------------------
(* What happens to a row. *)

\* The three ways a row changes: usage is recorded, a settlement commits, an
\* operator rules.
Records(r) == /\ ledger[r].state = "absent"
              /\ \E at \in 0 .. clock :
                   ledger' = [ledger EXCEPT ![r] = LedgerRow("pending", at, NoAmount, NoRun)]
              /\ UNCHANGED <<clock, prices, resolution, rows, left, quote>>

Settles(c) == /\ pc[c] = "price" /\ left[c] = {}
              /\ ledger' = [r \in Releases |-> IF r \in rows[c] THEN SettledRow(c, r) ELSE ledger[r]]
              /\ EndSettlement(c)
              /\ UNCHANGED <<clock, prices, resolution>>

Rules(r) == /\ IsHeld(r)
            /\ \E outcome \in {"billed", "unpriced", "not_billable"} : \E amount, runID :
                 /\ Rule(r, outcome, amount, runID)
                 /\ outcome \in {"billed", "unpriced"} => amount = AmountOf(r, ledger[r].at)
            /\ UNCHANGED <<clock, prices, rows, left, quote>>

\* Every other step leaves all rows and rulings alone.
LEMMA RowEffect ==
  ASSUME [Next]_vars
  PROVE  \/ UNCHANGED rowVars
         \/ \E r \in Releases : Records(r) \/ Rules(r)
         \/ \E c \in Controls : Settles(c)
<1> USE DEF rowVars, priceVars, jobVars
<1>1. CASE UNCHANGED vars
  BY <1>1 DEF vars
<1>2. CASE \/ Tick
           \/ \E m \in Models, from \in 1 .. MaxTime, unit \in Units : CheckPrice(m, from, unit)
           \/ \E p \in inserting : InsertModelPrice(p) \/ DropPrice(p)
  BY <1>2 DEF Tick, CheckPrice, InsertModelPrice, DropPrice
<1>3. ASSUME NEW r \in Releases, RecordUsage(r) PROVE Records(r)
  BY <1>3 DEF RecordUsage, Records
<1>4. ASSUME NEW r \in Releases, WriteOff(r) PROVE Rules(r)
  BY <1>4 DEF WriteOff, Rules
<1>5. ASSUME NEW r \in Releases, BillHeld(r) PROVE Rules(r)
  BY <1>5 DEF BillHeld, Rules
<1>6. ASSUME NEW c \in Controls,
             \/ StartRun(c) \/ pendingTenants(c) \/ SelectRows(c) \/ LockRows(c) \/ PriceRow(c)
             \/ SettleRefused(c) \/ SettleFails(c) \/ FinishRun(c) \/ AbandonRun(c)
      PROVE  UNCHANGED rowVars
  BY <1>6 DEF StartRun, pendingTenants, SelectRows, LockRows, PriceRow, SettleRefused,
              SettleFails, FinishRun, AbandonRun
<1>7. ASSUME NEW c \in Controls, Settle(c) PROVE Settles(c)
  BY <1>7 DEF Settle, Settles
<1>8. QED
  BY <1>1, <1>2, <1>3, <1>4, <1>5, <1>6, <1>7 DEF Next, Step

\* A settlement bills only what the policy says to bill: usage the upstream
\* measured for a request that was served.
LEMMA SettledRowState ==
  ASSUME NEW c \in Controls, NEW r \in Releases,
         SettledRow(c, r).state \in {"billed", "unpriced"}
  PROVE  Billable(r) /\ Measured(r) /\ SettledRow(c, r).amount = quote[c][r]
<1>1. Billable(r) /\ SettledRow(c, r).amount = quote[c][r]
  BY DEF SettledRow, LedgerRow, billingStateFor
<1>2. Measured(r)
  BY <1>1 DEF Billable, dispositionFor, Measured
<1>3. QED
  BY <1>1, <1>2

\* A settled row is never settled again, by any run or ruling.
THEOREM SettledOnce == Spec => SettledForGood
<1>1. Inv /\ [Next]_vars =>
        [\A r \in Releases : ledger[r].state \in Final => ledger'[r] = ledger[r]]_vars
  <2> SUFFICES ASSUME Inv, [Next]_vars, NEW r \in Releases, ledger[r].state \in Final
               PROVE  ledger'[r] = ledger[r]
    OBVIOUS
  <2>1. ledger \in [Releases -> Row]
    BY DEF Inv, JobInv, JobTypeOK
  <2>2. CASE UNCHANGED rowVars
    BY <2>2 DEF rowVars
  <2>3. ASSUME NEW s \in Releases, Records(s) \/ Rules(s) PROVE ledger'[r] = ledger[r]
    BY <2>1, <2>3 DEF Records, Rules, Rule, IsHeld, Final
  <2>4. ASSUME NEW c \in Controls, Settles(c) PROVE ledger'[r] = ledger[r]
    BY <2>4 DEF Settles, Inv, JobInv, SettlementsExclusive, Final
  <2>5. QED
    BY RowEffect, <2>2, <2>3, <2>4
<1>2. QED
  BY <1>1, Invariance, PTL DEF Spec, SettledForGood

\* A row nobody measured is charged only by a ruling, and a ruling is never
\* overwritten by the runs it races.
THEOREM RulingsRespected == Spec => []RulingsStand
<1>1. Init => RulingsStand
  BY DEF Init, RulingsStand, LedgerRow
<1>2. Inv /\ RulingsStand /\ [Next]_vars => RulingsStand'
  <2> SUFFICES ASSUME Inv, RulingsStand, [Next]_vars PROVE RulingsStand'
    OBVIOUS
  <2>1. /\ ledger \in [Releases -> Row]
        /\ resolution \in [Releases -> {"none", "billed", "unpriced", "not_billable"}]
    BY DEF Inv, JobInv, JobTypeOK
  <2>2. CASE UNCHANGED rowVars
    BY <2>2 DEF rowVars, RulingsStand, Measured
  <2>3. ASSUME NEW s \in Releases, Records(s) PROVE RulingsStand'
    BY <2>1, <2>3 DEF Records, RulingsStand, Measured, LedgerRow
  <2>4. ASSUME NEW s \in Releases, Rules(s) PROVE RulingsStand'
    BY <2>1, <2>4 DEF Rules, Rule, RulingsStand, Measured, LedgerRow
  <2>5. ASSUME NEW c \in Controls, Settles(c) PROVE RulingsStand'
    <3>1. \A r \in Releases : r \in rows[c] => ledger'[r] = SettledRow(c, r) /\ resolution[r] = "none"
      BY <2>1, <2>5 DEF Settles, Inv, JobInv, SettlementsExclusive, RulingsStand
    <3>2. \A r \in Releases : r \notin rows[c] => ledger'[r] = ledger[r]
      BY <2>5 DEF Settles
    <3>3. resolution' = resolution
      BY <2>5 DEF Settles
    <3>4. QED
      BY <3>1, <3>2, <3>3, SettledRowState DEF RulingsStand, Measured
  <2>6. QED
    BY RowEffect, <2>2, <2>3, <2>4, <2>5
<1>3. QED
  BY <1>1, <1>2, Invariance, PTL DEF Spec

-----------------------------------------------------------------------------
(* Bills are replayable. *)

\* Usage is never dated in the future.
RowsPast == \A r \in Releases : ledger[r].state # "absent" => ledger[r].at <= clock

\* What was settled, and what a settlement in flight has quoted, is what the
\* price table says now about the instant of the request.
BillsHold ==
  \A r \in Releases : \A at \in 0 .. MaxTime :
    ledger[r].at = at /\ ledger[r].state \in {"billed", "unpriced"} =>
      ledger[r].amount = AmountOf(r, at)

QuotesHold ==
  \A c \in Controls : \A r \in Releases : \A at \in 0 .. MaxTime :
    r \in rows[c] /\ r \notin left[c] /\ Billable(r) /\ ledger[r].at = at =>
      quote[c][r] = AmountOf(r, at)

PriceInv == RowsPast /\ BillsHold /\ QuotesHold

\* A price that commits before it takes effect changes nothing about the past,
\* and the clock never goes back.
LEMMA PastIsFixed ==
  ASSUME PromptInsert, Inv, [Next]_vars
  PROVE  /\ clock' \in Nat /\ clock <= clock'
         /\ \A r \in Releases : \A at \in 0 .. MaxTime :
              at <= clock => AmountOf(r, at)' = AmountOf(r, at)
<1>0. clock \in Nat /\ prices \subseteq Price /\ inserting \subseteq Price
  BY TimeAssumption DEF Inv, JobInv, JobTypeOK
<1>1. CASE UNCHANGED <<clock, prices>>
  BY <1>0, <1>1 DEF AmountOf, InEffect
<1>2. CASE Tick
  BY <1>0, <1>2 DEF Tick, AmountOf, InEffect
<1>3. ASSUME NEW p \in inserting, InsertModelPrice(p)
      PROVE  /\ clock' \in Nat /\ clock <= clock'
             /\ \A r \in Releases : \A at \in 0 .. MaxTime :
                  at <= clock => AmountOf(r, at)' = AmountOf(r, at)
  <2>1. clock' = clock /\ prices' = prices \cup {p} /\ clock < p.from
    BY <1>3 DEF InsertModelPrice
  <2>2. p.from \in Nat
    BY <1>0, TimeAssumption DEF Price
  <2>3. \A m : \A at \in 0 .. MaxTime : at <= clock => InEffect(m, at)' = InEffect(m, at)
    BY <1>0, <2>1, <2>2, TimeAssumption DEF InEffect
  <2>4. \A r \in Releases : \A at \in 0 .. MaxTime :
          at <= clock => AmountOf(r, at)' = AmountOf(r, at)
    <3> SUFFICES ASSUME NEW r \in Releases, NEW at \in 0 .. MaxTime, at <= clock
                 PROVE  AmountOf(r, at)' = AmountOf(r, at)
      OBVIOUS
    <3>1. InEffect(Usage[r].model, at)' = InEffect(Usage[r].model, at)
      BY <2>3
    <3>2. QED
      BY <3>1 DEF AmountOf
  <2>5. QED
    BY <1>0, <2>1, <2>4
<1>4. ASSUME \/ UNCHANGED vars
             \/ \E m \in Models, from \in 1 .. MaxTime, unit \in Units : CheckPrice(m, from, unit)
             \/ \E p \in inserting : DropPrice(p)
             \/ \E r \in Releases : RecordUsage(r) \/ WriteOff(r) \/ BillHeld(r)
             \/ \E q \in Requests : ConsoleStep(q) /\ UNCHANGED <<priceVars, rowVars, jobVars>>
      PROVE  UNCHANGED <<clock, prices>>
  BY <1>4 DEF vars, priceVars, CheckPrice, DropPrice, RecordUsage, WriteOff, BillHeld
<1>5. ASSUME NEW c \in Controls, Step(c) \/ SettleFails(c) \/ AbandonRun(c)
      PROVE  UNCHANGED <<clock, prices>>
  BY <1>5 DEF priceVars, Step, StartRun, pendingTenants, SelectRows, LockRows, PriceRow, Settle,
              SettleRefused, SettleFails, FinishRun, AbandonRun
<1>6. QED
  BY <1>1, <1>2, <1>3, <1>4, <1>5 DEF Next

\* A step that changes no row keeps the quotes: a settlement starts with none,
\* prices one row at a time, or ends.
LEMMA QuoteEffect ==
  ASSUME Inv, [Next]_vars, UNCHANGED rowVars,
         NEW c \in Controls, NEW r \in Releases,
         r \in rows'[c], r \notin left'[c], Billable(r)
  PROVE  \/ r \in rows[c] /\ r \notin left[c] /\ quote'[c][r] = quote[c][r]
         \/ /\ quote'[c][r] = AmountOf(r, ledger[r].at)
            /\ r \in rows[c] /\ UNCHANGED <<clock, prices>>
<1> USE DEF rowVars, priceVars, jobVars
<1>0. JobTypeOK /\ JobShape
  BY DEF Inv, JobInv
<1>1. CASE UNCHANGED <<rows, left, quote>>
  BY <1>1
<1>2. ASSUME \/ UNCHANGED vars \/ Tick
             \/ \E m \in Models, from \in 1 .. MaxTime, unit \in Units : CheckPrice(m, from, unit)
             \/ \E p \in inserting : InsertModelPrice(p) \/ DropPrice(p)
             \/ \E s \in Releases : RecordUsage(s) \/ WriteOff(s) \/ BillHeld(s)
             \/ \E q \in Requests : ConsoleStep(q) /\ UNCHANGED <<priceVars, rowVars, jobVars>>
             \/ \E d \in Controls : StartRun(d) \/ pendingTenants(d) \/ SelectRows(d)
      PROVE  UNCHANGED <<rows, left, quote>>
  BY <1>2 DEF vars, Tick, CheckPrice, InsertModelPrice, DropPrice, RecordUsage, WriteOff, BillHeld,
              StartRun, pendingTenants, SelectRows
<1>3. ASSUME NEW d \in Controls, LockRows(d)
      PROVE  r \in rows[c] /\ r \notin left[c] /\ quote'[c][r] = quote[c][r]
  <2>1. PICK locked :
          /\ rows' = [rows EXCEPT ![d] = locked]
          /\ left' = [left EXCEPT ![d] = {s \in locked : Billable(s)}]
          /\ UNCHANGED quote
    BY <1>3 DEF LockRows
  <2>2. d # c
    BY <1>0, <2>1 DEF JobTypeOK
  <2>3. QED
    BY <1>0, <2>1, <2>2 DEF JobTypeOK
<1>4. ASSUME NEW d \in Controls, PriceRow(d)
      PROVE  \/ r \in rows[c] /\ r \notin left[c] /\ quote'[c][r] = quote[c][r]
             \/ /\ quote'[c][r] = AmountOf(r, ledger[r].at)
                /\ r \in rows[c] /\ UNCHANGED <<clock, prices>>
  <2>1. PICK s \in left[d] :
          /\ quote' = [quote EXCEPT ![d][s] = AmountOf(s, ledger[s].at)]
          /\ left' = [left EXCEPT ![d] = @ \ {s}]
    BY <1>4 DEF PriceRow
  <2>2. UNCHANGED <<clock, prices, rows>>
    BY <1>4 DEF PriceRow
  <2>3. s \in Releases
    BY <1>0 DEF JobTypeOK
  <2>4. CASE c = d /\ r = s
    BY <1>0, <2>1, <2>2, <2>3, <2>4 DEF JobTypeOK
  <2>5. CASE ~(c = d /\ r = s)
    <3>1. quote'[c][r] = quote[c][r]
      BY <1>0, <2>1, <2>3, <2>5 DEF JobTypeOK
    <3>2. r \notin left[c]
      BY <1>0, <2>1, <2>3, <2>5 DEF JobTypeOK
    <3>3. QED
      BY <2>2, <3>1, <3>2
  <2>6. QED
    BY <2>4, <2>5
<1>5. ASSUME NEW d \in Controls, Settle(d) \/ SettleRefused(d) \/ SettleFails(d) \/ FinishRun(d)
                                 \/ AbandonRun(d)
      PROVE  r \in rows[c] /\ r \notin left[c] /\ quote'[c][r] = quote[c][r]
  <2>1. EndSettlement(d)
    BY <1>5 DEF Settle, SettleRefused, SettleFails, FinishRun, AbandonRun, EndRun
  <2>2. d # c
    BY <1>0, <2>1 DEF JobTypeOK, EndSettlement
  <2>3. QED
    BY <1>0, <2>1, <2>2 DEF JobTypeOK, EndSettlement
<1>6. QED
  BY <1>1, <1>2, <1>3, <1>4, <1>5 DEF Next, Step

\* As long as price inserts commit before their effective_from, every past bill
\* can be recomputed from the price table, whatever prices were added since.
THEOREM PastBillsReplayable ==
  ASSUME PromptInsert PROVE Spec => []BillsReplayable
<1>1. Init => PriceInv
  BY TimeAssumption DEF Init, PriceInv, RowsPast, BillsHold, QuotesHold, LedgerRow
<1>2. Inv /\ PriceInv /\ [Next]_vars => PriceInv'
  <2> SUFFICES ASSUME Inv, PriceInv, [Next]_vars PROVE PriceInv'
    OBVIOUS
  <2>0. /\ clock \in Nat /\ clock' \in Nat /\ clock <= clock'
        /\ \A r \in Releases : ledger[r] \in Row /\ ledger[r].at \in 0 .. MaxTime
        /\ \A r \in Releases : ledger[r].at \in Nat
        /\ ledger \in [Releases -> Row]
    BY PastIsFixed, TimeAssumption DEF Inv, JobInv, JobTypeOK, Row
  <2>1. \A r \in Releases : \A at \in 0 .. MaxTime :
          at <= clock => AmountOf(r, at)' = AmountOf(r, at)
    BY PastIsFixed
  <2>2. CASE UNCHANGED rowVars
    <3>1. RowsPast'
      BY <2>0, <2>2 DEF PriceInv, RowsPast, rowVars
    <3>2. BillsHold'
      BY <2>0, <2>1, <2>2 DEF PriceInv, RowsPast, BillsHold, rowVars
    <3>3. QuotesHold'
      <4> SUFFICES ASSUME NEW c \in Controls, NEW r \in Releases, NEW at \in 0 .. MaxTime,
                          r \in rows'[c], r \notin left'[c], Billable(r), ledger[r].at = at
                   PROVE  quote'[c][r] = AmountOf(r, at)'
        BY <2>2 DEF QuotesHold, Billable, rowVars
      <4>1. \/ r \in rows[c] /\ r \notin left[c] /\ quote'[c][r] = quote[c][r]
            \/ r \in rows[c] /\ quote'[c][r] = AmountOf(r, at)
        BY <2>2, QuoteEffect
      <4>2. quote'[c][r] = AmountOf(r, at)
        BY <4>1 DEF PriceInv, QuotesHold
      <4>3. at <= clock
        BY <4>1 DEF PriceInv, RowsPast, Inv, JobInv, SettlementsExclusive
      <4>4. QED
        BY <2>1, <4>2, <4>3
    <3>4. QED
      BY <3>1, <3>2, <3>3 DEF PriceInv
  <2>3. ASSUME NEW s \in Releases, Records(s) PROVE PriceInv'
    <3>1. PICK at \in 0 .. clock :
            ledger' = [ledger EXCEPT ![s] = LedgerRow("pending", at, NoAmount, NoRun)]
      BY <2>3 DEF Records
    <3>2. /\ ledger'[s].at = at /\ ledger'[s].state = "pending" /\ ledger[s].state = "absent"
          /\ \A r \in Releases \ {s} : ledger'[r] = ledger[r]
      BY <2>0, <2>3, <3>1 DEF Records, LedgerRow
    <3>3. UNCHANGED <<clock, prices, rows, left, quote>>
      BY <2>3 DEF Records
    <3>4. RowsPast'
      BY <2>0, <3>2, <3>3 DEF PriceInv, RowsPast
    <3>5. BillsHold'
      BY <2>0, <2>1, <3>2, <3>3 DEF PriceInv, RowsPast, BillsHold
    <3>6. QuotesHold'
      <4>1. \A c \in Controls : s \notin rows[c]
        BY <3>2 DEF Inv, JobInv, SettlementsExclusive
      <4>2. \A c \in Controls : \A r \in rows[c] : ledger[r].state # "absent"
        BY DEF Inv, JobInv, SettlementsExclusive
      <4>3. QED
        BY <2>0, <2>1, <3>2, <3>3, <4>1, <4>2 DEF PriceInv, RowsPast, QuotesHold, Billable
    <3>7. QED
      BY <3>4, <3>5, <3>6 DEF PriceInv
  <2>4. ASSUME NEW s \in Releases, Rules(s) PROVE PriceInv'
    <3>0. PICK outcome \in {"billed", "unpriced", "not_billable"} : \E amount, runID :
            /\ Rule(s, outcome, amount, runID)
            /\ outcome \in {"billed", "unpriced"} => amount = AmountOf(s, ledger[s].at)
      BY <2>4 DEF Rules
    <3>1. PICK amount, runID :
            /\ Rule(s, outcome, amount, runID)
            /\ outcome \in {"billed", "unpriced"} => amount = AmountOf(s, ledger[s].at)
      BY <3>0
    <3>2. /\ ledger'[s].at = ledger[s].at /\ ledger'[s].state = outcome
          /\ ledger'[s].amount = amount /\ ledger[s].state = "held"
          /\ \A r \in Releases \ {s} : ledger'[r] = ledger[r]
      BY <2>0, <2>4, <3>1 DEF Rules, Rule, IsHeld, LedgerRow
    <3>3. UNCHANGED <<clock, prices, rows, left, quote>>
      BY <2>4 DEF Rules
    <3>4. RowsPast'
      BY <2>0, <3>2, <3>3 DEF PriceInv, RowsPast
    <3>5. BillsHold'
      BY <2>0, <2>1, <3>1, <3>2, <3>3 DEF PriceInv, RowsPast, BillsHold
    <3>6. QuotesHold'
      <4>1. \A c \in Controls : s \notin rows[c]
        BY <3>2 DEF Inv, JobInv, SettlementsExclusive
      <4>2. \A c \in Controls : \A r \in rows[c] : ledger[r].state # "absent"
        BY DEF Inv, JobInv, SettlementsExclusive
      <4>3. QED
        BY <2>0, <2>1, <3>2, <3>3, <4>1, <4>2 DEF PriceInv, RowsPast, QuotesHold, Billable
    <3>7. QED
      BY <3>4, <3>5, <3>6 DEF PriceInv
  <2>5. ASSUME NEW c \in Controls, Settles(c) PROVE PriceInv'
    <3>1. /\ \A r \in Releases : r \in rows[c] => ledger'[r] = SettledRow(c, r)
          /\ \A r \in Releases : r \notin rows[c] => ledger'[r] = ledger[r]
          /\ UNCHANGED <<clock, prices>>
          /\ left[c] = {}
      BY <2>5 DEF Settles
    <3>2. \A r \in Releases : ledger'[r].at = ledger[r].at
      <4>1. \A r \in Releases : SettledRow(c, r).at = ledger[r].at
        BY DEF SettledRow, LedgerRow
      <4>2. QED
        BY <3>1, <4>1
    <3>3. \A d \in Controls : \A r \in rows[d] : ledger[r].state = "pending"
      BY DEF Inv, JobInv, SettlementsExclusive
    <3>4. RowsPast'
      BY <2>0, <3>1, <3>2, <3>3 DEF PriceInv, RowsPast
    <3>5. BillsHold'
      <4> SUFFICES ASSUME NEW r \in Releases, NEW at \in 0 .. MaxTime, ledger[r].at = at,
                          ledger'[r].state \in {"billed", "unpriced"}
                   PROVE  ledger'[r].amount = AmountOf(r, at)'
        BY <3>2 DEF BillsHold
      <4>1. CASE r \in rows[c]
        <5>1. Billable(r) /\ ledger'[r].amount = quote[c][r]
          BY <3>1, <4>1, SettledRowState
        <5>2. quote[c][r] = AmountOf(r, at)
          BY <3>1, <4>1, <5>1 DEF PriceInv, QuotesHold
        <5>3. at <= clock
          BY <3>3, <4>1 DEF PriceInv, RowsPast
        <5>4. QED
          BY <2>1, <5>1, <5>2, <5>3
      <4>2. CASE r \notin rows[c]
        <5>1. ledger[r].amount = AmountOf(r, at) /\ at <= clock
          BY <3>1, <4>2 DEF PriceInv, BillsHold, RowsPast
        <5>2. QED
          BY <2>1, <3>1, <4>2, <5>1
      <4>3. QED
        BY <4>1, <4>2
    <3>6. QuotesHold'
      <4>1. /\ rows'[c] = {}
            /\ \A d \in Controls \ {c} : /\ rows'[d] = rows[d] /\ left'[d] = left[d]
                                         /\ quote'[d] = quote[d]
        BY <2>5 DEF Settles, EndSettlement, Inv, JobInv, JobTypeOK
      <4>2. QED
        BY <2>0, <2>1, <3>2, <3>3, <4>1 DEF PriceInv, RowsPast, QuotesHold, Billable
    <3>7. QED
      BY <3>4, <3>5, <3>6 DEF PriceInv
  <2>6. QED
    BY RowEffect, <2>2, <2>3, <2>4, <2>5
<1>3. Inv /\ PriceInv => BillsReplayable
  BY DEF Inv, JobInv, JobTypeOK, Row, PriceInv, BillsHold, BillsReplayable
<1>4. QED
  BY <1>1, <1>2, <1>3, Invariance, PTL DEF Spec

-----------------------------------------------------------------------------
(* What operators are told. *)

\* A movement keeps the rows of every journal and adds its own.
LEMMA EntriesGrow ==
  ASSUME NEW t \in Tenants, NEW id, NEW kind, NEW amount, NEW runID,
         WalletTypeOK, Move(t, id, kind, amount, runID)
  PROVE  /\ \A u \in Tenants : Entries(u) \subseteq Entries(u)'
         /\ [id |-> id, kind |-> kind, amount |-> amount, run |-> runID,
             after |-> balance[t] + amount] \in Entries(t)'
<1> DEFINE e == [id |-> id, kind |-> kind, amount |-> amount, run |-> runID,
                 after |-> balance[t] + amount]
           n == Len(journal[t])
<1>1. journal \in [Tenants -> Seq(Movement)] /\ journal[t] \in Seq(Movement)
  BY DEF WalletTypeOK
<1>2. n \in Nat /\ DOMAIN journal[t] = 1 .. n
  BY <1>1, LenProperties
<1>3. journal' = [journal EXCEPT ![t] = Append(@, e)]
  BY DEF Move
<1> HIDE DEF e
<1>4. journal'[t] = Append(journal[t], e) /\ \A u \in Tenants \ {t} : journal'[u] = journal[u]
  BY <1>1, <1>3
<1>5. \A k \in 1 .. n : journal[t][k] \in Movement \cup {e}
  BY <1>1, <1>2, ElementOfSeq
<1>6. journal[t] \in Seq(Movement \cup {e})
  BY <1>1, <1>2, <1>5
<1>7. /\ Append(journal[t], e)[n + 1] = e /\ DOMAIN Append(journal[t], e) = 1 .. n + 1
      /\ \A k \in 1 .. n : Append(journal[t], e)[k] = journal[t][k]
  BY <1>2, <1>6, AppendProperties
<1>8. n + 1 \in 1 .. n + 1 /\ 1 .. n \subseteq 1 .. n + 1
  BY <1>2
<1>9. \A u \in Tenants : Entries(u) \subseteq Entries(u)'
  BY <1>2, <1>4, <1>7, <1>8 DEF Entries
<1>10. e \in Entries(t)'
  BY <1>2, <1>4, <1>7, <1>8 DEF Entries
<1>11. QED
  BY <1>9, <1>10 DEF e

\* No step takes a row out of a journal.
LEMMA EntriesStay ==
  ASSUME Inv, [Next]_vars, NEW u \in Tenants
  PROVE  Entries(u) \subseteq Entries(u)'
<1>0. WalletTypeOK
  BY DEF Inv, WalletInv
<1>1. CASE UNCHANGED journal
  BY <1>1 DEF Entries
<1>2. ASSUME NEW t \in Tenants, NEW id, NEW kind, NEW amount, NEW runID,
             Move(t, id, kind, amount, runID)
      PROVE  Entries(u) \subseteq Entries(u)'
  BY <1>0, <1>2, EntriesGrow
<1>3. ASSUME \/ UNCHANGED vars \/ Tick
             \/ \E m \in Models, from \in 1 .. MaxTime, unit \in Units : CheckPrice(m, from, unit)
             \/ \E p \in inserting : InsertModelPrice(p) \/ DropPrice(p)
             \/ \E r \in Releases : RecordUsage(r) \/ WriteOff(r)
             \/ \E c \in Controls :
                  \/ StartRun(c) \/ pendingTenants(c) \/ SelectRows(c) \/ LockRows(c) \/ PriceRow(c)
                  \/ SettleRefused(c) \/ SettleFails(c) \/ FinishRun(c) \/ AbandonRun(c)
      PROVE  UNCHANGED journal
  BY <1>3 DEF vars, walletVars, Tick, CheckPrice, InsertModelPrice, DropPrice, RecordUsage, WriteOff,
              StartRun, pendingTenants, SelectRows, LockRows, PriceRow, SettleRefused, SettleFails,
              FinishRun, AbandonRun
<1>4. ASSUME NEW r \in Releases, BillHeld(r) PROVE Entries(u) \subseteq Entries(u)'
  <2>1. Usage[r].tenant \in Tenants
    BY UsageAssumption
  <2>2. UNCHANGED journal \/ \E id, amount : Move(Usage[r].tenant, id, "debit", amount, FreshRun)
    BY <1>4 DEF BillHeld
  <2>3. QED
    BY <1>1, <1>2, <2>1, <2>2
<1>5. ASSUME NEW c \in Controls, Settle(c) PROVE Entries(u) \subseteq Entries(u)'
  <2>1. rows[c] # {} /\ rows[c] \subseteq Releases
    BY <1>5 DEF Settle, Inv, JobInv, JobShape, JobTypeOK
  <2>2. (CHOOSE r \in rows[c] : TRUE) \in rows[c]
    BY <2>1
  <2>3. TenantOf(c) \in Tenants
    BY <2>1, <2>2, UsageAssumption DEF TenantOf
  <2>4. UNCHANGED journal \/ Move(TenantOf(c), DebitId(c), "debit", -debited[c], run[c])
    BY <1>5 DEF Settle
  <2>5. QED
    BY <1>1, <1>2, <2>3, <2>4
<1>6. ASSUME NEW q \in Requests, ConsoleStep(q) PROVE Entries(u) \subseteq Entries(u)'
  <2>1. Request[q].tenant \in Tenants
    BY RequestAssumption DEF Body
  <2>2. \/ UNCHANGED journal
        \/ Move(Request[q].tenant, Key(q), Request[q].kind, Request[q].amount, NoRun)
    BY <1>6 DEF ConsoleStep, Submit, EnsureWallet, ApplyMovement, ConfirmReplay, CallFails, walletVars
  <2>3. QED
    BY <1>1, <1>2, <2>1, <2>2
<1>7. QED
  BY <1>1, <1>3, <1>4, <1>5, <1>6 DEF Next, Step

\* A request that was just answered "created" or "replayed" has its movement in
\* the journal.
LEMMA AnswerEarned ==
  ASSUME NEW q \in Requests, NEW p \in Requests, WalletTypeOK, ConsoleStep(p),
         answer'[q] \in {"created", "replayed"}, answer'[q] # answer[q]
  PROVE  Landed(q)'
<1> USE DEF Answer
<1>0. answer \in [Requests -> {"none", "created", "replayed", "conflict", "not_found", "error"}]
  BY DEF WalletTypeOK
<1>1. answer' # answer
  OBVIOUS
<1>2. p = q
  BY <1>0 DEF ConsoleStep, Submit, EnsureWallet, ApplyMovement, ConfirmReplay, CallFails
<1>3. CASE ApplyMovement(q)
  <2> DEFINE b == Request[q]
             e == [id |-> Key(q), kind |-> b.kind, amount |-> b.amount, run |-> NoRun,
                   after |-> balance[b.tenant] + b.amount]
  <2>1. Move(b.tenant, Key(q), b.kind, b.amount, NoRun)
    BY <1>0, <1>3 DEF ApplyMovement
  <2>2. b.tenant \in Tenants
    BY RequestAssumption DEF Body
  <2>3. e \in Entries(b.tenant)'
    <3> HIDE DEF b
    <3> QED BY <2>1, <2>2, EntriesGrow
  <2>4. e.id = Key(q) /\ e.kind = b.kind /\ e.amount = b.amount
    OBVIOUS
  <2>5. QED
    BY <2>3, <2>4 DEF Landed, Key
<1>4. CASE ConfirmReplay(q)
  <2>1. Replayed(q) # {} /\ UNCHANGED journal
    BY <1>0, <1>4 DEF ConfirmReplay, walletVars
  <2>2. QED
    BY <2>1 DEF Replayed, Landed, Entries, Key
<1>5. QED
  BY <1>0, <1>1, <1>2, <1>3, <1>4 DEF ConsoleStep, Submit, EnsureWallet, CallFails

\* An operator who was told "created" or "replayed" finds this very movement in
\* the tenant's journal, whatever retries, lost answers and other keys raced it.
THEOREM AnswersTrue == Spec => []AnswersAreTrue
<1>1. Init => AnswersAreTrue
  BY DEF Init, WalletInit, AnswersAreTrue
<1>2. Inv /\ AnswersAreTrue /\ [Next]_vars => AnswersAreTrue'
  <2> SUFFICES ASSUME Inv, AnswersAreTrue, [Next]_vars,
                      NEW q \in Requests, answer'[q] \in {"created", "replayed"}
               PROVE  Landed(q)'
    BY DEF AnswersAreTrue
  <2>1. CASE answer'[q] = answer[q]
    <3>1. Landed(q) /\ Request[q].tenant \in Tenants
      BY <2>1, RequestAssumption DEF AnswersAreTrue, Body
    <3>2. Entries(Request[q].tenant) \subseteq Entries(Request[q].tenant)'
      BY <3>1, EntriesStay
    <3>3. QED
      BY <3>1, <3>2 DEF Landed, Key
  <2>2. CASE answer'[q] # answer[q]
    <3>1. PICK p \in Requests : ConsoleStep(p)
      BY <2>2 DEF vars, callVars, Next, Tick, CheckPrice, InsertModelPrice, DropPrice, RecordUsage,
                  WriteOff, BillHeld, Step, StartRun, pendingTenants, SelectRows, LockRows, PriceRow,
                  Settle, SettleRefused, SettleFails, FinishRun, AbandonRun
    <3>2. QED
      BY <2>2, <3>1, AnswerEarned DEF Inv, WalletInv
  <2>3. QED
    BY <2>1, <2>2
<1>3. QED
  BY <1>1, <1>2, Invariance, PTL DEF Spec
=============================================================================
