------------------------------- MODULE Wallet -------------------------------
(***************************************************************************)
(* Prepaid wallets and their journal, and the two console endpoints that   *)
(* move money by hand.                                                     *)
(*                                                                         *)
(*   internal/control/billing.go          EnsureWallet, ApplyMovement      *)
(*   internal/control/console_billing.go  handleTopup, handleAdjust,       *)
(*                                        confirmReplay                    *)
(*                                                                         *)
(* A movement runs in one transaction under the wallet's row lock, so its  *)
(* effect is one step.  A call whose transaction fails, or commits and     *)
(* loses the answer, is an "error" to the operator, who may send the same  *)
(* request again: its ID is the idempotency key.                           *)
(***************************************************************************)
EXTENDS Integers, Sequences

CONSTANTS
  Tenants,
  Requests,    \* calls of the topup and adjust endpoints
  Request,     \* Request[q]: the body of call q
  MovementIds, \* idempotency keys the operators use
  RunIds,      \* billing run IDs
  MaxFaults    \* bound: failed calls and crashes

Body == [id : MovementIds, tenant : Tenants, kind : {"topup", "adjustment"}, amount : Int]

\* The checks both handlers make before they touch the database.
ValidBody(b) == b.amount # 0 /\ (b.kind = "topup" => b.amount > 0)

ASSUME RequestAssumption == /\ Request \in [Requests -> Body]
                            /\ \A q \in Requests : ValidBody(Request[q])
ASSUME MaxFaultsAssumption == MaxFaults \in Nat
ASSUME RunIdsAssumption == RunIds \subseteq Nat \ {0}

VARIABLES
  wallets,  \* tenants with a row in tenant_wallets
  balance,  \* balance[t], 0 without a wallet
  journal,  \* journal[t]: rows of wallet_transactions in commit order
  call,     \* call[q]: where the handler of request q is
  answer,   \* answer[q]: what the last call of q returned
  faults    \* faults so far

walletVars == <<wallets, balance, journal>>
callVars   == <<call, answer>>

NoRun == 0

\* A transaction ID is an operator's key or a run and a tenant.
TransactionId == [key : MovementIds] \cup [run : RunIds, tenant : Tenants]

Movement == [id : TransactionId, kind : {"topup", "adjustment", "debit"}, amount : Int,
             run : RunIds \cup {NoRun}, after : Int]

WalletTypeOK ==
  /\ wallets \subseteq Tenants
  /\ balance \in [Tenants -> Int]
  /\ journal \in [Tenants -> Seq(Movement)]
  /\ call \in [Requests -> {"idle", "ensure", "move", "confirm"}]
  /\ answer \in [Requests -> {"none", "created", "replayed", "conflict", "not_found", "error"}]
  /\ faults \in 0 .. MaxFaults

WalletInit ==
  /\ wallets = {}
  /\ balance = [t \in Tenants |-> 0]
  /\ journal = [t \in Tenants |-> << >>]
  /\ call = [q \in Requests |-> "idle"]
  /\ answer = [q \in Requests |-> "none"]
  /\ faults = 0

Fault == faults < MaxFaults /\ faults' = faults + 1

Entries(t) == {journal[t][k] : k \in DOMAIN journal[t]}

\* wallet_transactions.id is a primary key that spans every tenant.
IdUsed(id) == \E t \in Tenants : \E e \in Entries(t) : e.id = id

\* checkMovementKind
KindAllows(kind, amount) ==
  \/ kind = "topup" /\ amount > 0
  \/ kind = "debit" /\ amount < 0
  \/ kind = "adjustment" /\ amount # 0

\* Mutant: the journal row records the balance before the movement.
MoveBefore(t, id, kind, amount, runID) ==
  /\ balance' = [balance EXCEPT ![t] = @ + amount]
  /\ journal' = [journal EXCEPT ![t] =
       Append(@, [id |-> id, kind |-> kind, amount |-> amount, run |-> runID,
                  after |-> balance[t]])]

\* balance = balance + amount, and the journal row that records it.
Move(t, id, kind, amount, runID) ==
  /\ balance' = [balance EXCEPT ![t] = @ + amount]
  /\ journal' = [journal EXCEPT ![t] =
       Append(@, [id |-> id, kind |-> kind, amount |-> amount, run |-> runID,
                  after |-> balance[t] + amount])]

\* A movement that finds its wallet, an unused ID and an amount of its kind.
MovementAllowed(t, id, kind, amount) ==
  t \in wallets /\ ~IdUsed(id) /\ KindAllows(kind, amount)

Key(q) == [key |-> Request[q].id]

\* The handler of q returns a.
Answer(q, a) ==
  /\ call' = [call EXCEPT ![q] = "idle"]
  /\ answer' = [answer EXCEPT ![q] = a]

\* An operator sends request q, for the first time or again after an error.
Submit(q) ==
  /\ call[q] = "idle" /\ answer[q] \in {"none", "error"}
  /\ call' = [call EXCEPT ![q] = IF Request[q].kind = "topup" THEN "ensure" ELSE "move"]
  /\ UNCHANGED <<walletVars, answer, faults>>

\* EnsureWallet: INSERT ... ON CONFLICT (tenant_id) DO NOTHING, topups only.
EnsureWallet(q) ==
  /\ call[q] = "ensure"
  /\ wallets' = wallets \cup {Request[q].tenant}
  /\ call' = [call EXCEPT ![q] = "move"]
  /\ UNCHANGED <<balance, journal, answer, faults>>

\* ApplyMovement of request q.  The answer of a committed movement may be lost.
ApplyMovement(q) ==
  /\ call[q] = "move"
  /\ LET b == Request[q] IN
       \/ /\ b.tenant \notin wallets
          /\ Answer(q, "not_found")
          /\ UNCHANGED <<walletVars, faults>>
       \/ /\ b.tenant \in wallets /\ IdUsed(Key(q))
          /\ call' = [call EXCEPT ![q] = "confirm"]
          /\ UNCHANGED <<walletVars, answer, faults>>
       \/ /\ MovementAllowed(b.tenant, Key(q), b.kind, b.amount)
          /\ Move(b.tenant, Key(q), b.kind, b.amount, NoRun)
          /\ \/ Answer(q, "created") /\ UNCHANGED faults
             \/ Answer(q, "error") /\ Fault
          /\ UNCHANGED wallets

\* Mutant: any row of the tenant with this ID is taken for the retry.
AnyMovement(q) == {e \in Entries(Request[q].tenant) : e.id = Key(q)}

\* The journal rows that confirmReplay accepts as request q itself.
Replayed(q) ==
  {e \in Entries(Request[q].tenant) :
     e.id = Key(q) /\ e.kind = Request[q].kind /\ e.amount = Request[q].amount}

\* confirmReplay after a duplicate key: the row is read back and compared.
\* A failure of that read is reported like a row of another tenant.
ConfirmReplay(q) ==
  /\ call[q] = "confirm"
  /\ \/ Answer(q, IF Replayed(q) # {} THEN "replayed" ELSE "conflict") /\ UNCHANGED faults
     \/ Answer(q, "conflict") /\ Fault
  /\ UNCHANGED walletVars

\* Any other failure before the commit: nothing is written, the answer is 500.
CallFails(q) ==
  /\ call[q] \in {"ensure", "move"}
  /\ Answer(q, "error")
  /\ Fault
  /\ UNCHANGED walletVars

ConsoleStep(q) == Submit(q) \/ EnsureWallet(q) \/ ApplyMovement(q) \/ ConfirmReplay(q)
                  \/ CallFails(q)

-----------------------------------------------------------------------------

Last(t) == IF journal[t] = << >> THEN 0 ELSE journal[t][Len(journal[t])].after

\* balance_after is never wrong: every journal row continues from the row
\* before it, and the balance a reader sees is the one of the last row.
JournalChains ==
  \A t \in Tenants :
    /\ balance[t] = Last(t)
    /\ \A k \in 1 .. Len(journal[t]) :
         journal[t][k].after =
           (IF k = 1 THEN 0 ELSE journal[t][k - 1].after) + journal[t][k].amount

Landed(q) == \E e \in Entries(Request[q].tenant) :
               e.id = Key(q) /\ e.kind = Request[q].kind /\ e.amount = Request[q].amount

\* An operator told "created" or "replayed" has this very movement in the
\* journal of the tenant: same kind and amount, never another movement that
\* happened to use the ID.
AnswersAreTrue ==
  \A q \in Requests : answer[q] \in {"created", "replayed"} => Landed(q)

\* An operator told the ID is taken by another movement can pick a new ID: the
\* movement asked for is not in the journal already (confirmReplay's comment).
ConflictsAreReal ==
  \A q \in Requests : answer[q] = "conflict" => ~Landed(q)
=============================================================================
