----------------------------- MODULE MCBilling -----------------------------
\* Instances of Reconciliation (and with it Billing and Wallet) for TLC.
EXTENDS Reconciliation, TLC

CONSTANTS c1, c2, t1, t2, m1, r1, r2, q1, q2, k1

Served(source) == [source |-> source, partial |-> FALSE, succeeded |-> TRUE]

Event(t, class, n) == [tenant |-> t, model |-> m1, class |-> class, tokens |-> n]

Body_(k, t, kind, n) == [id |-> k, tenant |-> t, kind |-> kind, amount |-> n]

\* One tenant: two rows whose exact cost is half a unit, settled by two controls.
OneTenantUsage == r1 :> Event(t1, Served("upstream"), 1) @@ r2 :> Event(t1, Served("upstream"), 1)

\* A row the job bills and one it holds, served without usage.
HeldUsage == r1 :> Event(t1, Served("upstream"), 1) @@ r2 :> Event(t1, Served("missing"), 1)

\* Two tenants, of which only t1 is ever topped up.
TwoTenantUsage == r1 :> Event(t1, Served("upstream"), 1) @@ r2 :> Event(t2, Served("upstream"), 1)

OneTopup == q1 :> Body_(k1, t1, "topup", 1)

\* A top-up, and a correction that reuses its ID with the opposite sign.
ReusedId == q1 :> Body_(k1, t1, "topup", 1) @@ q2 :> Body_(k1, t1, "adjustment", -1)

Symmetry == Permutations({c1, c2})
=============================================================================
