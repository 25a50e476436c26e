----------------------- MODULE ReconciliationProofs -----------------------
(***************************************************************************)
(* The books balance, for any number of tenants, rows, runs and processes. *)
(*                                                                         *)
(* First what SumFunctionOnSet computes.  It folds along a recursion over  *)
(* the subsets of its set; that the recursion has a solution, and that the *)
(* order of the elements does not matter, follows from the smallest subset *)
(* for which it would fail.  Then the invariant: what a settlement has     *)
(* added up is the sum of its quotes, and the ledger, the runs and the     *)
(* journals agree at every instant.                                        *)
(***************************************************************************)
EXTENDS Reconciliation, BillingProofs, FiniteSetTheorems

-----------------------------------------------------------------------------
(* Sums. *)

\* The element that the fold takes next.
Pick(s) == CHOOSE x \in s : TRUE

\* h has the sums of f over the sets of D, each from a set with one element less.
SumsOn(h, f, D) ==
  h = [s \in D |-> IF s = {} THEN 0 ELSE f[Pick(s)] + h[s \ {Pick(s)}]]

\* SumFunctionOnSet takes the value at S of some solution of that recursion.
LEMMA SumUnfold ==
  ASSUME NEW f, NEW S
  PROVE  SumFunctionOnSet(f, S) = (CHOOSE h : SumsOn(h, f, SUBSET S))[S]
  BY DEF SumFunctionOnSet, FoldFunctionOnSet, MapThenFoldSet, SumsOn, Pick

\* A nonempty set of naturals has a least element.
LEMMA NatMin ==
  ASSUME NEW T, T \subseteq Nat, T # {}
  PROVE  \E n \in T : \A m \in T : n <= m
<1> DEFINE Less == {ss \in Nat \X Nat : ss[1] < ss[2]}
<1>1. IsWellFoundedOn(Less, Nat)
  BY NatLessThanWellFounded, Zenon DEF OpToRel
<1>2. PICK n \in T : \A m \in T : ~(<<m, n>> \in Less)
  <2> HIDE DEF Less
  <2> QED BY <1>1, WFMin
<1>3. ASSUME NEW m \in T PROVE n <= m
  <2>1. m \in Nat /\ n \in Nat /\ <<m, n>> \in Nat \X Nat
    OBVIOUS
  <2>2. ~(m < n)
    BY <1>2, <2>1
  <2>3. QED
    BY <2>1, <2>2
<1>4. QED
  BY <1>3

\* Induction over the subsets of a finite set: of the subsets in B one is bad
\* although none with an element less is.
LEMMA SmallestBad ==
  ASSUME NEW S, IsFiniteSet(S), NEW B, B \subseteq SUBSET S, B # {}
  PROVE  \E s \in B : \A x \in s : s \ {x} \notin B
<1>1. \A s \in B : IsFiniteSet(s) /\ Cardinality(s) \in Nat
  BY FS_Subset, FS_CardinalityType
<1> DEFINE T == {Cardinality(s) : s \in B}
<1>2. PICK n \in T : \A m \in T : n <= m
  <2>1. T \subseteq Nat /\ T # {}
    BY <1>1
  <2> HIDE DEF T
  <2> QED BY <2>1, NatMin
<1>3. PICK s \in B : n = Cardinality(s)
  OBVIOUS
<1>4. ASSUME NEW x \in s, s \ {x} \in B PROVE FALSE
  <2>1. Cardinality(s \ {x}) = Cardinality(s) - 1
    BY <1>1, FS_RemoveElement
  <2>2. Cardinality(s) <= Cardinality(s \ {x})
    BY <1>2, <1>3, <1>4
  <2>3. QED
    BY <1>1, <2>1, <2>2
<1>5. QED
  BY <1>4

\* Pick takes an element.
LEMMA PickIn == ASSUME NEW s, s # {} PROVE Pick(s) \in s
  BY DEF Pick

\* The recursion behind SumFunctionOnSet has a solution.
LEMMA SumsExist ==
  ASSUME NEW f, NEW S, IsFiniteSet(S)
  PROVE  \E h : SumsOn(h, f, SUBSET S)
<1> DEFINE D(n) == {s \in SUBSET S : Cardinality(s) <= n}
           T == {n \in Nat : ~ \E h : SumsOn(h, f, D(n))}
<1>1. \A s \in SUBSET S : IsFiniteSet(s) /\ Cardinality(s) \in Nat /\ Cardinality(s) <= Cardinality(S)
  BY FS_Subset, FS_CardinalityType
<1>2. T = {}
  <2>1. SUFFICES ASSUME T # {} PROVE FALSE
    OBVIOUS
  <2>2. PICK n \in T : \A m \in T : n <= m
    <3>1. T \subseteq Nat
      OBVIOUS
    <3> HIDE DEF T
    <3> QED BY <2>1, <3>1, NatMin
  <2>3. n \in Nat /\ ~ \E h : SumsOn(h, f, D(n))
    BY <2>2
  <2>4. \A s \in D(n) : s # {} => s \ {Pick(s)} \in SUBSET S /\ Cardinality(s \ {Pick(s)}) = Cardinality(s) - 1
    BY <1>1, PickIn, FS_RemoveElement
  <2>5. CASE n = 0
    <3>1. \A s \in D(0) : s = {}
      BY <1>1, FS_EmptySet
    <3>2. SumsOn([s \in D(0) |-> 0], f, D(0))
      BY <3>1 DEF SumsOn
    <3>3. QED
      BY <2>3, <2>5, <3>2
  <2>6. CASE n # 0
    <3>1. n - 1 \in Nat /\ ~(n <= n - 1)
      BY <2>3, <2>6
    <3>2. n - 1 \notin T
      <4> HIDE DEF T
      <4> QED BY <2>2, <3>1
    <3>3. PICK g : SumsOn(g, f, D(n - 1))
      BY <3>1, <3>2
    <3> DEFINE h == [s \in D(n) |-> IF s = {} THEN 0 ELSE f[Pick(s)] + g[s \ {Pick(s)}]]
    <3>4. ASSUME NEW s \in D(n - 1) PROVE s \in D(n) /\ g[s] = h[s]
      <4>1. s \in D(n)
        BY <1>1, <2>3
      <4>2. g[s] = IF s = {} THEN 0 ELSE f[Pick(s)] + g[s \ {Pick(s)}]
        BY <3>3 DEF SumsOn
      <4>3. QED
        BY <4>1, <4>2
    <3>5. ASSUME NEW s \in D(n), s # {} PROVE g[s \ {Pick(s)}] = h[s \ {Pick(s)}]
      <4>1. s \ {Pick(s)} \in D(n - 1)
        BY <1>1, <2>3, <2>4, <3>5
      <4>2. QED
        BY <3>4, <4>1
    <3>6. \A s \in D(n) : h[s] = IF s = {} THEN 0 ELSE f[Pick(s)] + h[s \ {Pick(s)}]
      BY <3>5
    <3>7. h = [s \in D(n) |-> h[s]]
      OBVIOUS
    <3> HIDE DEF h, D
    <3>8. SumsOn(h, f, D(n))
      BY <3>6, <3>7 DEF SumsOn
    <3>9. QED
      BY <2>3, <3>8
  <2>7. QED
    BY <2>5, <2>6
<1>3. Cardinality(S) \in Nat
  BY FS_CardinalityType
<1>4. D(Cardinality(S)) = SUBSET S
  BY <1>1
<1>5. QED
  BY <1>2, <1>3, <1>4

\* A solution, one element at a time.
LEMMA SumsStep ==
  ASSUME NEW h, NEW f, NEW S, SumsOn(h, f, SUBSET S), NEW s \in SUBSET S
  PROVE  /\ s = {} => h[s] = 0
         /\ s # {} => Pick(s) \in s /\ h[s] = f[Pick(s)] + h[s \ {Pick(s)}]
  BY PickIn DEF SumsOn

\* f goes on where g ends: on R, a part of S, they are the same.
Extends(f, S, g, R) == R \subseteq S /\ \A x \in R : f[x] = g[x]

\* Two solutions agree wherever the functions do.
LEMMA SumsAgree ==
  ASSUME NEW f, NEW g, NEW S, NEW R, NEW h, NEW k, IsFiniteSet(R), Extends(f, S, g, R),
         SumsOn(h, f, SUBSET S), SumsOn(k, g, SUBSET R)
  PROVE  h[R] = k[R]
<1> DEFINE B == {s \in SUBSET R : h[s] # k[s]}
<1>1. SUFFICES ASSUME B # {} PROVE FALSE
  OBVIOUS
<1>2. PICK s \in B : \A x \in s : s \ {x} \notin B
  <2>1. B \subseteq SUBSET R
    OBVIOUS
  <2> HIDE DEF B
  <2> QED BY <1>1, <2>1, SmallestBad
<1>3. s \in SUBSET R /\ s \in SUBSET S /\ h[s] # k[s]
  BY DEF Extends
<1>4. CASE s = {}
  BY <1>3, <1>4, SumsStep
<1>5. CASE s # {}
  <2>1. Pick(s) \in s
    BY <1>5, PickIn
  <2>2. h[s \ {Pick(s)}] = k[s \ {Pick(s)}]
    BY <1>2, <1>3, <2>1
  <2>3. h[s] = f[Pick(s)] + h[s \ {Pick(s)}]
    BY <1>3, <1>5, SumsStep
  <2>4. k[s] = g[Pick(s)] + k[s \ {Pick(s)}]
    BY <1>3, <1>5, SumsStep
  <2>5. QED
    BY <1>3, <2>1, <2>2, <2>3, <2>4 DEF Extends
<1>6. QED
  BY <1>4, <1>5

\* The sum over S, from the solution over S.
LEMMA SumSolves ==
  ASSUME NEW f, NEW S, IsFiniteSet(S)
  PROVE  \E h : SumsOn(h, f, SUBSET S) /\ \A R \in SUBSET S : SumFunctionOnSet(f, R) = h[R]
<1>1. PICK h : SumsOn(h, f, SUBSET S)
  BY SumsExist
<1>2. ASSUME NEW R \in SUBSET S PROVE SumFunctionOnSet(f, R) = h[R]
  <2> DEFINE k == CHOOSE k : SumsOn(k, f, SUBSET R)
  <2>1. IsFiniteSet(R)
    BY FS_Subset
  <2>2. SumsOn(k, f, SUBSET R)
    BY <2>1, SumsExist
  <2>3. SumFunctionOnSet(f, R) = k[R]
    BY SumUnfold
  <2> HIDE DEF k
  <2>4. Extends(f, S, f, R)
    BY DEF Extends
  <2>5. h[R] = k[R]
    BY <1>1, <2>1, <2>2, <2>4, SumsAgree
  <2>6. QED
    BY <2>3, <2>5
<1>3. QED
  BY <1>1, <1>2

\* Nothing adds up to nothing.
LEMMA SumEmpty == ASSUME NEW f PROVE SumFunctionOnSet(f, {}) = 0
<1>1. PICK h : SumsOn(h, f, SUBSET {}) /\ SumFunctionOnSet(f, {}) = h[{}]
  BY SumSolves, FS_EmptySet
<1>2. QED
  BY <1>1, SumsStep

\* Only the values on S matter.
LEMMA SumSame ==
  ASSUME NEW f, NEW g, NEW S, IsFiniteSet(S), \A x \in S : f[x] = g[x]
  PROVE  SumFunctionOnSet(f, S) = SumFunctionOnSet(g, S)
<1>1. PICK h : SumsOn(h, f, SUBSET S) /\ SumFunctionOnSet(f, S) = h[S]
  BY SumSolves
<1>2. PICK k : SumsOn(k, g, SUBSET S) /\ SumFunctionOnSet(g, S) = k[S]
  BY SumSolves
<1>3. Extends(f, S, g, S)
  BY DEF Extends
<1>4. h[S] = k[S]
  BY <1>1, <1>2, <1>3, SumsAgree
<1>5. QED
  BY <1>1, <1>2, <1>4

\* The sums of integers are integers.
LEMMA SumsInt ==
  ASSUME NEW f, NEW S, IsFiniteSet(S), \A x \in S : f[x] \in Int,
         NEW h, SumsOn(h, f, SUBSET S)
  PROVE  \A s \in SUBSET S : h[s] \in Int
<1> DEFINE B == {s \in SUBSET S : h[s] \notin Int}
<1>1. SUFFICES ASSUME B # {} PROVE FALSE
  OBVIOUS
<1>2. PICK s \in B : \A x \in s : s \ {x} \notin B
  <2>1. B \subseteq SUBSET S
    OBVIOUS
  <2> HIDE DEF B
  <2> QED BY <1>1, <2>1, SmallestBad
<1>3. s \in SUBSET S /\ h[s] \notin Int
  OBVIOUS
<1> HIDE DEF B
<1>4. s # {}
  BY <1>3, SumsStep
<1>5. Pick(s) \in s
  BY <1>4, PickIn
<1>6. h[s \ {Pick(s)}] \in Int
  BY <1>2, <1>3, <1>5 DEF B
<1>7. h[s] = f[Pick(s)] + h[s \ {Pick(s)}]
  BY <1>3, <1>4, SumsStep
<1>8. QED
  BY <1>3, <1>5, <1>6, <1>7

\* Any element may be the one that is added last.
LEMMA SumsAny ==
  ASSUME NEW f, NEW S, IsFiniteSet(S), \A x \in S : f[x] \in Int,
         NEW h, SumsOn(h, f, SUBSET S)
  PROVE  \A s \in SUBSET S : \A x \in s : h[s] = f[x] + h[s \ {x}]
<1> DEFINE B == {s \in SUBSET S : \E x \in s : h[s] # f[x] + h[s \ {x}]}
<1>1. SUFFICES ASSUME B # {} PROVE FALSE
  OBVIOUS
<1>2. PICK s \in B : \A x \in s : s \ {x} \notin B
  <2>1. B \subseteq SUBSET S
    OBVIOUS
  <2> HIDE DEF B
  <2> QED BY <1>1, <2>1, SmallestBad
<1>3. s \in SUBSET S
  OBVIOUS
<1>4. PICK x \in s : h[s] # f[x] + h[s \ {x}]
  OBVIOUS
<1> DEFINE y == Pick(s)
<1>5. s # {}
  BY <1>4
<1>6. y \in s
  BY <1>5, PickIn
<1>7. h[s] = f[Pick(s)] + h[s \ {Pick(s)}]
  <2> HIDE DEF B
  <2> QED BY <1>3, <1>5, SumsStep
<1>8. y \in s /\ h[s] = f[y] + h[s \ {y}]
  BY <1>6, <1>7
<1> HIDE DEF y
<1>9. x # y
  BY <1>4, <1>8
<1>10. x \in s \ {y} /\ y \in s \ {x} /\ s \ {x} \in SUBSET S /\ s \ {y} \in SUBSET S
  BY <1>3, <1>8, <1>9
<1>11. h[s \ {y}] = f[x] + h[(s \ {y}) \ {x}]
  BY <1>2, <1>8, <1>10
<1>12. h[s \ {x}] = f[y] + h[(s \ {x}) \ {y}]
  BY <1>2, <1>4, <1>10
<1>13. (s \ {y}) \ {x} = (s \ {x}) \ {y} /\ (s \ {y}) \ {x} \in SUBSET S
  BY <1>3
<1>14. f[x] \in Int /\ f[y] \in Int /\ h[(s \ {y}) \ {x}] \in Int
  BY <1>3, <1>4, <1>8, <1>13, SumsInt
<1>15. h[s] = f[y] + (f[x] + h[(s \ {y}) \ {x}])
  BY <1>8, <1>11
<1>16. f[x] + h[s \ {x}] = f[x] + (f[y] + h[(s \ {y}) \ {x}])
  BY <1>12, <1>13
<1>17. QED
  BY <1>4, <1>14, <1>15, <1>16

\* So is the sum over S.
LEMMA SumInt ==
  ASSUME NEW f, NEW S, IsFiniteSet(S), \A x \in S : f[x] \in Int
  PROVE  SumFunctionOnSet(f, S) \in Int
<1>1. PICK h : SumsOn(h, f, SUBSET S) /\ SumFunctionOnSet(f, S) = h[S]
  BY SumSolves
<1>2. QED
  BY <1>1, SumsInt

\* One element more adds its value.
LEMMA SumAdd ==
  ASSUME NEW f, NEW S, IsFiniteSet(S), NEW x, x \notin S, f[x] \in Int, \A y \in S : f[y] \in Int
  PROVE  SumFunctionOnSet(f, S \cup {x}) = SumFunctionOnSet(f, S) + f[x]
<1> DEFINE R == S \cup {x}
<1>1. IsFiniteSet(R) /\ S \in SUBSET R /\ x \in R /\ R \ {x} = S /\ \A y \in R : f[y] \in Int
  BY FS_AddElement
<1> HIDE DEF R
<1>2. PICK h : SumsOn(h, f, SUBSET R) /\ \A Q \in SUBSET R : SumFunctionOnSet(f, Q) = h[Q]
  BY <1>1, SumSolves
<1>3. h[R] = f[x] + h[S]
  BY <1>1, <1>2, SumsAny
<1>4. SumFunctionOnSet(f, R) = h[R] /\ SumFunctionOnSet(f, S) = h[S]
  BY <1>1, <1>2
<1>5. SumFunctionOnSet(f, S) \in Int
  BY SumInt
<1>6. QED
  BY <1>3, <1>4, <1>5 DEF R

\* The sums over two sets without a common element add up.
LEMMA SumUnion ==
  ASSUME NEW f, NEW S, IsFiniteSet(S), NEW R, IsFiniteSet(R), S \cap R = {},
         \A x \in S \cup R : f[x] \in Int
  PROVE  SumFunctionOnSet(f, S \cup R) = SumFunctionOnSet(f, S) + SumFunctionOnSet(f, R)
<1> DEFINE B == {s \in SUBSET R : SumFunctionOnSet(f, S \cup s)
                                    # SumFunctionOnSet(f, S) + SumFunctionOnSet(f, s)}
<1>1. SUFFICES ASSUME B # {} PROVE FALSE
  OBVIOUS
<1>2. PICK s \in B : \A x \in s : s \ {x} \notin B
  <2>1. B \subseteq SUBSET R
    OBVIOUS
  <2> HIDE DEF B
  <2> QED BY <1>1, <2>1, SmallestBad
<1>3. s \in SUBSET R /\ SumFunctionOnSet(f, S \cup s) # SumFunctionOnSet(f, S) + SumFunctionOnSet(f, s)
  OBVIOUS
<1>4. SumFunctionOnSet(f, S) \in Int
  BY SumInt
<1>5. CASE s = {}
  <2>1. SumFunctionOnSet(f, {}) = 0 /\ S \cup {} = S
    BY SumEmpty
  <2>2. QED
    BY <1>3, <1>4, <1>5, <2>1
<1>6. CASE s # {}
  <2>1. PICK x \in s : TRUE
    BY <1>6
  <2> DEFINE q == s \ {x}
  <2>2. /\ q \in SUBSET R /\ IsFiniteSet(q) /\ x \notin q /\ x \notin S \cup q
        /\ q \cup {x} = s /\ (S \cup q) \cup {x} = S \cup s
    BY <1>3, <2>1, FS_Subset
  <2>3. SumFunctionOnSet(f, S \cup q) = SumFunctionOnSet(f, S) + SumFunctionOnSet(f, q)
    BY <1>2, <2>1, <2>2
  <2>4. /\ IsFiniteSet(S \cup q) /\ f[x] \in Int /\ (\A y \in q : f[y] \in Int)
        /\ \A y \in S \cup q : f[y] \in Int
    BY <1>3, <2>2, FS_Union
  <2> HIDE DEF q
  <2>5. SumFunctionOnSet(f, s) = SumFunctionOnSet(f, q) + f[x]
    BY <2>2, <2>4, SumAdd
  <2>6. SumFunctionOnSet(f, S \cup s) = SumFunctionOnSet(f, S \cup q) + f[x]
    BY <2>2, <2>4, SumAdd
  <2>7. SumFunctionOnSet(f, q) \in Int
    BY <2>2, <2>4, SumInt
  <2>8. QED
    BY <1>3, <1>4, <2>3, <2>4, <2>5, <2>6, <2>7
<1>7. QED
  BY <1>5, <1>6
-----------------------------------------------------------------------------
(* The invariant. *)

\* A row has an amount and a run exactly when it is billed.
RowsMarked ==
  \A r \in Releases :
    IF ledger[r].state = "billed" THEN ledger[r].amount \in Nat /\ ledger[r].run \in RunIds
                                  ELSE ledger[r].amount = NoAmount

\* The rows a settlement has priced.
Priced(c) == {r \in rows[c] : quote[c][r] # NoAmount}

\* What is in settlement belongs to one tenant, and the sum so far is that of
\* the quotes so far.
Adds(c) ==
  /\ \A r, s \in found[c] \cup rows[c] : Usage[r].tenant = Usage[s].tenant
  /\ \A r \in left[c] : quote[c][r] = NoAmount
  /\ found[c] \subseteq Rows
  /\ debited[c] = SumFunctionOnSet(quote[c], Priced(c))

\* What operators moved by hand, and what the billed rows of t charge.
Deposits(t) == SumJournal(t, DOMAIN journal[t] \ Debits(t))
Charged(t) == SumFunctionOnSet(RowAmount, {r \in BilledRows : Usage[r].tenant = t})

\* Run i debited t what it billed, the balance of t is the sum of its journal,
\* and nothing of it was created or lost.
Agree(t, i) ==
  /\ RunLedgerTotal(t, i) = RunWalletDebit(t, i)
  /\ balance[t] = JournalSum(t)
  /\ balance[t] = Deposits(t) - Charged(t)

SettlementsAdd == \A c \in Controls : Adds(c)
TotalsAgree == \A t \in Tenants, i \in RunIds \cup {NoRun} : Agree(t, i)

\* The inductive invariant, beside the one of BillingProofs.
BookInv == IsFiniteSet(Rows) /\ RowsMarked /\ SettlementsAdd /\ TotalsAgree

-----------------------------------------------------------------------------
(* What a movement adds to the sums over a journal. *)

\* The debits of a run, by position.
RunDebits(t, i) == {k \in Debits(t) : journal[t][k].run = i}

\* The positions of a journal are finite and its amounts are integers.
LEMMA JournalFinite ==
  ASSUME WalletTypeOK, NEW t \in Tenants
  PROVE  /\ IsFiniteSet(DOMAIN journal[t])
         /\ \A k \in DOMAIN journal[t] : Moved(t)[k] \in Int
<1>1. journal[t] \in Seq(Movement) /\ Len(journal[t]) \in Nat /\ DOMAIN journal[t] = 1 .. Len(journal[t])
  BY LenProperties DEF WalletTypeOK
<1>2. \A k \in DOMAIN journal[t] : journal[t][k] \in Movement
  BY <1>1, ElementOfSeq
<1>3. IsFiniteSet(DOMAIN journal[t])
  BY <1>1, FS_Interval
<1>4. QED
  BY <1>2, <1>3 DEF Movement, Moved

\* Every sum over positions of a journal is an integer.
LEMMA JournalSumInt ==
  ASSUME WalletTypeOK, NEW t \in Tenants, NEW K, K \subseteq DOMAIN journal[t]
  PROVE  IsFiniteSet(K) /\ SumJournal(t, K) \in Int
<1>1. IsFiniteSet(K) /\ \A k \in K : Moved(t)[k] \in Int
  BY JournalFinite, FS_Subset
<1>2. QED
  BY <1>1, SumInt DEF SumJournal

\* A movement appends one row to one journal.
LEMMA JournalGrows ==
  ASSUME NEW t \in Tenants, NEW id, NEW kind, NEW amount \in Int, NEW runID,
         WalletTypeOK, Move(t, id, kind, amount, runID)
  PROVE  \E n : /\ n \notin DOMAIN journal[t]
                /\ DOMAIN journal'[t] = DOMAIN journal[t] \cup {n}
                /\ journal'[t][n].kind = kind
                /\ journal'[t][n].run = runID
                /\ journal'[t][n].amount = amount
                /\ \A k \in DOMAIN journal[t] : journal'[t][k] = journal[t][k]
<1> DEFINE e == [id |-> id, kind |-> kind, amount |-> amount, run |-> runID,
                 after |-> balance[t] + amount]
           n == Len(journal[t])
<1>1. journal \in [Tenants -> Seq(Movement)] /\ journal[t] \in Seq(Movement) /\ n \in Nat
      /\ DOMAIN journal[t] = 1 .. n
  BY LenProperties DEF WalletTypeOK
<1>2. journal'[t] = Append(journal[t], e)
  BY <1>1 DEF Move
<1>3. e.kind = kind /\ e.run = runID /\ e.amount = amount
  OBVIOUS
<1>4. journal[t] \in Seq(Movement \cup {e}) /\ e \in Movement \cup {e}
  <2>1. Movement \subseteq Movement \cup {e}
    OBVIOUS
  <2> HIDE DEF e
  <2>2. \A k \in 1 .. n : journal[t][k] \in Movement \cup {e}
    BY <1>1, ElementOfSeq
  <2>3. QED
    BY <1>1, <2>2
<1> HIDE DEF e
<1>5. /\ Len(Append(journal[t], e)) = n + 1
      /\ Append(journal[t], e)[n + 1] = e
      /\ \A k \in 1 .. n : Append(journal[t], e)[k] = journal[t][k]
      /\ DOMAIN Append(journal[t], e) = 1 .. n + 1
  BY <1>4, <1>1, AppendProperties
<1>6. n + 1 \notin 1 .. n /\ 1 .. n + 1 = 1 .. n \cup {n + 1}
  BY <1>1
<1> HIDE DEF n
<1>7. QED
  BY <1>1, <1>2, <1>3, <1>5, <1>6

\* Position n is new in the journal of t: a row with this kind, run and amount,
\* which adds the amount to every sum that takes it in.
Appends(t, n, kind, runID, amount) ==
  /\ n \notin DOMAIN journal[t]
  /\ DOMAIN journal'[t] = DOMAIN journal[t] \cup {n}
  /\ journal'[t][n].kind = kind
  /\ journal'[t][n].run = runID
  /\ \A k \in DOMAIN journal[t] : journal'[t][k] = journal[t][k]
  /\ \A K \in SUBSET DOMAIN journal[t] :
       /\ SumFunctionOnSet(Moved(t)', K) = SumFunctionOnSet(Moved(t), K)
       /\ SumFunctionOnSet(Moved(t)', K \cup {n}) = SumFunctionOnSet(Moved(t), K) + amount
       /\ SumFunctionOnSet(Moved(t), K) \in Int

\* The sums over old positions stay, and the new position adds the amount.
LEMMA MoveAdds ==
  ASSUME NEW t \in Tenants, NEW id, NEW kind, NEW amount \in Int, NEW runID,
         WalletTypeOK, Move(t, id, kind, amount, runID)
  PROVE  \E n : Appends(t, n, kind, runID, amount)
<1>1. PICK n : /\ n \notin DOMAIN journal[t]
               /\ DOMAIN journal'[t] = DOMAIN journal[t] \cup {n}
               /\ journal'[t][n].kind = kind
               /\ journal'[t][n].run = runID
               /\ journal'[t][n].amount = amount
               /\ \A k \in DOMAIN journal[t] : journal'[t][k] = journal[t][k]
  BY JournalGrows
<1> DEFINE f == Moved(t)
           g == Moved(t)'
<1>2. g[n] = amount /\ \A k \in DOMAIN journal[t] : g[k] = f[k] /\ f[k] \in Int
  BY <1>1, JournalFinite DEF Moved
<1>3. ASSUME NEW K \in SUBSET DOMAIN journal[t]
      PROVE  /\ SumFunctionOnSet(g, K) = SumFunctionOnSet(f, K)
             /\ SumFunctionOnSet(g, K \cup {n}) = SumFunctionOnSet(f, K) + amount
             /\ SumFunctionOnSet(f, K) \in Int
  <2>1. IsFiniteSet(K) /\ n \notin K
    BY <1>1, JournalFinite, FS_Subset
  <2>2. (\A k \in K : g[k] = f[k]) /\ (\A k \in K : g[k] \in Int)
    BY <1>2
  <2>3. SumFunctionOnSet(f, K) \in Int
    BY JournalSumInt DEF SumJournal
  <2> HIDE DEF f, g
  <2>4. SumFunctionOnSet(g, K) = SumFunctionOnSet(f, K)
    BY <2>1, <2>2, SumSame
  <2>5. SumFunctionOnSet(g, K \cup {n}) = SumFunctionOnSet(g, K) + g[n]
    BY <1>2, <2>1, <2>2, SumAdd
  <2>6. QED
    BY <1>2, <2>3, <2>4, <2>5
<1>4. QED
  BY <1>1, <1>3 DEF Appends

\* A movement adds its amount to the journal as a whole.
LEMMA MoveTotal ==
  ASSUME NEW t \in Tenants, NEW id, NEW kind, NEW amount \in Int, NEW runID,
         WalletTypeOK, Move(t, id, kind, amount, runID)
  PROVE  JournalSum(t)' = JournalSum(t) + amount /\ balance'[t] = balance[t] + amount
<1>1. balance'[t] = balance[t] + amount
  BY DEF Move, WalletTypeOK
<1>2. JournalSum(t)' = SumFunctionOnSet(Moved(t)', DOMAIN journal'[t])
  BY DEF JournalSum, SumJournal
<1>3. JournalSum(t) = SumFunctionOnSet(Moved(t), DOMAIN journal[t])
  BY DEF JournalSum, SumJournal
<1>4. PICK n : Appends(t, n, kind, runID, amount)
  BY MoveAdds
<1>5. QED
  BY <1>1, <1>2, <1>3, <1>4 DEF Appends


\* A debit adds to its run alone, and not to what was moved by hand.
LEMMA MoveDebit ==
  ASSUME NEW t \in Tenants, NEW id, NEW amount \in Int, NEW runID,
         WalletTypeOK, Move(t, id, "debit", amount, runID)
  PROVE  /\ RunWalletDebit(t, runID)' = RunWalletDebit(t, runID) - amount
         /\ \A i : i # runID => RunWalletDebit(t, i)' = RunWalletDebit(t, i)
         /\ Deposits(t)' = Deposits(t)
<1>0. PICK n : Appends(t, n, "debit", runID, amount)
  BY MoveAdds
<1>1. /\ n \notin DOMAIN journal[t]
      /\ DOMAIN journal'[t] = DOMAIN journal[t] \cup {n}
      /\ journal'[t][n].kind = "debit"
      /\ journal'[t][n].run = runID
      /\ \A k \in DOMAIN journal[t] : journal'[t][k] = journal[t][k]
      /\ \A K \in SUBSET DOMAIN journal[t] :
           /\ SumFunctionOnSet(Moved(t)', K) = SumFunctionOnSet(Moved(t), K)
           /\ SumFunctionOnSet(Moved(t)', K \cup {n})
                = SumFunctionOnSet(Moved(t), K) + amount
           /\ SumFunctionOnSet(Moved(t), K) \in Int
  BY <1>0 DEF Appends
<1>2. \A i : RunWalletDebit(t, i) = -SumFunctionOnSet(Moved(t), RunDebits(t, i))
  BY DEF RunWalletDebit, SumJournal, RunDebits
<1>3. \A i : RunWalletDebit(t, i)' = -SumFunctionOnSet(Moved(t)', RunDebits(t, i)')
  BY DEF RunWalletDebit, SumJournal, RunDebits
<1>4. \A i : RunDebits(t, i) \in SUBSET DOMAIN journal[t]
  BY DEF RunDebits, Debits
<1>5. RunDebits(t, runID)' = RunDebits(t, runID) \cup {n}
  BY <1>1 DEF RunDebits, Debits
<1>6. ASSUME NEW i, i # runID PROVE RunWalletDebit(t, i)' = RunWalletDebit(t, i)
  <2>1. RunDebits(t, i)' = RunDebits(t, i)
    BY <1>1, <1>6 DEF RunDebits, Debits
  <2>2. QED
    BY <1>1, <1>2, <1>3, <1>4, <2>1
<1>7. RunWalletDebit(t, runID)' = RunWalletDebit(t, runID) - amount
  <2> DEFINE D == RunDebits(t, runID)
  <2>1. /\ SumFunctionOnSet(Moved(t)', D \cup {n}) = SumFunctionOnSet(Moved(t), D) + amount
        /\ SumFunctionOnSet(Moved(t), D) \in Int
    BY <1>1, <1>4
  <2>2. QED
    BY <1>2, <1>3, <1>5, <2>1
<1>8. Deposits(t)' = Deposits(t)
  <2>1. DOMAIN journal'[t] \ Debits(t)' = DOMAIN journal[t] \ Debits(t)
    BY <1>1 DEF Debits
  <2>2. QED
    BY <1>1, <2>1 DEF Deposits, SumJournal
<1>9. QED
  BY <1>6, <1>7, <1>8

\* A movement by hand is no debit of any run.
LEMMA MoveManual ==
  ASSUME NEW t \in Tenants, NEW id, NEW kind, NEW amount \in Int, NEW runID,
         WalletTypeOK, Move(t, id, kind, amount, runID), kind # "debit"
  PROVE  /\ \A i : RunWalletDebit(t, i)' = RunWalletDebit(t, i)
         /\ Deposits(t)' = Deposits(t) + amount
<1>0. PICK n : Appends(t, n, kind, runID, amount)
  BY MoveAdds
<1>1. /\ n \notin DOMAIN journal[t]
      /\ DOMAIN journal'[t] = DOMAIN journal[t] \cup {n}
      /\ journal'[t][n].kind = kind
      /\ \A k \in DOMAIN journal[t] : journal'[t][k] = journal[t][k]
      /\ \A K \in SUBSET DOMAIN journal[t] :
           /\ SumFunctionOnSet(Moved(t)', K) = SumFunctionOnSet(Moved(t), K)
           /\ SumFunctionOnSet(Moved(t)', K \cup {n})
                = SumFunctionOnSet(Moved(t), K) + amount
  BY <1>0 DEF Appends
<1>2. Debits(t)' = Debits(t) /\ Debits(t) \subseteq DOMAIN journal[t]
  BY <1>1 DEF Debits
<1>3. ASSUME NEW i PROVE RunWalletDebit(t, i)' = RunWalletDebit(t, i)
  <2>1. RunDebits(t, i)' = RunDebits(t, i) /\ RunDebits(t, i) \in SUBSET DOMAIN journal[t]
    BY <1>1, <1>2 DEF RunDebits
  <2>2. SumFunctionOnSet(Moved(t)', RunDebits(t, i)') = SumFunctionOnSet(Moved(t), RunDebits(t, i))
    BY <1>1, <2>1
  <2>3. RunWalletDebit(t, i) = -SumFunctionOnSet(Moved(t), RunDebits(t, i))
    BY DEF RunWalletDebit, SumJournal, RunDebits
  <2>4. RunWalletDebit(t, i)' = -SumFunctionOnSet(Moved(t)', RunDebits(t, i)')
    BY DEF RunWalletDebit, SumJournal, RunDebits
  <2>5. QED
    BY <2>2, <2>3, <2>4
<1>4. Deposits(t)' = Deposits(t) + amount
  <2> DEFINE M == DOMAIN journal[t] \ Debits(t)
  <2>1. DOMAIN journal'[t] \ Debits(t)' = M \cup {n} /\ M \in SUBSET DOMAIN journal[t]
    BY <1>1, <1>2
  <2>2. Deposits(t) = SumFunctionOnSet(Moved(t), M)
    BY DEF Deposits, SumJournal
  <2>3. Deposits(t)' = SumFunctionOnSet(Moved(t)', DOMAIN journal'[t] \ Debits(t)')
    BY DEF Deposits, SumJournal
  <2> HIDE DEF M
  <2>4. QED
    BY <1>1, <2>1, <2>2, <2>3
<1>5. QED
  BY <1>3, <1>4

\* A journal that does not change keeps its sums.
LEMMA SameJournal ==
  ASSUME NEW t, NEW i, journal'[t] = journal[t], balance'[t] = balance[t]
  PROVE  /\ RunWalletDebit(t, i)' = RunWalletDebit(t, i)
         /\ JournalSum(t)' = JournalSum(t)
         /\ Deposits(t)' = Deposits(t)
<1>1. Moved(t)' = Moved(t) /\ Debits(t)' = Debits(t)
  BY DEF Moved, Debits
<1>2. {k \in Debits(t)' : journal'[t][k].run = i} = {k \in Debits(t) : journal[t][k].run = i}
  BY <1>1
<1>3. QED
  BY <1>1, <1>2 DEF RunWalletDebit, JournalSum, Deposits, SumJournal

\* Nor does a movement touch the journal of another tenant.
LEMMA OtherJournals ==
  ASSUME NEW t \in Tenants, NEW id, NEW kind, NEW amount, NEW runID,
         NEW u \in Tenants \ {t}, WalletTypeOK, Move(t, id, kind, amount, runID)
  PROVE  journal'[u] = journal[u] /\ balance'[u] = balance[u]
  BY DEF Move, WalletTypeOK

-----------------------------------------------------------------------------
(* What a bill adds to the sums over the ledger. *)

\* The rows of P are billed to t under run i for a total of a, and no other row
\* becomes billed or stops to be.
Bills(P, t, i, a) ==
  /\ P \subseteq Releases /\ IsFiniteSet(P) /\ P \cap BilledRows = {}
  /\ BilledRows' = BilledRows \cup P
  /\ \A r \in BilledRows : ledger'[r].amount = ledger[r].amount /\ ledger'[r].run = ledger[r].run
  /\ \A r \in P : Usage[r].tenant = t /\ ledger'[r].run = i /\ ledger'[r].amount \in Nat
  /\ SumFunctionOnSet(RowAmount', P) = a

\* The billed rows are finite and have amounts, so the rows of a run are those
\* with its ID.
LEMMA BilledFinite ==
  ASSUME IsFiniteSet(Rows), RowsMarked
  PROVE  /\ IsFiniteSet(BilledRows) /\ BilledRows \subseteq Releases
         /\ \A r \in BilledRows : RowAmount[r] \in Nat /\ ledger[r].run \in RunIds
         /\ \A t, i : RunRows(t, i) = {r \in BilledRows : Usage[r].tenant = t /\ ledger[r].run = i}
<1>1. IsFiniteSet(BilledRows) /\ BilledRows \subseteq Releases
  BY FS_Subset DEF BilledRows, Rows
<1>2. \A r \in BilledRows : RowAmount[r] \in Nat /\ ledger[r].run \in RunIds
  BY DEF BilledRows, Rows, RowsMarked, RowAmount
<1>3. \A r \in BilledRows : ledger[r].amount # NoAmount
  BY DEF BilledRows, Rows, RowsMarked, NoAmount
<1>4. \A t, i : RunRows(t, i) = {r \in BilledRows : Usage[r].tenant = t /\ ledger[r].run = i}
  BY <1>3 DEF RunRows, BilledRows, Rows
<1>5. QED
  BY <1>1, <1>2, <1>4

\* A sum over a part S of the billed rows grows by the sum over what of P joins.
LEMMA BillAdds ==
  ASSUME NEW P, NEW t, NEW i, NEW a, NEW S, IsFiniteSet(Rows), RowsMarked, Bills(P, t, i, a),
         S \subseteq BilledRows
  PROVE  /\ SumFunctionOnSet(RowAmount, S) \in Int /\ a \in Int
         /\ SumFunctionOnSet(RowAmount', S)
              = SumFunctionOnSet(RowAmount, S)
         /\ SumFunctionOnSet(RowAmount', S \cup P)
              = SumFunctionOnSet(RowAmount, S) + a
<1> DEFINE f == RowAmount
           g == RowAmount'
<1>1. /\ IsFiniteSet(S) /\ S \subseteq Releases
      /\ \A r \in S : f[r] \in Int
  BY BilledFinite, FS_Subset
<1>2. \A r \in S : g[r] = f[r]
  BY <1>1 DEF Bills, RowAmount
<1>3. IsFiniteSet(P) /\ S \cap P = {} /\ \A r \in P : g[r] \in Int
  BY DEF Bills, RowAmount
<1>4. SumFunctionOnSet(g, P) = a
  BY DEF Bills
<1> HIDE DEF f, g
<1>5. SumFunctionOnSet(g, S) = SumFunctionOnSet(f, S)
  BY <1>1, <1>2, SumSame
<1>6. \A r \in S \cup P : g[r] \in Int
  BY <1>1, <1>2, <1>3
<1>7. SumFunctionOnSet(g, S \cup P) = SumFunctionOnSet(g, S) + SumFunctionOnSet(g, P)
  BY <1>1, <1>3, <1>6, SumUnion
<1>8. SumFunctionOnSet(f, S) \in Int /\ SumFunctionOnSet(g, P) \in Int
  BY <1>1, <1>3, SumInt
<1>9. QED
  BY <1>4, <1>5, <1>7, <1>8 DEF f, g

\* A bill adds its total to its run and to what its tenant is charged, and
\* nothing to any other.
LEMMA BillTotals ==
  ASSUME NEW P, NEW t, NEW i, NEW a, NEW u, NEW j,
         IsFiniteSet(Rows), RowsMarked, RowsMarked', IsFiniteSet(Rows)', Bills(P, t, i, a)
  PROVE  /\ RunLedgerTotal(u, j)' = RunLedgerTotal(u, j) + (IF u = t /\ j = i THEN a ELSE 0)
         /\ Charged(u)' = Charged(u) + (IF u = t THEN a ELSE 0)
         /\ RunLedgerTotal(u, j) \in Int /\ Charged(u) \in Int /\ a \in Int
<1> DEFINE g == RowAmount'
           R == {r \in BilledRows : Usage[r].tenant = u /\ ledger[r].run = j}
           Q == {r \in BilledRows' : Usage[r].tenant = u /\ ledger'[r].run = j}
           C == {r \in BilledRows : Usage[r].tenant = u}
           D == {r \in BilledRows' : Usage[r].tenant = u}
<1>1. R \subseteq BilledRows /\ C \subseteq BilledRows
  OBVIOUS
<1>2. RowAmount' = g
  OBVIOUS
<1>3. RunRows(u, j) = R
  BY BilledFinite
<1>4. RunRows(u, j)' = Q
  <2>1. \A r \in Releases : ledger'[r].state = "billed" => ledger'[r].amount # NoAmount
    BY DEF RowsMarked, NoAmount
  <2>2. QED
    BY <2>1 DEF RunRows, BilledRows, Rows
<1>5. RunLedgerTotal(u, j) = SumFunctionOnSet(RowAmount, R)
  BY <1>3 DEF RunLedgerTotal
<1>6. RunLedgerTotal(u, j)' = SumFunctionOnSet(g, Q)
  BY <1>2, <1>4 DEF RunLedgerTotal
<1>7. Charged(u) = SumFunctionOnSet(RowAmount, C) /\ Charged(u)' = SumFunctionOnSet(g, D)
  BY <1>2 DEF Charged
<1>8. Q = IF u = t /\ j = i THEN R \cup P ELSE R
  BY DEF Bills
<1>9. D = IF u = t THEN C \cup P ELSE C
  BY DEF Bills
<1> HIDE DEF R, Q, C, D
<1>10. /\ SumFunctionOnSet(RowAmount, R) \in Int /\ a \in Int
       /\ SumFunctionOnSet(g, R) = SumFunctionOnSet(RowAmount, R)
       /\ SumFunctionOnSet(g, R \cup P) = SumFunctionOnSet(RowAmount, R) + a
  BY <1>1, BillAdds
<1>11. /\ SumFunctionOnSet(RowAmount, C) \in Int
       /\ SumFunctionOnSet(g, C) = SumFunctionOnSet(RowAmount, C)
       /\ SumFunctionOnSet(g, C \cup P) = SumFunctionOnSet(RowAmount, C) + a
  BY <1>1, BillAdds
<1> HIDE DEF g
<1>12. RunLedgerTotal(u, j)' = RunLedgerTotal(u, j) + (IF u = t /\ j = i THEN a ELSE 0)
  BY <1>5, <1>6, <1>8, <1>10
<1>13. Charged(u)' = Charged(u) + (IF u = t THEN a ELSE 0)
  BY <1>7, <1>9, <1>10, <1>11
<1>14. QED
  BY <1>5, <1>7, <1>10, <1>11, <1>12, <1>13

\* A bill and the debit that pays for it, in one step, keep the books: the run,
\* the balance and the charge of one tenant move by the same amount.
LEMMA DebitKeeps ==
  ASSUME NEW P, NEW t \in Tenants, NEW i \in RunIds, NEW a, NEW id,
         NEW u \in Tenants, NEW j,
         WalletTypeOK, IsFiniteSet(Rows), RowsMarked, RowsMarked', IsFiniteSet(Rows)', Bills(P, t, i, a),
         Agree(u, j),
         Move(t, id, "debit", -a, i)
  PROVE  Agree(u, j)'
<1>1. /\ RunLedgerTotal(u, j)' = RunLedgerTotal(u, j) + (IF u = t /\ j = i THEN a ELSE 0)
      /\ Charged(u)' = Charged(u) + (IF u = t THEN a ELSE 0)
      /\ RunLedgerTotal(u, j) \in Int /\ Charged(u) \in Int /\ a \in Int
  BY BillTotals
<1>2. CASE u = t
  <2> DEFINE m == -a
  <2>0. m \in Int /\ Move(t, id, "debit", m, i)
    BY <1>1
  <2> HIDE DEF m
  <2>1. /\ i = j => RunWalletDebit(t, j)' = RunWalletDebit(t, j) - m
        /\ i # j => RunWalletDebit(t, j)' = RunWalletDebit(t, j)
        /\ JournalSum(t)' = JournalSum(t) + m
        /\ Deposits(t)' = Deposits(t)
        /\ balance'[t] = balance[t] + m
    <3>1. i = j => RunWalletDebit(t, j)' = RunWalletDebit(t, j) - m
      BY <2>0, MoveDebit
    <3>2. i # j => RunWalletDebit(t, j)' = RunWalletDebit(t, j)
      BY <2>0, MoveDebit
    <3>3. JournalSum(t)' = JournalSum(t) + m /\ balance'[t] = balance[t] + m
      BY <2>0, MoveTotal
    <3>4. Deposits(t)' = Deposits(t)
      BY <2>0, MoveDebit
    <3>5. QED
      BY <3>1, <3>2, <3>3, <3>4
  <2>2. balance[t] \in Int
    BY DEF WalletTypeOK
  <2>3. Deposits(t) \in Int
    BY JournalSumInt DEF Deposits
  <2>4. RunLedgerTotal(u, j)' = RunWalletDebit(u, j)'
    BY <1>1, <1>2, <2>1 DEF Agree, m
  <2>5. balance'[u] = JournalSum(u)'
    BY <1>2, <2>1 DEF Agree
  <2>6. balance'[u] = Deposits(u)' - Charged(u)'
    BY <1>1, <1>2, <2>1, <2>2, <2>3 DEF Agree, m
  <2>7. QED
    BY <2>4, <2>5, <2>6 DEF Agree
<1>3. CASE u # t
  <2>1. journal'[u] = journal[u] /\ balance'[u] = balance[u]
    BY <1>3, OtherJournals
  <2>2. /\ RunWalletDebit(u, j)' = RunWalletDebit(u, j) /\ JournalSum(u)' = JournalSum(u)
        /\ Deposits(u)' = Deposits(u)
    BY <2>1, SameJournal
  <2>3. RunLedgerTotal(u, j)' = RunLedgerTotal(u, j) /\ Charged(u)' = Charged(u)
    BY <1>1, <1>3
  <2>4. QED
    BY <2>1, <2>2, <2>3 DEF Agree
<1>4. QED
  BY <1>2, <1>3

\* A bill for nothing needs no debit.
LEMMA FreeKeeps ==
  ASSUME NEW P, NEW t, NEW i, NEW u \in Tenants, NEW j,
         IsFiniteSet(Rows), RowsMarked, RowsMarked', IsFiniteSet(Rows)', Bills(P, t, i, 0),
         Agree(u, j), UNCHANGED <<balance, journal>>
  PROVE  Agree(u, j)'
<1>1. /\ RunLedgerTotal(u, j)' = RunLedgerTotal(u, j) + (IF u = t /\ j = i THEN 0 ELSE 0)
      /\ Charged(u)' = Charged(u) + (IF u = t THEN 0 ELSE 0)
      /\ RunLedgerTotal(u, j) \in Int /\ Charged(u) \in Int
  BY BillTotals
<1>2. RunLedgerTotal(u, j)' = RunLedgerTotal(u, j) /\ Charged(u)' = Charged(u)
  BY <1>1
<1>3. /\ RunWalletDebit(u, j)' = RunWalletDebit(u, j) /\ JournalSum(u)' = JournalSum(u)
      /\ Deposits(u)' = Deposits(u)
  BY SameJournal
<1>4. QED
  BY <1>2, <1>3 DEF Agree

\* A movement by hand is no debit of any run.
LEMMA ManualKeeps ==
  ASSUME NEW t \in Tenants, NEW id, NEW kind, NEW amount \in Int,
         NEW u \in Tenants, NEW j,
         WalletTypeOK, IsFiniteSet(Rows), RowsMarked, Agree(u, j), UNCHANGED ledger, kind # "debit",
         Move(t, id, kind, amount, NoRun)
  PROVE  Agree(u, j)'
<1>1. RunLedgerTotal(u, j)' = RunLedgerTotal(u, j) /\ Charged(u)' = Charged(u)
  BY DEF RunLedgerTotal, Charged, RunRows, RowAmount, BilledRows, Rows
<1>2. CASE u = t
  <2>1. /\ RunWalletDebit(t, j)' = RunWalletDebit(t, j)
        /\ JournalSum(t)' = JournalSum(t) + amount
        /\ Deposits(t)' = Deposits(t) + amount
        /\ balance'[t] = balance[t] + amount
    BY MoveTotal, MoveManual
  <2>2. balance[t] \in Int
    BY DEF WalletTypeOK
  <2>3. Deposits(t) \in Int
    BY JournalSumInt DEF Deposits
  <2>5. Charged(t) \in Int
    <3> DEFINE S == {r \in BilledRows : Usage[r].tenant = t}
    <3>1. IsFiniteSet(S) /\ \A r \in S : RowAmount[r] \in Int
      BY BilledFinite, FS_Subset
    <3> HIDE DEF S
    <3>2. SumFunctionOnSet(RowAmount, S) \in Int
      BY <3>1, SumInt
    <3>3. QED
      BY <3>2 DEF Charged, S
  <2>6. RunLedgerTotal(u, j)' = RunWalletDebit(u, j)' /\ balance'[u] = JournalSum(u)'
    BY <1>1, <1>2, <2>1 DEF Agree
  <2>7. balance'[u] = Deposits(u)' - Charged(u)'
    BY <1>1, <1>2, <2>1, <2>2, <2>3, <2>5 DEF Agree
  <2>8. QED
    BY <2>6, <2>7 DEF Agree
<1>3. CASE u # t
  <2>1. journal'[u] = journal[u] /\ balance'[u] = balance[u]
    BY <1>3, OtherJournals
  <2>2. /\ RunWalletDebit(u, j)' = RunWalletDebit(u, j) /\ JournalSum(u)' = JournalSum(u)
        /\ Deposits(u)' = Deposits(u)
    BY <2>1, SameJournal
  <2>3. QED
    BY <1>1, <2>1, <2>2 DEF Agree
<1>4. QED
  BY <1>2, <1>3

-----------------------------------------------------------------------------
(* The steps. *)

\* Every initial state balances: nothing is recorded, nothing was moved.
LEMMA BookInit == Init => BookInv
<1> SUFFICES ASSUME Init PROVE BookInv
  OBVIOUS
<1>1. /\ \A r \in Releases : ledger[r] = LedgerRow("absent", 0, NoAmount, NoRun)
      /\ \A t \in Tenants : journal[t] = << >> /\ balance[t] = 0
  BY DEF Init, WalletInit
<1>2. Rows = {} /\ BilledRows = {} /\ \A t, i : RunRows(t, i) = {}
  BY <1>1 DEF Rows, BilledRows, RunRows, LedgerRow
<1>3. IsFiniteSet(Rows)
  BY <1>2, FS_EmptySet
<1>4. RowsMarked
  BY <1>1 DEF RowsMarked, LedgerRow
<1>5. SettlementsAdd
  <2> SUFFICES ASSUME NEW c \in Controls PROVE Adds(c)
    BY DEF SettlementsAdd
  <2>1. found[c] = {} /\ rows[c] = {} /\ left[c] = {} /\ debited[c] = 0
    BY DEF Init
  <2>2. Priced(c) = {}
    BY <2>1 DEF Priced
  <2>3. debited[c] = SumFunctionOnSet(quote[c], Priced(c))
    BY <2>1, <2>2, SumEmpty
  <2>4. QED
    BY <2>1, <2>3 DEF Adds
<1>6. TotalsAgree
  <2> SUFFICES ASSUME NEW t \in Tenants, NEW i PROVE Agree(t, i)
    BY DEF TotalsAgree
  <2>1. DOMAIN journal[t] = {}
    BY <1>1
  <2>2. /\ RunDebits(t, i) = {} /\ DOMAIN journal[t] \ Debits(t) = {}
        /\ {r \in BilledRows : Usage[r].tenant = t} = {}
    BY <1>2, <2>1 DEF RunDebits, Debits
  <2>3. SumFunctionOnSet(Moved(t), {}) = 0 /\ SumFunctionOnSet(RowAmount, {}) = 0
    BY SumEmpty
  <2>4. RunLedgerTotal(t, i) = 0 /\ RunWalletDebit(t, i) = 0
    <3>1. RunWalletDebit(t, i) = -SumFunctionOnSet(Moved(t), RunDebits(t, i))
      BY DEF RunWalletDebit, RunDebits, SumJournal
    <3>2. QED
      BY <1>2, <2>2, <2>3, <3>1 DEF RunLedgerTotal
  <2>5. JournalSum(t) = 0 /\ Deposits(t) = 0 /\ Charged(t) = 0
    BY <2>1, <2>2, <2>3 DEF JournalSum, SumJournal, Deposits, Charged
  <2>6. QED
    BY <1>1, <2>4, <2>5 DEF Agree
<1>7. QED
  BY <1>3, <1>4, <1>5, <1>6 DEF BookInv

\* What a ruling that bills leaves behind: the row with its amount and a run of
\* its own, or the row without a price.
LEMMA BillHeldRow ==
  ASSUME NEW r \in Releases, Inv, BillHeld(r)
  PROVE  \E a \in Nat \cup {NoAmount} :
           /\ FreshRun \in RunIds /\ ledger[r].state = "held"
           /\ ledger' = [ledger EXCEPT ![r] =
                LedgerRow(IF a = NoAmount THEN "unpriced" ELSE "billed", ledger[r].at, a, FreshRun)]
           /\ IF a \in {NoAmount, 0}
              THEN UNCHANGED <<balance, journal>>
              ELSE \E id : Move(Usage[r].tenant, id, "debit", -a, FreshRun)
<1> DEFINE a == AmountOf(r, ledger[r].at)
<1>1. a \in Nat \cup {NoAmount}
  BY AmountType DEF Inv, JobInv, JobTypeOK, Row
<1>2. FreshRun \in RunIds /\ ledger[r].state = "held"
  BY FreshRunIn DEF BillHeld, IsHeld
<1>3. \/ a = NoAmount /\ Rule(r, "unpriced", NoAmount, FreshRun) /\ UNCHANGED <<balance, journal>>
      \/ a = 0 /\ Rule(r, "billed", 0, FreshRun) /\ UNCHANGED <<balance, journal>>
      \/ /\ a > 0 /\ Rule(r, "billed", a, FreshRun)
         /\ \E id : Move(Usage[r].tenant, id, "debit", -a, FreshRun)
  BY DEF BillHeld
<1> HIDE DEF a
<1>4. ledger' = [ledger EXCEPT ![r] =
        LedgerRow(IF a = NoAmount THEN "unpriced" ELSE "billed", ledger[r].at, a, FreshRun)]
  <2>1. a = NoAmount => Rule(r, "unpriced", a, FreshRun)
    BY <1>1, <1>3 DEF NoAmount
  <2>2. a # NoAmount => Rule(r, "billed", a, FreshRun)
    BY <1>3
  <2>3. QED
    BY <2>1, <2>2 DEF Rule
<1>5. IF a \in {NoAmount, 0}
      THEN UNCHANGED <<balance, journal>>
      ELSE \E id : Move(Usage[r].tenant, id, "debit", -a, FreshRun)
  BY <1>1, <1>3 DEF NoAmount
<1>6. QED
  BY <1>1, <1>2, <1>4, <1>5

\* The steps that write rows, by action.
LEMMA RowSteps ==
  ASSUME [Next]_vars
  PROVE  \/ UNCHANGED rowVars
         \/ \E r \in Releases : Records(r) \/ WriteOff(r) \/ BillHeld(r)
         \/ \E c \in Controls : Settles(c)
<1> USE DEF rowVars, priceVars, jobVars
<1>1. CASE \/ UNCHANGED vars \/ Tick
           \/ \E m \in Models, from \in 1 .. MaxTime, unit \in Units : CheckPrice(m, from, unit)
           \/ \E p \in inserting : InsertModelPrice(p) \/ DropPrice(p)
           \/ \E q \in Requests : ConsoleStep(q) /\ UNCHANGED <<priceVars, rowVars, jobVars>>
  BY <1>1 DEF vars, Tick, CheckPrice, InsertModelPrice, DropPrice
<1>2. ASSUME NEW r \in Releases, RecordUsage(r) PROVE Records(r)
  BY <1>2 DEF RecordUsage, Records
<1>3. ASSUME NEW c \in Controls, Step(c) \/ SettleFails(c) \/ AbandonRun(c), ~Settle(c)
      PROVE  UNCHANGED rowVars
  BY <1>3 DEF Step, StartRun, pendingTenants, SelectRows, LockRows, PriceRow, SettleRefused,
              SettleFails, FinishRun, AbandonRun
<1>4. ASSUME NEW c \in Controls, Settle(c) PROVE Settles(c)
  BY <1>4 DEF Settle, Settles
<1>5. QED
  BY <1>1, <1>2, <1>3, <1>4 DEF Next

\* A recorded row never disappears, and a row has an amount and a run exactly
\* when it is billed.
LEMMA RowsKeep ==
  ASSUME Inv, [Next]_vars, IsFiniteSet(Rows), RowsMarked
  PROVE  IsFiniteSet(Rows)' /\ RowsMarked' /\ Rows \subseteq Rows'
<1>0. ledger \in [Releases -> Row] /\ NoAmount \notin Nat
  BY DEF Inv, JobInv, JobTypeOK, NoAmount
<1>1. CASE UNCHANGED rowVars
  <2>1. Rows' = Rows
    BY <1>1 DEF Rows, rowVars
  <2>2. RowsMarked'
    BY <1>1 DEF RowsMarked, rowVars
  <2>3. QED
    BY <2>1, <2>2
<1>2. ASSUME NEW r \in Releases, Records(r)
      PROVE  IsFiniteSet(Rows)' /\ RowsMarked' /\ Rows \subseteq Rows'
  <2>1. /\ ledger'[r].state = "pending" /\ ledger'[r].amount = NoAmount
        /\ \A s \in Releases \ {r} : ledger'[s] = ledger[s]
    BY <1>0, <1>2 DEF Records, LedgerRow
  <2>2. Rows' = Rows \cup {r}
    BY <2>1 DEF Rows
  <2>3. IsFiniteSet(Rows')
    BY <2>2, FS_AddElement
  <2>4. RowsMarked'
    BY <2>1 DEF RowsMarked
  <2>5. QED
    BY <2>2, <2>3, <2>4
<1>3. ASSUME NEW r \in Releases, WriteOff(r)
      PROVE  IsFiniteSet(Rows)' /\ RowsMarked' /\ Rows \subseteq Rows'
  <2>1. /\ ledger[r].state = "held"
        /\ ledger'[r].state = "not_billable" /\ ledger'[r].amount = NoAmount
        /\ \A s \in Releases \ {r} : ledger'[s] = ledger[s]
    BY <1>0, <1>3 DEF WriteOff, IsHeld, Rule, LedgerRow
  <2>2. Rows' = Rows
    BY <2>1 DEF Rows
  <2>3. RowsMarked'
    BY <2>1 DEF RowsMarked
  <2>4. QED
    BY <2>2, <2>3
<1>4. ASSUME NEW r \in Releases, BillHeld(r)
      PROVE  IsFiniteSet(Rows)' /\ RowsMarked' /\ Rows \subseteq Rows'
  <2>1. PICK a \in Nat \cup {NoAmount} :
          /\ FreshRun \in RunIds /\ ledger[r].state = "held"
          /\ ledger' = [ledger EXCEPT ![r] =
               LedgerRow(IF a = NoAmount THEN "unpriced" ELSE "billed", ledger[r].at, a, FreshRun)]
    BY <1>4, BillHeldRow
  <2>2. /\ ledger'[r].state = (IF a = NoAmount THEN "unpriced" ELSE "billed")
        /\ ledger'[r].amount = a /\ ledger'[r].run = FreshRun
        /\ \A s \in Releases \ {r} : ledger'[s] = ledger[s]
    BY <1>0, <2>1 DEF LedgerRow
  <2>3. Rows' = Rows
    BY <2>1, <2>2 DEF Rows
  <2>4. RowsMarked'
    BY <2>1, <2>2 DEF RowsMarked
  <2>5. QED
    BY <2>3, <2>4
<1>5. ASSUME NEW c \in Controls, Settles(c)
      PROVE  IsFiniteSet(Rows)' /\ RowsMarked' /\ Rows \subseteq Rows'
  <2>1. /\ \A r \in Releases : r \in rows[c] => ledger'[r] = SettledRow(c, r)
        /\ \A r \in Releases : r \notin rows[c] => ledger'[r] = ledger[r]
        /\ pc[c] = "price" /\ run[c] \in RunIds
    BY <1>5 DEF Settles, Inv, JobInv, JobShape
  <2>2. ASSUME NEW r \in rows[c]
        PROVE  /\ r \in Releases /\ ledger[r].state # "absent"
               /\ SettledRow(c, r).state # "absent"
               /\ IF SettledRow(c, r).state = "billed"
                  THEN SettledRow(c, r).amount \in Nat /\ SettledRow(c, r).run \in RunIds
                  ELSE SettledRow(c, r).amount = NoAmount
    <3>1. r \in Releases /\ ledger[r].state = "pending" /\ quote[c][r] \in Nat \cup {NoAmount}
      BY DEF Inv, JobInv, JobTypeOK, SettlementsExclusive
    <3>2. ~Billable(r) => quote[c][r] = NoAmount
      BY <3>1 DEF Inv, JobInv, JobShape
    <3>3. QED
      BY <2>1, <3>1, <3>2 DEF SettledRow, LedgerRow, billingStateFor
  <2>3. Rows' = Rows
    BY <2>1, <2>2 DEF Rows
  <2>4. RowsMarked'
    BY <2>1, <2>2 DEF RowsMarked
  <2>5. QED
    BY <2>3, <2>4
<1>6. QED
  BY <1>1, <1>2, <1>3, <1>4, <1>5, RowSteps

\* A settlement that goes on as it is keeps its sum.
LEMMA AddsSame ==
  ASSUME NEW c, Adds(c), Rows \subseteq Rows', found'[c] = found[c], rows'[c] = rows[c],
         left'[c] = left[c], quote'[c] = quote[c], debited'[c] = debited[c]
  PROVE  Adds(c)'
<1>1. Priced(c)' = Priced(c)
  BY DEF Priced
<1>2. QED
  BY <1>1 DEF Adds

\* A settlement that is over has nothing to add up.
LEMMA AddsEnded ==
  ASSUME NEW c \in Controls, JobTypeOK, EndSettlement(c)
  PROVE  Adds(c)'
<1>1. rows'[c] = {} /\ left'[c] = {} /\ found'[c] = {} /\ debited'[c] = 0
  BY DEF JobTypeOK, EndSettlement
<1>2. Priced(c)' = {}
  BY <1>1 DEF Priced
<1>3. debited'[c] = SumFunctionOnSet(quote'[c], Priced(c)')
  BY <1>1, <1>2, SumEmpty
<1>4. QED
  BY <1>1, <1>3 DEF Adds

\* The snapshot holds recorded rows of one tenant.
LEMMA AddsSelect ==
  ASSUME NEW c \in Controls, Inv, Adds(c), SelectRows(c)
  PROVE  Adds(c)'
<1>0. JobTypeOK /\ JobShape
  BY DEF Inv, JobInv
<1>1. PICK t \in queue[c] : found' = [found EXCEPT ![c] = Eligible(c, t)]
  BY DEF SelectRows
<1>2. UNCHANGED <<ledger, rows, left, quote, debited>> /\ rows[c] = {}
  BY <1>0 DEF SelectRows, rowVars, JobShape
<1>3. found'[c] = Eligible(c, t)
  BY <1>0, <1>1 DEF JobTypeOK
<1>4. Priced(c)' = Priced(c) /\ Rows' = Rows
  BY <1>2 DEF Priced, Rows
<1>5. found'[c] \subseteq Rows' /\ \A r \in found'[c] : Usage[r].tenant = t
  BY <1>3, <1>4 DEF Eligible, Rows
<1>6. QED
  BY <1>2, <1>4, <1>5 DEF Adds

\* Rows just locked have no quotes.
LEMMA AddsLock ==
  ASSUME NEW c \in Controls, Inv, Adds(c), LockRows(c)
  PROVE  Adds(c)'
<1>0. JobTypeOK /\ JobShape
  BY DEF Inv, JobInv
<1> DEFINE locked == StillPending(found[c])
<1>1. /\ rows'[c] = locked /\ left'[c] = {r \in locked : Billable(r)} /\ found'[c] = {}
      /\ UNCHANGED <<quote, debited>> /\ pc[c] = "lock"
  BY <1>0 DEF LockRows, JobTypeOK
<1>2. locked \subseteq found[c] /\ locked \subseteq Releases
  BY <1>0 DEF StillPending, JobTypeOK
<1> HIDE DEF locked
<1>3. rows[c] = {} /\ \A r \in Releases : quote[c][r] = NoAmount
  BY <1>0, <1>1 DEF JobShape
<1>4. Priced(c) = {} /\ Priced(c)' = {}
  BY <1>1, <1>2, <1>3 DEF Priced
<1>5. debited'[c] = SumFunctionOnSet(quote'[c], Priced(c)')
  BY <1>1, <1>4 DEF Adds
<1>6. QED
  BY <1>1, <1>2, <1>3, <1>5 DEF Adds

\* Pricing a row adds its quote to the sum, once.
LEMMA AddsPrice ==
  ASSUME NEW c \in Controls, Inv, IsFiniteSet(Rows), Adds(c), PriceRow(c)
  PROVE  Adds(c)'
<1>0. JobTypeOK /\ JobShape /\ SettlementsExclusive
  BY DEF Inv, JobInv
<1>1. PICK r \in left[c] :
        /\ quote' = [quote EXCEPT ![c][r] = AmountOf(r, ledger[r].at)]
        /\ debited' = [debited EXCEPT ![c] = Accrue(@, AmountOf(r, ledger[r].at))]
        /\ left' = [left EXCEPT ![c] = @ \ {r}]
  BY DEF PriceRow
<1> DEFINE a == AmountOf(r, ledger[r].at)
           q == quote[c]
<1>2. r \in rows[c] /\ r \in Releases /\ ledger[r].at \in 0 .. MaxTime
  BY <1>0 DEF JobShape, JobTypeOK, Row
<1>3. a \in Nat \cup {NoAmount}
  BY <1>0, <1>2, AmountType DEF JobTypeOK
<1>4. UNCHANGED <<ledger, found, rows>>
  BY DEF PriceRow, rowVars
<1>5. /\ quote'[c] = [q EXCEPT ![r] = a] /\ q \in [Releases -> Nat \cup {NoAmount}]
      /\ debited'[c] = Accrue(debited[c], a) /\ left'[c] = left[c] \ {r}
  BY <1>0, <1>1, <1>2 DEF JobTypeOK
<1> HIDE DEF a, q
<1>6. q[r] = NoAmount
  BY DEF Adds, q
<1>7. Priced(c) \subseteq Rows /\ Priced(c) \subseteq Releases /\ r \notin Priced(c)
  <2>1. Priced(c) \subseteq rows[c] /\ r \notin Priced(c)
    BY <1>6 DEF Priced, q
  <2>2. rows[c] \subseteq Rows
    BY <1>0 DEF SettlementsExclusive, JobTypeOK, Rows
  <2>3. QED
    BY <2>1, <2>2 DEF Rows
<1>8. IsFiniteSet(Priced(c))
  BY <1>7, FS_Subset
<1>9. \A s \in Priced(c) : quote'[c][s] = q[s] /\ quote'[c][s] \in Int
  <2>1. \A s \in Priced(c) : q[s] # NoAmount
    BY DEF Priced, q
  <2>2. QED
    BY <1>5, <1>7, <2>1
<1>10. SumFunctionOnSet(quote'[c], Priced(c)) = debited[c]
  <2>1. SumFunctionOnSet(quote'[c], Priced(c)) = SumFunctionOnSet(q, Priced(c))
    BY <1>8, <1>9, SumSame
  <2>2. QED
    BY <2>1 DEF Adds, q
<1>11. debited'[c] = SumFunctionOnSet(quote'[c], Priced(c)')
  <2>1. CASE a = NoAmount
    <3>1. Priced(c)' = Priced(c)
      BY <1>2, <1>4, <1>5, <1>6, <2>1 DEF Priced, q, JobTypeOK
    <3>2. QED
      BY <1>5, <1>10, <2>1, <3>1 DEF Accrue
  <2>2. CASE a # NoAmount
    <3>1. Priced(c)' = Priced(c) \cup {r}
      <4>1. rows'[c] = rows[c] /\ rows[c] \subseteq Releases
        BY <1>0, <1>4 DEF JobTypeOK
      <4>2. quote'[c][r] = a /\ \A s \in Releases \ {r} : quote'[c][s] = q[s]
        BY <1>2, <1>5
      <4>3. QED
        BY <1>2, <2>2, <4>1, <4>2 DEF Priced, q
    <3>2. quote'[c][r] = a /\ a \in Int
      BY <1>2, <1>3, <1>5, <2>2
    <3>3. SumFunctionOnSet(quote'[c], Priced(c) \cup {r})
            = SumFunctionOnSet(quote'[c], Priced(c)) + quote'[c][r]
      BY <1>7, <1>8, <1>9, <3>2, SumAdd
    <3>4. QED
      BY <1>5, <1>10, <2>2, <3>1, <3>2, <3>3 DEF Accrue
  <2>3. QED
    BY <2>1, <2>2
<1>12. Rows' = Rows
  BY <1>4 DEF Rows
<1>13. \A s \in left'[c] : quote'[c][s] = NoAmount
  BY <1>0, <1>2, <1>5 DEF Adds, JobTypeOK, q
<1>14. QED
  BY <1>4, <1>11, <1>12, <1>13 DEF Adds

\* Every step keeps the sum of every settlement.
LEMMA SettlementsKeep ==
  ASSUME Inv, [Next]_vars, IsFiniteSet(Rows), RowsMarked, SettlementsAdd
  PROVE  SettlementsAdd'
<1>0. JobTypeOK /\ Rows \subseteq Rows'
  BY RowsKeep DEF Inv, JobInv
<1> SUFFICES ASSUME NEW c \in Controls PROVE Adds(c)'
  BY DEF SettlementsAdd
<1>1. Adds(c)
  BY DEF SettlementsAdd
<1>2. CASE UNCHANGED <<found, rows, left, quote, debited>>
  BY <1>0, <1>1, <1>2, AddsSame
<1>3. ASSUME \/ UNCHANGED vars \/ Tick
             \/ \E m \in Models, from \in 1 .. MaxTime, unit \in Units : CheckPrice(m, from, unit)
             \/ \E p \in inserting : InsertModelPrice(p) \/ DropPrice(p)
             \/ \E r \in Releases : RecordUsage(r) \/ WriteOff(r) \/ BillHeld(r)
             \/ \E q \in Requests : ConsoleStep(q) /\ UNCHANGED <<priceVars, rowVars, jobVars>>
             \/ \E d \in Controls : StartRun(d) \/ pendingTenants(d)
      PROVE  UNCHANGED <<found, rows, left, quote, debited>>
  BY <1>3 DEF vars, jobVars, Tick, CheckPrice, InsertModelPrice, DropPrice, RecordUsage, WriteOff,
              BillHeld, StartRun, pendingTenants
<1>4. ASSUME NEW d \in Controls,
             \/ SelectRows(d) \/ LockRows(d) \/ PriceRow(d) \/ Settle(d) \/ SettleRefused(d)
             \/ SettleFails(d) \/ FinishRun(d) \/ AbandonRun(d)
      PROVE  Adds(c)'
  <2>1. CASE c # d
    <3>1. SelectRows(d) \/ LockRows(d) \/ PriceRow(d) \/ EndSettlement(d)
      BY <1>4 DEF Settle, SettleRefused, SettleFails, FinishRun, AbandonRun, EndRun
    <3>2. found'[c] = found[c] /\ rows'[c] = rows[c]
      BY <1>0, <2>1, <3>1 DEF SelectRows, LockRows, PriceRow, EndSettlement, JobTypeOK
    <3>3. left'[c] = left[c] /\ debited'[c] = debited[c]
      BY <1>0, <2>1, <3>1 DEF SelectRows, LockRows, PriceRow, EndSettlement, JobTypeOK
    <3>4. quote'[c] = quote[c]
      BY <1>0, <2>1, <3>1 DEF SelectRows, LockRows, PriceRow, EndSettlement, JobTypeOK
    <3>5. QED
      BY <1>0, <1>1, <3>2, <3>3, <3>4, AddsSame
  <2>2. CASE c = d
    <3>1. CASE SelectRows(c)
      BY <1>1, <3>1, AddsSelect
    <3>2. CASE LockRows(c)
      BY <1>1, <3>2, AddsLock
    <3>3. CASE PriceRow(c)
      BY <1>1, <3>3, AddsPrice
    <3>4. CASE EndSettlement(c)
      BY <1>0, <3>4, AddsEnded
    <3>5. QED
      BY <1>4, <2>2, <3>1, <3>2, <3>3, <3>4
      DEF Settle, SettleRefused, SettleFails, FinishRun, AbandonRun, EndRun
  <2>3. QED
    BY <2>1, <2>2
<1>5. QED
  BY <1>2, <1>3, <1>4 DEF Next, Step

\* A step that bills nothing and moves nothing keeps the totals.
LEMMA QuietKeeps ==
  ASSUME IsFiniteSet(Rows), RowsMarked, RowsMarked', IsFiniteSet(Rows)', TotalsAgree,
         BilledRows' = BilledRows, \A r \in BilledRows : ledger'[r] = ledger[r],
         UNCHANGED <<balance, journal>>
  PROVE  TotalsAgree'
<1> SUFFICES ASSUME NEW u \in Tenants, NEW j \in RunIds \cup {NoRun} PROVE Agree(u, j)'
  BY DEF TotalsAgree
<1>1. Agree(u, j)
  BY DEF TotalsAgree
<1>2. Bills({}, u, j, 0)
  BY SumEmpty, FS_EmptySet DEF Bills
<1>3. QED
  BY <1>1, <1>2, FreeKeeps

\* A bill that is paid for in the same step, or is for nothing, keeps the totals.
LEMMA BillKeeps ==
  ASSUME NEW P, NEW t \in Tenants, NEW i \in RunIds, NEW a,
         WalletTypeOK, IsFiniteSet(Rows), RowsMarked, RowsMarked', IsFiniteSet(Rows)', TotalsAgree,
         Bills(P, t, i, a),
         \/ a = 0 /\ UNCHANGED <<balance, journal>>
         \/ \E id : Move(t, id, "debit", -a, i)
  PROVE  TotalsAgree'
<1> SUFFICES ASSUME NEW u \in Tenants, NEW j \in RunIds \cup {NoRun} PROVE Agree(u, j)'
  BY DEF TotalsAgree
<1>1. Agree(u, j)
  BY DEF TotalsAgree
<1>2. CASE a = 0 /\ UNCHANGED <<balance, journal>>
  BY <1>1, <1>2, FreeKeeps
<1>3. ASSUME NEW id, Move(t, id, "debit", -a, i) PROVE Agree(u, j)'
  BY <1>1, <1>3, DebitKeeps
<1>4. QED
  BY <1>2, <1>3

\* settleTenant bills the rows it priced to their tenant, under its run, for the
\* sum it debits.
LEMMA SettleBills ==
  ASSUME NEW c \in Controls, Inv, IsFiniteSet(Rows), RowsMarked, Adds(c), Settle(c)
  PROVE  Bills(Priced(c), TenantOf(c), run[c], debited[c])
<1>0. JobTypeOK /\ JobShape /\ SettlementsExclusive
  BY DEF Inv, JobInv
<1>1. /\ \A r \in Releases : r \in rows[c] => ledger'[r] = SettledRow(c, r)
      /\ \A r \in Releases : r \notin rows[c] => ledger'[r] = ledger[r]
      /\ rows[c] \subseteq Releases
  BY <1>0 DEF Settle, JobTypeOK
<1>2. \A r \in rows[c] : ledger[r].state = "pending"
  BY <1>0 DEF SettlementsExclusive
<1>3. ASSUME NEW r \in rows[c]
      PROVE  /\ SettledRow(c, r).state # "absent"
             /\ SettledRow(c, r).state = "billed" <=> r \in Priced(c)
             /\ SettledRow(c, r).run = run[c] /\ SettledRow(c, r).amount = quote[c][r]
  <2>1. ~Billable(r) => quote[c][r] = NoAmount
    BY <1>0, <1>1 DEF JobShape
  <2>2. QED
    BY <2>1 DEF SettledRow, LedgerRow, billingStateFor, Priced
<1>4. Priced(c) \subseteq rows[c] /\ Priced(c) \subseteq Releases /\ Priced(c) \subseteq Rows
  BY <1>1, <1>2 DEF Priced, Rows
<1>5. IsFiniteSet(Priced(c)) /\ Priced(c) \cap BilledRows = {}
  BY <1>2, <1>4, FS_Subset DEF BilledRows
<1>6. BilledRows' = BilledRows \cup Priced(c)
  BY <1>1, <1>2, <1>3, <1>4 DEF BilledRows, Rows
<1>7. \A r \in BilledRows : ledger'[r].amount = ledger[r].amount /\ ledger'[r].run = ledger[r].run
  BY <1>1, <1>2 DEF BilledRows, Rows
<1>8. \A r \in Priced(c) : Usage[r].tenant = TenantOf(c)
  <2>1. \A r \in rows[c] : (CHOOSE s \in rows[c] : TRUE) \in rows[c]
    OBVIOUS
  <2>2. QED
    BY <1>4, <2>1 DEF Adds, TenantOf
<1>9. \A r \in Priced(c) : ledger'[r].run = run[c] /\ ledger'[r].amount = quote[c][r]
  BY <1>1, <1>3, <1>4
<1>10. \A r \in Priced(c) : quote[c][r] \in Nat
  BY <1>0, <1>4 DEF Priced, JobTypeOK
<1>11. \A r \in Priced(c) : RowAmount'[r] = quote[c][r]
  BY <1>4, <1>9 DEF RowAmount
<1>12. SumFunctionOnSet(RowAmount', Priced(c)) = SumFunctionOnSet(quote[c], Priced(c))
  BY <1>5, <1>11, SumSame
<1>13. SumFunctionOnSet(RowAmount', Priced(c)) = debited[c]
  BY <1>12 DEF Adds
<1>14. QED
  BY <1>4, <1>5, <1>6, <1>7, <1>8, <1>9, <1>10, <1>13 DEF Bills

\* A ruling bills one row for what it debits.
LEMMA RulingBills ==
  ASSUME NEW r \in Releases, NEW a \in Nat, NEW runID, Inv, ledger[r].state = "held",
         ledger' = [ledger EXCEPT ![r] = LedgerRow("billed", ledger[r].at, a, runID)]
  PROVE  Bills({r}, Usage[r].tenant, runID, a)
<1>1. ledger \in [Releases -> Row]
  BY DEF Inv, JobInv, JobTypeOK
<1>2. /\ ledger'[r].state = "billed" /\ ledger'[r].amount = a /\ ledger'[r].run = runID
      /\ \A s \in Releases \ {r} : ledger'[s] = ledger[s]
  BY <1>1 DEF LedgerRow
<1>3. r \notin BilledRows /\ BilledRows' = BilledRows \cup {r}
  BY <1>2 DEF BilledRows, Rows
<1>4. \A s \in BilledRows : ledger'[s].amount = ledger[s].amount /\ ledger'[s].run = ledger[s].run
  BY <1>2, <1>3 DEF BilledRows, Rows
<1>5. RowAmount'[r] = a
  BY <1>2 DEF RowAmount
<1>6. SumFunctionOnSet(RowAmount', {r}) = a
  <2>1. SumFunctionOnSet(RowAmount', {} \cup {r}) = SumFunctionOnSet(RowAmount', {}) + RowAmount'[r]
    <3>1. IsFiniteSet({}) /\ r \notin {} /\ RowAmount'[r] \in Int /\ \A y \in {} : RowAmount'[y] \in Int
      BY <1>5, FS_EmptySet
    <3>2. QED
      BY <3>1, SumAdd
  <2>2. SumFunctionOnSet(RowAmount', {}) = 0 /\ {} \cup {r} = {r}
    BY SumEmpty
  <2>3. QED
    BY <1>5, <2>1, <2>2
<1>7. IsFiniteSet({r})
  BY FS_Singleton
<1>8. QED
  BY <1>2, <1>3, <1>4, <1>6, <1>7 DEF Bills

\* Every step keeps the totals.
LEMMA TotalsKeep ==
  ASSUME Inv, [Next]_vars, BookInv
  PROVE  TotalsAgree'
<1>0. /\ WalletTypeOK /\ ledger \in [Releases -> Row]
      /\ IsFiniteSet(Rows) /\ RowsMarked /\ TotalsAgree /\ SettlementsAdd
      /\ RowsMarked' /\ IsFiniteSet(Rows)'
  BY RowsKeep DEF BookInv, Inv, WalletInv, JobInv, JobTypeOK
<1>1. CASE UNCHANGED <<balance, journal, ledger>>
  <2>1. BilledRows' = BilledRows /\ \A r \in BilledRows : ledger'[r] = ledger[r]
    BY <1>1 DEF BilledRows, Rows
  <2>2. QED
    BY <1>0, <1>1, <2>1, QuietKeeps
<1>2. ASSUME \/ UNCHANGED vars \/ Tick
             \/ \E m \in Models, from \in 1 .. MaxTime, unit \in Units : CheckPrice(m, from, unit)
             \/ \E p \in inserting : InsertModelPrice(p) \/ DropPrice(p)
             \/ \E c \in Controls :
                  \/ StartRun(c) \/ pendingTenants(c) \/ SelectRows(c) \/ LockRows(c) \/ PriceRow(c)
                  \/ SettleRefused(c) \/ SettleFails(c) \/ FinishRun(c) \/ AbandonRun(c)
      PROVE  UNCHANGED <<balance, journal, ledger>>
  BY <1>2 DEF vars, walletVars, rowVars, Tick, CheckPrice, InsertModelPrice, DropPrice, StartRun,
              pendingTenants, SelectRows, LockRows, PriceRow, SettleRefused, SettleFails, FinishRun,
              AbandonRun
<1>3. ASSUME NEW r \in Releases, RecordUsage(r) \/ WriteOff(r) PROVE TotalsAgree'
  <2>1. UNCHANGED <<balance, journal>>
    BY <1>3 DEF RecordUsage, WriteOff, walletVars
  <2>2. /\ ledger[r].state # "billed" /\ ledger'[r].state # "billed"
        /\ \A s \in Releases \ {r} : ledger'[s] = ledger[s]
    BY <1>0, <1>3 DEF RecordUsage, WriteOff, IsHeld, Rule, LedgerRow
  <2>3. BilledRows' = BilledRows /\ \A s \in BilledRows : ledger'[s] = ledger[s]
    BY <2>2 DEF BilledRows, Rows
  <2>4. QED
    BY <1>0, <2>1, <2>3, QuietKeeps
<1>4. ASSUME NEW r \in Releases, BillHeld(r) PROVE TotalsAgree'
  <2>1. PICK a \in Nat \cup {NoAmount} :
          /\ FreshRun \in RunIds /\ ledger[r].state = "held"
          /\ ledger' = [ledger EXCEPT ![r] =
               LedgerRow(IF a = NoAmount THEN "unpriced" ELSE "billed", ledger[r].at, a, FreshRun)]
          /\ IF a \in {NoAmount, 0}
             THEN UNCHANGED <<balance, journal>>
             ELSE \E id : Move(Usage[r].tenant, id, "debit", -a, FreshRun)
    BY <1>4, BillHeldRow
  <2>2. CASE a = NoAmount
    <3>1. /\ ledger'[r].state = "unpriced" /\ \A s \in Releases \ {r} : ledger'[s] = ledger[s]
      BY <1>0, <2>1, <2>2 DEF LedgerRow
    <3>2. BilledRows' = BilledRows /\ \A s \in BilledRows : ledger'[s] = ledger[s]
      BY <2>1, <3>1 DEF BilledRows, Rows
    <3>3. QED
      BY <1>0, <2>1, <2>2, <3>2, QuietKeeps
  <2>3. CASE a # NoAmount
    <3>1. a \in Nat /\ ledger' = [ledger EXCEPT ![r] = LedgerRow("billed", ledger[r].at, a, FreshRun)]
      BY <2>1, <2>3
    <3>2. Bills({r}, Usage[r].tenant, FreshRun, a)
      BY <2>1, <3>1, RulingBills
    <3>3. Usage[r].tenant \in Tenants
      BY UsageAssumption
    <3>4. \/ a = 0 /\ UNCHANGED <<balance, journal>>
          \/ \E id : Move(Usage[r].tenant, id, "debit", -a, FreshRun)
      BY <2>1, <2>3
    <3>5. QED
      BY <1>0, <2>1, <3>2, <3>3, <3>4, BillKeeps
  <2>4. QED
    BY <2>2, <2>3
<1>5. ASSUME NEW c \in Controls, Settle(c) PROVE TotalsAgree'
  <2>1. Bills(Priced(c), TenantOf(c), run[c], debited[c])
    BY <1>0, <1>5, SettleBills DEF SettlementsAdd
  <2>2. run[c] \in RunIds /\ TenantOf(c) \in Tenants
    <3>1. run[c] \in RunIds /\ rows[c] # {} /\ rows[c] \subseteq Releases
      BY <1>5 DEF Settle, Inv, JobInv, JobShape, JobTypeOK
    <3>2. (CHOOSE r \in rows[c] : TRUE) \in rows[c]
      BY <3>1
    <3>3. QED
      BY <3>1, <3>2, UsageAssumption DEF TenantOf
  <2>3. \/ debited[c] = 0 /\ UNCHANGED <<balance, journal>>
        \/ \E id : Move(TenantOf(c), id, "debit", -debited[c], run[c])
    BY <1>5 DEF Settle
  <2>4. QED
    BY <1>0, <2>1, <2>2, <2>3, BillKeeps
<1>6. ASSUME NEW q \in Requests, ConsoleStep(q), UNCHANGED <<priceVars, rowVars, jobVars>>
      PROVE  TotalsAgree'
  <2>1. UNCHANGED ledger
    BY <1>6 DEF rowVars
  <2>2. /\ Request[q].tenant \in Tenants /\ Request[q].amount \in Int
        /\ Request[q].kind # "debit"
    BY RequestAssumption DEF Body
  <2>3. \/ UNCHANGED <<balance, journal>>
        \/ Move(Request[q].tenant, Key(q), Request[q].kind, Request[q].amount, NoRun)
    BY <1>6 DEF ConsoleStep, Submit, EnsureWallet, ApplyMovement, ConfirmReplay, CallFails, walletVars
  <2>4. CASE Move(Request[q].tenant, Key(q), Request[q].kind, Request[q].amount, NoRun)
    <3> SUFFICES ASSUME NEW u \in Tenants, NEW j \in RunIds \cup {NoRun} PROVE Agree(u, j)'
      BY DEF TotalsAgree
    <3>1. Agree(u, j)
      BY <1>0 DEF TotalsAgree
    <3>2. QED
      BY <1>0, <2>1, <2>2, <2>4, <3>1, ManualKeeps
  <2>5. QED
    BY <1>1, <2>1, <2>3, <2>4
<1>7. QED
  BY <1>1, <1>2, <1>3, <1>4, <1>5, <1>6 DEF Next, Step

\* Every step keeps the books.
LEMMA BookNext == Inv /\ BookInv /\ [Next]_vars => BookInv'
<1> SUFFICES ASSUME Inv, BookInv, [Next]_vars PROVE BookInv'
  OBVIOUS
<1>1. IsFiniteSet(Rows)' /\ RowsMarked'
  BY RowsKeep DEF BookInv
<1>2. SettlementsAdd'
  BY SettlementsKeep DEF BookInv
<1>3. TotalsAgree'
  BY TotalsKeep
<1>4. QED
  BY <1>1, <1>2, <1>3 DEF BookInv

\* The books of every reachable state satisfy the invariant.
THEOREM BooksInvariant == Spec => []BookInv
<1>1. Inv /\ BookInv /\ [Next]_vars => BookInv'
  BY BookNext
<1>2. QED
  BY <1>1, BookInit, Invariance, PTL DEF Spec

\* The reconciliation of billing_reconcile.go, run at any instant, reports no
\* discrepancy of any kind, for any number of tenants, rows, runs and control
\* processes.
THEOREM BooksAlwaysBalance == Spec => []BooksBalance
<1>1. BookInv => BooksBalance
  <2> SUFFICES ASSUME BookInv PROVE BooksBalance
    OBVIOUS
  <2>1. IsFiniteSet(Rows) /\ RowsMarked /\ TotalsAgree
    BY DEF BookInv
  <2>2. NoAmount \notin Nat /\ NoRun \notin RunIds
    BY RunIdsAssumption DEF NoAmount, NoRun
  <2>3. \A r \in BilledRows : ledger[r].amount # NoAmount /\ ledger[r].run \in RunIds
    BY <2>1, <2>2 DEF BilledRows, Rows, RowsMarked
  <2>4. BilledRows \ Amounts = {} /\ {r \in Amounts : ledger[r].run = NoRun} = {}
    BY <2>2, <2>3 DEF Amounts
  <2>5. {r \in Rows \ BilledRows : ledger[r].amount # NoAmount} = {}
    BY <2>1 DEF BilledRows, Rows, RowsMarked
  <2>6. \A r \in Rows : Usage[r].tenant \in Tenants
    BY UsageAssumption DEF Rows
  <2>7. Unequal = {}
    <3> SUFFICES ASSUME NEW x \in Runs PROVE RunLedgerTotal(x[1], x[2]) = RunWalletDebit(x[1], x[2])
      BY DEF Unequal
    <3>1. PICK r \in Amounts : x = <<Usage[r].tenant, ledger[r].run>>
      BY DEF Runs
    <3>2. x[1] \in Tenants /\ x[2] \in RunIds
      BY <2>3, <2>6, <3>1 DEF Amounts, BilledRows
    <3>3. QED
      BY <2>1, <3>2 DEF TotalsAgree, Agree
  <2>8. {t \in {Usage[r].tenant : r \in Rows} : t \in wallets /\ balance[t] # JournalSum(t)} = {}
    BY <2>1, <2>6 DEF TotalsAgree, Agree
  <2>9. {x \in Unequal : x[1] \in wallets} = {} /\ {x \in Unequal : x[1] \notin wallets} = {}
    BY <2>7
  <2>10. QED
    BY <2>4, <2>5, <2>8, <2>9 DEF BooksBalance, Discrepancies
<1>2. QED
  BY <1>1, BooksInvariant, PTL

\* The balance of every tenant is what operators moved by hand less the amounts
\* of its billed rows: no row is charged twice and no debit lacks its rows.
THEOREM MoneyIsConserved == Spec => []MoneyConserved
<1>1. BookInv => MoneyConserved
  BY DEF BookInv, TotalsAgree, Agree, MoneyConserved, Deposits, Charged
<1>2. QED
  BY <1>1, BooksInvariant, PTL
=============================================================================
