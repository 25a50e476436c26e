--------------------------- MODULE MeteringProofs ---------------------------
(***************************************************************************)
(* Proofs about Metering for every set of attempts and control processes,  *)
(* every retry limit, batch size, stream length and number of faults.      *)
(*                                                                         *)
(* NothingLost is not inductive by itself: that an acknowledged entry is   *)
(* settled rests on what a control process knows at each stage of process  *)
(* (StageInv), and that a trimmed entry was settled rests on where the     *)
(* trim threshold may lie (TrimInv).                                       *)
(***************************************************************************)
EXTENDS Metering, SequenceTheorems, WellFoundedInduction, TLAPS

-----------------------------------------------------------------------------
(* Operators. *)

\* A batch has a first message: the minimum of a nonempty set of IDs.
LEMMA FirstIn ==
  ASSUME NEW S, S \subseteq Nat, S # {}
  PROVE  First(S) \in S /\ \A j \in S : First(S) <= j
<1> DEFINE Less == {ss \in Nat \X Nat : ss[1] < ss[2]}
<1>a. IsWellFoundedOn(Less, Nat)
  BY NatLessThanWellFounded, Zenon DEF OpToRel
<1>1. PICK x \in S : \A y \in S : ~(<<y, x>> \in Less)
  <2> HIDE DEF Less
  <2> QED BY <1>a, WFMin
<1>2. ASSUME NEW y \in S PROVE x <= y
  <2>1. <<y, x>> \in Nat \X Nat /\ <<y, x>>[1] = y /\ <<y, x>>[2] = x
    OBVIOUS
  <2>2. ~(y < x)
    BY <2>1, <1>1, Zenon
  <2>3. QED
    BY <2>2
<1>3. QED
  BY <1>2 DEF First

\* What an XADD that leaves n copies of e does to the stream.
LEMMA AppendKeeps ==
  ASSUME stream \in Seq(Entry), NEW e \in Entry, NEW n \in 1 .. 2, Append_(e, n),
         MaxEntries \in Nat
  PROVE  /\ stream' \in Seq(Entry)
         /\ Len(stream') = Len(stream) + n
         /\ Len(stream') <= MaxEntries
         /\ \A i \in 1 .. Len(stream) : stream'[i] = stream[i]
<1>1. Copies(n, e) \in Seq(Entry) /\ Len(Copies(n, e)) = n
  BY IsASeq DEF Copies
<1>2. QED
  BY <1>1, ConcatProperties DEF Append_

\* What Producer.Add does, whether it succeeds or fails.
LEMMA AddKeeps ==
  ASSUME TypeOK, NEW e \in Entry, AddOK(e) \/ AddFails(e)
  PROVE  /\ stream' \in Seq(Entry)
         /\ Len(stream') \in Nat
         /\ Len(stream') >= Len(stream)
         /\ Len(stream') <= MaxEntries
         /\ \A i \in 1 .. Len(stream) : stream'[i] = stream[i]
         /\ faults' \in 0 .. MaxFaults
<1>1. stream \in Seq(Entry) /\ Len(stream) \in Nat /\ faults \in 0 .. MaxFaults
      /\ Len(stream) <= MaxEntries
  BY LenProperties DEF TypeOK
<1>2. CASE \E n \in 1 .. 2 : Append_(e, n)
  BY <1>1, <1>2, AppendKeeps, MaxEntriesAssumption, MaxFaultsAssumption DEF AddOK, AddFails
<1>3. CASE UNCHANGED stream
  BY <1>1, <1>3, MaxFaultsAssumption DEF AddOK, AddFails
<1>4. QED
  BY <1>2, <1>3 DEF AddOK, AddFails

\* The entries a reclaim takes are a part of those it may take.
LEMMA BatchSubset == \A S : Batch(S) \subseteq S
  BY DEF Batch

\* The message in hand is an entry the group has delivered.
LEMMA FirstOfBatch ==
  ASSUME TypeOK, NEW c \in Consumers, batch[c] # {}
  PROVE  /\ First(batch[c]) \in batch[c]
         /\ First(batch[c]) \in 1 .. cursor
         /\ First(batch[c]) \in Ids
         /\ stream[First(batch[c])] \in Entry
<1>1. batch[c] \subseteq 1 .. cursor /\ cursor \in 0 .. Len(stream) /\ Len(stream) \in Nat
      /\ Len(stream) <= MaxEntries /\ stream \in Seq(Entry)
  BY LenProperties DEF TypeOK
<1>2. First(batch[c]) \in batch[c]
  BY <1>1, FirstIn
<1>3. QED
  BY <1>1, <1>2, ElementOfSeq, MaxEntriesAssumption DEF Ids

-----------------------------------------------------------------------------
(* Type correctness. *)

\* The stages of a control process that have a message in hand; part of every
\* type argument, because an empty batch has no first message.
HasMessage ==
  \A c \in Consumers :
    pc[c] \in {"handle", "ack", "forget", "deadletter", "dlqack"} => batch[c] # {}

TypeInv == TypeOK /\ HasMessage

\* The types hold initially, and no consumer is working on a message.
LEMMA TypeInit == Init => TypeInv
  BY EmptySeq, LenProperties, MaxEntriesAssumption, MaxFaultsAssumption
  DEF Init, TypeInv, TypeOK, HasMessage, GatewayState, PC, Ids

\* The gateway's steps and the clocks keep the types.
LEMMA TypeGateway ==
  ASSUME TypeInv,
         \E a \in Attempts : StartAttempt(a) \/ FinishAttempt(a) \/ GatewayCrash(a)
                             \/ DeadlinePasses(a)
  PROVE  TypeInv'
<1> USE DEF TypeInv, HasMessage, redisVars, consumerVars, ledgerVars, gatewayVars
<1>0. Len(stream) \in Nat
  BY LenProperties DEF TypeOK
<1>1. ASSUME NEW a \in Attempts, StartAttempt(a) PROVE TypeInv'
  <2>1. Event("attempt_started", a, TRUE) \in Entry
    BY DEF Event, Entry
  <2>2. /\ stream' \in Seq(Entry) /\ Len(stream') \in Nat /\ Len(stream') >= Len(stream)
        /\ Len(stream') <= MaxEntries /\ faults' \in 0 .. MaxFaults
    BY <1>1, <2>1, AddKeeps DEF StartAttempt
  <2>3. gw' \in [Attempts -> GatewayState]
    BY <1>1 DEF StartAttempt, TypeOK, GatewayState
  <2>4. QED
    BY <1>0, <1>1, <2>2, <2>3 DEF StartAttempt, TypeOK
<1>2. ASSUME NEW a \in Attempts, FinishAttempt(a) PROVE TypeInv'
  <2>1. \A v \in BOOLEAN : Event("release", a, v) \in Entry
    BY DEF Event, Entry
  <2>2. /\ stream' \in Seq(Entry) /\ Len(stream') \in Nat /\ Len(stream') >= Len(stream)
        /\ Len(stream') <= MaxEntries /\ faults' \in 0 .. MaxFaults
    BY <1>2, <2>1, AddKeeps DEF FinishAttempt
  <2>3. gw' \in [Attempts -> GatewayState]
    BY <1>2 DEF FinishAttempt, TypeOK, GatewayState
  <2>4. QED
    BY <1>0, <1>2, <2>2, <2>3 DEF FinishAttempt, TypeOK
<1>3. ASSUME NEW a \in Attempts, GatewayCrash(a) PROVE TypeInv'
  BY <1>3, MaxFaultsAssumption DEF GatewayCrash, TypeOK, GatewayState
<1>4. ASSUME NEW a \in Attempts, DeadlinePasses(a) PROVE TypeInv'
  BY <1>4 DEF DeadlinePasses, TypeOK
<1>5. QED
  BY <1>1, <1>2, <1>3, <1>4

\* Reclaiming, reading and trimming keep the types.
LEMMA TypeRedis ==
  ASSUME TypeInv, NEW c \in Consumers,
         Tick(c) \/ Reclaim(c) \/ ReadNew(c) \/ TrimThreshold(c) \/ TrimMinID(c) \/ Interrupt(c)
  PROVE  TypeInv'
<1> USE DEF TypeInv, HasMessage, redisVars, consumerVars, ledgerVars, gatewayVars, Goto, PC
<1>0. Len(stream) \in Nat /\ Len(stream) <= MaxEntries
  BY LenProperties DEF TypeOK
<1>1. CASE Tick(c)
  BY <1>1 DEF Tick, TypeOK
<1>2. CASE Reclaim(c)
  <2>1. Batch(idle) \subseteq idle
    BY BatchSubset
  <2>2. /\ pel' \subseteq pel /\ idle' \subseteq pel'
        /\ batch' \in [Consumers -> SUBSET (1 .. cursor)]
    BY <1>2, <2>1 DEF Reclaim, TypeOK
  <2>3. QED
    BY <1>2, <2>2 DEF Reclaim, TypeOK
<1>3. CASE ReadNew(c)
  <2> DEFINE from == IF trimmed > cursor THEN trimmed ELSE cursor
             upto == ReadUpto(from)
             new  == {i \in 1 .. upto : i > from}
  <2>1. /\ from \in 0 .. Len(stream) /\ cursor <= from
        /\ upto \in 0 .. Len(stream)
    BY <1>0, BatchSizeAssumption DEF TypeOK, ReadUpto
  <2>2. /\ batch' = [batch EXCEPT ![c] = new]
        /\ pel' = pel \cup new
        /\ cursor' = IF upto > from THEN upto ELSE cursor
    BY <1>3 DEF ReadNew
  <2> HIDE DEF upto, from
  <2>3. cursor' \in 0 .. Len(stream) /\ cursor <= cursor' /\ new \subseteq 1 .. cursor'
    BY <2>1, <2>2, <1>0 DEF TypeOK
  <2>4. 1 .. cursor \subseteq 1 .. cursor'
    BY <2>3, <1>0 DEF TypeOK
  <2> HIDE DEF new
  <2>5. /\ pel' \subseteq 1 .. cursor'
        /\ batch' \in [Consumers -> SUBSET (1 .. cursor')]
        /\ idle \subseteq pel' /\ dlq \subseteq 1 .. cursor'
    BY <2>2, <2>3, <2>4 DEF TypeOK
  <2>6. QED
    BY <1>3, <2>2, <2>3, <2>5 DEF ReadNew, TypeOK
<1>4. CASE TrimThreshold(c)
  <2>0. pel \subseteq 1 .. cursor /\ cursor \in 0 .. Len(stream) /\ pel \subseteq Nat
        /\ horizon \in 0 .. Len(stream) /\ threshold \in [Consumers -> 0 .. Len(stream) + 1]
    BY <1>0 DEF TypeOK
  <2> DEFINE t == IF pel # {} /\ First(pel) < horizon + 1 THEN First(pel) ELSE horizon + 1
  <2>1. t \in 0 .. Len(stream) + 1
    <3>1. pel # {} => First(pel) \in 1 .. cursor
      BY <2>0, FirstIn
    <3>2. QED
      BY <1>0, <2>0, <3>1
  <2>a. threshold' = [threshold EXCEPT ![c] = t]
    BY <1>4 DEF TrimThreshold
  <2> HIDE DEF t
  <2>2. threshold' \in [Consumers -> 0 .. Len(stream) + 1]
    BY <2>0, <2>1, <2>a
  <2>3. QED
    BY <1>4, <2>2 DEF TrimThreshold, TypeOK
<1>5. CASE TrimMinID(c)
  <2>1. trimmed' \in 0 .. Len(stream) /\ threshold' \in [Consumers -> 0 .. Len(stream) + 1]
    BY <1>0, <1>5 DEF TrimMinID, TypeOK
  <2>2. QED
    BY <1>5, <2>1 DEF TrimMinID, TypeOK
<1>6. CASE Interrupt(c)
  BY <1>0, <1>6, MaxFaultsAssumption DEF Interrupt, EndRun, TypeOK
<1>7. QED
  BY <1>1, <1>2, <1>3, <1>4, <1>5, <1>6

\* Processing a message and recovering attempts keep the types.
LEMMA TypeProcess ==
  ASSUME TypeInv, NEW c \in Consumers,
         BeginProcess(c) \/ Handle(c) \/ DeadLetter(c) \/ Ack(c) \/ Forget(c)
         \/ RecoverAttempts(c)
  PROVE  TypeInv'
<1> USE DEF TypeInv, HasMessage, redisVars, consumerVars, ledgerVars, gatewayVars, Goto, PC
<1>1. CASE BeginProcess(c)
  <2>1. First(batch[c]) \in Ids
    BY <1>1, FirstOfBatch DEF BeginProcess
  <2>2. retries' \in [Ids -> Nat]
    BY <1>1, <2>1 DEF BeginProcess, TypeOK
  <2>3. pc' \in [Consumers -> PC] /\ HasMessage'
    BY <1>1 DEF BeginProcess, AfterCount, TypeOK
  <2>4. QED
    BY <1>1, <2>2, <2>3 DEF BeginProcess, TypeOK
<1>2. CASE Handle(c)
  <2>1. stream[First(batch[c])] \in Entry
    BY <1>2, FirstOfBatch DEF Handle
  <2> DEFINE a == stream[First(batch[c])].attempt
  <2>2. a \in Attempts
    BY <2>1 DEF Entry
  <2>3. HandleAttemptStarted(c, a) \/ HandleRelease(c, a)
    BY <1>2 DEF Handle
  <2> HIDE DEF a
  <2>4. CASE HandleAttemptStarted(c, a)
    BY <1>2, <2>2, <2>4 DEF Handle, HandleAttemptStarted, TypeOK
  <2>5. CASE HandleRelease(c, a)
    <3>1. /\ attempts' \in [Attempts -> {"absent", "open", "terminal", "reconciled"}]
          /\ usage' \in [Attempts -> {"none", "gateway", "synthetic"}]
          /\ authority' \in [Attempts -> Nat]
      <4>1. /\ attempts \in [Attempts -> {"absent", "open", "terminal", "reconciled"}]
            /\ usage \in [Attempts -> {"none", "gateway", "synthetic"}]
            /\ authority \in [Attempts -> Nat]
        BY DEF TypeOK
      <4>2. CASE attempts[a] = "absent"
        BY <2>5, <4>1, <4>2 DEF HandleRelease
      <4>3. CASE attempts[a] # "absent"
        BY <2>2, <2>5, <4>1, <4>3 DEF HandleRelease, TerminalState, JudgeOnInsert
      <4>4. QED
        BY <4>2, <4>3
    <3>2. /\ pc' \in [Consumers -> PC] /\ phase' \in [Consumers -> {"reclaim", "read"}]
          /\ batch' \in [Consumers -> SUBSET (1 .. cursor)] /\ HasMessage'
      <4>1. /\ pc \in [Consumers -> PC] /\ phase \in [Consumers -> {"reclaim", "read"}]
            /\ batch \in [Consumers -> SUBSET (1 .. cursor)] /\ HasMessage
        BY DEF TypeOK
      <4>2. CASE attempts[a] = "absent"
        BY <1>2, <2>5, <4>1, <4>2 DEF Handle, HandleRelease, EndRun
      <4>3. CASE attempts[a] # "absent"
        BY <1>2, <2>5, <4>1, <4>3 DEF Handle, HandleRelease
      <4>4. QED
        BY <4>2, <4>3
    <3>3. QED
      BY <1>2, <3>1, <3>2 DEF Handle, TypeOK
  <2>6. QED
    BY <2>3, <2>4, <2>5
<1>3. CASE DeadLetter(c)
  BY <1>3, FirstOfBatch DEF DeadLetter, TypeOK
<1>4. CASE Ack(c)
  BY <1>4 DEF Ack, TypeOK
<1>5. CASE Forget(c)
  <2>1. faults' \in 0 .. MaxFaults
    BY <1>5, MaxFaultsAssumption DEF Forget, TypeOK
  <2>2. retries' \in [Ids -> Nat]
    <3>1. retries' = [retries EXCEPT ![First(batch[c])] = 0] \/ retries' = retries
      BY <1>5 DEF Forget
    <3>2. retries \in [Ids -> Nat]
      BY DEF TypeOK
    <3>3. ASSUME retries' = [retries EXCEPT ![First(batch[c])] = 0] PROVE retries' \in [Ids -> Nat]
      BY <3>2, <3>3
    <3>4. QED
      BY <3>1, <3>2, <3>3
  <2>3. QED
    BY <1>5, <2>1, <2>2, FirstOfBatch DEF Forget, TypeOK
<1>6. CASE RecoverAttempts(c)
  <2>1. /\ attempts' \in [Attempts -> {"absent", "open", "terminal", "reconciled"}]
        /\ usage' \in [Attempts -> {"none", "gateway", "synthetic"}]
    BY <1>6 DEF RecoverAttempts, TypeOK
  <2>2. QED
    BY <1>6, <2>1 DEF RecoverAttempts, EndRun, TypeOK
<1>7. QED
  BY <1>1, <1>2, <1>3, <1>4, <1>5, <1>6

\* Every step of the pipeline keeps the types.
LEMMA TypeNext == TypeInv /\ [Next]_vars => TypeInv'
<1> SUFFICES ASSUME TypeInv, [Next]_vars PROVE TypeInv'
  OBVIOUS
<1> USE DEF TypeInv, HasMessage
<1>1. CASE \E i \in Ids : IdleElapses(i)
  BY <1>1 DEF IdleElapses, TypeOK, redisVars, consumerVars, ledgerVars, gatewayVars
<1>2. CASE EntryAges
  <2>1. Len(stream) \in Nat
    BY LenProperties DEF TypeOK
  <2>2. QED
    BY <1>2, <2>1 DEF EntryAges, TypeOK, consumerVars, ledgerVars, gatewayVars
<1>3. CASE UNCHANGED vars
  BY <1>3 DEF vars, TypeOK
<1>4. QED
  <2> HIDE DEF TypeInv, HasMessage
  <2> QED BY <1>1, <1>2, <1>3, TypeGateway, TypeRedis, TypeProcess DEF Next, Step

\* Type correctness of the pipeline: the group never delivers, acknowledges
\* or dead-letters what was not appended, and a control process that works on a
\* message has one.
THEOREM TypeCorrect == Spec => []TypeOK
<1>1. TypeInv => TypeOK
  BY DEF TypeInv
<1>2. QED
  BY <1>1, TypeInit, TypeNext, PTL DEF Spec

-----------------------------------------------------------------------------
(* The ledger. *)

\* The four things a step can do to the ledger tables.
Inserts(a) == /\ attempts[a] = "absent"
              /\ attempts' = [attempts EXCEPT ![a] = "open"]
              /\ UNCHANGED <<usage, authority>>

Commits(a) == /\ attempts[a] # "absent"
              /\ usage' = IF usage[a] = "none" THEN [usage EXCEPT ![a] = "gateway"] ELSE usage
              /\ attempts' = [attempts EXCEPT ![a] = TerminalState(@)]
              /\ authority' = JudgeOnInsert(a)

Recovers(S) == /\ \A a \in S : attempts[a] = "open"
               /\ usage' = [a \in Attempts |->
                              IF a \in S /\ usage[a] = "none" THEN "synthetic" ELSE usage[a]]
               /\ attempts' = [a \in Attempts |-> IF a \in S THEN "reconciled" ELSE attempts[a]]
               /\ UNCHANGED authority

\* A step does one of four things to the two tables: nothing, a start, a
\* release or a reconciliation.
LEMMA LedgerEffect ==
  ASSUME TypeInv, [Next]_vars
  PROVE  \/ UNCHANGED ledgerVars
         \/ \E a \in Attempts : Inserts(a) \/ Commits(a)
         \/ \E S \in SUBSET Attempts : Recovers(S)
<1>1. ASSUME NEW c \in Consumers, Handle(c)
      PROVE  UNCHANGED ledgerVars \/ \E a \in Attempts : Inserts(a) \/ Commits(a)
  <2>1. stream[First(batch[c])] \in Entry
    BY <1>1, FirstOfBatch DEF Handle, TypeInv, HasMessage
  <2> DEFINE a == stream[First(batch[c])].attempt
  <2>2. a \in Attempts
    BY <2>1 DEF Entry
  <2>3. HandleAttemptStarted(c, a) \/ HandleRelease(c, a)
    BY <1>1 DEF Handle
  <2> HIDE DEF a
  <2>4. QED
    BY <2>2, <2>3 DEF HandleAttemptStarted, HandleRelease, Inserts, Commits, ledgerVars
<1>2. ASSUME NEW c \in Consumers, RecoverAttempts(c)
      PROVE  \E S \in SUBSET Attempts : Recovers(S)
  <2>1. PICK skipped \in SUBSET Locked(c) :
          /\ usage' = [a \in Attempts |-> IF a \in Due(skipped) /\ usage[a] = "none"
                                           THEN "synthetic" ELSE usage[a]]
          /\ attempts' = [a \in Attempts |-> IF a \in Due(skipped) THEN "reconciled"
                                              ELSE attempts[a]]
    BY <1>2 DEF RecoverAttempts
  <2>2. Due(skipped) \in SUBSET Attempts /\ \A a \in Due(skipped) : attempts[a] = "open"
    BY DEF Due, TypeInv, TypeOK
  <2>3. UNCHANGED authority
    BY <1>2 DEF RecoverAttempts
  <2>4. QED
    BY <2>1, <2>2, <2>3 DEF Recovers
<1>3. ASSUME NEW c \in Consumers,
             \/ Tick(c) \/ Reclaim(c) \/ ReadNew(c) \/ BeginProcess(c) \/ DeadLetter(c)
             \/ Ack(c) \/ Forget(c) \/ TrimThreshold(c) \/ TrimMinID(c) \/ Interrupt(c)
      PROVE  UNCHANGED ledgerVars
  BY <1>3 DEF Tick, Reclaim, ReadNew, BeginProcess, DeadLetter, Ack, Forget,
              TrimThreshold, TrimMinID, Interrupt, ledgerVars
<1>4. ASSUME NEW a \in Attempts,
             StartAttempt(a) \/ FinishAttempt(a) \/ GatewayCrash(a) \/ DeadlinePasses(a)
      PROVE  UNCHANGED ledgerVars
  BY <1>4 DEF StartAttempt, FinishAttempt, GatewayCrash, DeadlinePasses, ledgerVars
<1>5. ASSUME NEW i \in Ids, IdleElapses(i) PROVE UNCHANGED ledgerVars
  BY <1>5 DEF IdleElapses, ledgerVars
<1>6. CASE EntryAges
  BY <1>6 DEF EntryAges, ledgerVars
<1>7. CASE UNCHANGED vars
  BY <1>7 DEF vars, ledgerVars
<1>8. QED
  BY <1>1, <1>2, <1>3, <1>4, <1>5, <1>6, <1>7 DEF Next, Step

\* The empty tables agree.
LEMMA LedgerInit == Init => LedgerAgrees
  BY DEF Init, LedgerAgrees

\* Starts, releases and reconciliations keep the two tables in agreement.
LEMMA LedgerNext == TypeInv /\ LedgerAgrees /\ [Next]_vars => LedgerAgrees'
<1> SUFFICES ASSUME TypeInv, LedgerAgrees, [Next]_vars PROVE LedgerAgrees'
  OBVIOUS
<1>0. /\ attempts \in [Attempts -> {"absent", "open", "terminal", "reconciled"}]
      /\ usage \in [Attempts -> {"none", "gateway", "synthetic"}]
      /\ authority \in [Attempts -> Nat]
  BY DEF TypeInv, TypeOK
<1>1. CASE UNCHANGED ledgerVars
  BY <1>1 DEF ledgerVars, LedgerAgrees
<1>2. ASSUME NEW a \in Attempts, Inserts(a) PROVE LedgerAgrees'
  BY <1>0, <1>2 DEF Inserts, LedgerAgrees
<1>3. ASSUME NEW a \in Attempts, Commits(a) PROVE LedgerAgrees'
  BY <1>0, <1>3 DEF Commits, TerminalState, JudgeOnInsert, LedgerAgrees
<1>4. ASSUME NEW S \in SUBSET Attempts, Recovers(S) PROVE LedgerAgrees'
  BY <1>0, <1>4 DEF Recovers, LedgerAgrees
<1>5. QED
  BY LedgerEffect, <1>1, <1>2, <1>3, <1>4

\* For any number of control processes, redeliveries, duplicated events and
\* races between a release and the reconciler, the attempt and usage tables
\* agree and an account is judged once per metered attempt.
THEOREM LedgerConsistent == Spec => []LedgerAgrees
<1>1. TypeInv /\ LedgerAgrees /\ [Next]_vars => (TypeInv /\ LedgerAgrees)'
  BY TypeNext, LedgerNext
<1>2. QED
  BY <1>1, TypeInit, LedgerInit, PTL DEF Spec

\* Each step of the pipeline is a step of AttemptAccounting or leaves it alone:
\* an attempt opens once, closes once, and the first terminal wins.
THEOREM RefinesAccounting == Spec => ImplementsAccounting
<1> DEFINE acc == [a \in Attempts |-> CASE attempts[a] = "absent" -> "unseen"
                                        [] attempts[a] = "open" -> "open"
                                        [] attempts[a] = "terminal" -> "metered"
                                        [] attempts[a] = "reconciled" -> "reconciled"]
<1>1. Init => Accounting!Init
  BY DEF Init, Accounting!Init
<1>2. TypeInv /\ LedgerAgrees /\ [Next]_vars => [Accounting!Next]_(Accounting!vars)
  <2> SUFFICES ASSUME TypeInv, LedgerAgrees, [Next]_vars
               PROVE  Accounting!Next \/ UNCHANGED <<acc, authority>>
    BY DEF Accounting!vars
  <2>0. /\ attempts \in [Attempts -> {"absent", "open", "terminal", "reconciled"}]
        /\ usage \in [Attempts -> {"none", "gateway", "synthetic"}]
        /\ authority \in [Attempts -> Nat]
    BY DEF TypeInv, TypeOK
  <2>1. CASE UNCHANGED ledgerVars
    BY <2>1 DEF ledgerVars
  <2>2. ASSUME NEW a \in Attempts, Inserts(a) PROVE Accounting!Open(a)
    BY <2>0, <2>2 DEF Inserts, Accounting!Open
  <2>3. ASSUME NEW a \in Attempts, Commits(a)
        PROVE  Accounting!Meter(a) \/ UNCHANGED <<acc, authority>>
    <3>1. CASE attempts[a] = "open"
      BY <2>0, <2>3, <3>1
      DEF Commits, TerminalState, JudgeOnInsert, LedgerAgrees, Accounting!Meter
    <3>2. CASE attempts[a] # "open"
      BY <2>0, <2>3, <3>2 DEF Commits, TerminalState, JudgeOnInsert, LedgerAgrees
    <3>3. QED
      BY <3>1, <3>2
  <2>4. ASSUME NEW S \in SUBSET Attempts, Recovers(S)
        PROVE  Accounting!Reconcile(S) \/ UNCHANGED <<acc, authority>>
    <3>1. CASE S = {}
      BY <2>0, <2>4, <3>1 DEF Recovers
    <3>2. CASE S # {}
      BY <2>0, <2>4, <3>2 DEF Recovers, Accounting!Reconcile
    <3>3. QED
      BY <3>1, <3>2
  <2>5. QED
    BY LedgerEffect, <2>1, <2>2, <2>3, <2>4 DEF Accounting!Next
<1>3. TypeInv /\ LedgerAgrees /\ [Next]_vars => (TypeInv /\ LedgerAgrees)'
  BY TypeNext, LedgerNext
<1>4. QED
  BY <1>1, <1>2, <1>3, TypeInit, LedgerInit, PTL DEF Spec, ImplementsAccounting, Accounting!Spec

-----------------------------------------------------------------------------
(* No event is lost. *)

\* What a control process knows about the message it is working on.
StageInv ==
  \A c \in Consumers :
    /\ pc[c] = "ack" => Applied(stream[First(batch[c])])
    /\ pc[c] = "dlqack" => First(batch[c]) \in dlq

\* Nothing pending or undelivered lies below what is or will be trimmed.
TrimInv ==
  /\ horizon <= cursor
  /\ trimmed <= horizon
  /\ \A i \in pel : i > trimmed
  /\ \A c \in Consumers :
       pc[c] = "trim" => /\ threshold[c] <= horizon + 1
                         /\ \A i \in pel : i >= threshold[c]

IInv == TypeInv /\ StageInv /\ TrimInv /\ NothingLost

\* Entries are never rewritten.
LEMMA StreamGrows ==
  ASSUME TypeInv, [Next]_vars
  PROVE  /\ Len(stream') >= Len(stream)
         /\ \A i \in 1 .. Len(stream) : stream'[i] = stream[i]
<1>0. Len(stream) \in Nat
  BY LenProperties DEF TypeInv, TypeOK
<1>1. ASSUME NEW a \in Attempts, StartAttempt(a)
      PROVE  Len(stream') >= Len(stream) /\ \A i \in 1 .. Len(stream) : stream'[i] = stream[i]
  <2>1. Event("attempt_started", a, TRUE) \in Entry
    BY DEF Event, Entry
  <2>2. QED
    BY <1>1, <2>1, AddKeeps DEF StartAttempt, TypeInv
<1>2. ASSUME NEW a \in Attempts, FinishAttempt(a)
      PROVE  Len(stream') >= Len(stream) /\ \A i \in 1 .. Len(stream) : stream'[i] = stream[i]
  <2>1. \A v \in BOOLEAN : Event("release", a, v) \in Entry
    BY DEF Event, Entry
  <2>2. QED
    BY <1>2, <2>1, AddKeeps DEF FinishAttempt, TypeInv
<1>3. ASSUME NEW a \in Attempts, GatewayCrash(a) \/ DeadlinePasses(a) PROVE UNCHANGED stream
  BY <1>3 DEF GatewayCrash, DeadlinePasses, gatewayVars
<1>4. ASSUME NEW i \in Ids, IdleElapses(i) PROVE UNCHANGED stream
  BY <1>4 DEF IdleElapses, gatewayVars
<1>5. CASE EntryAges
  BY <1>0, <1>5 DEF EntryAges, gatewayVars
<1>6. ASSUME NEW c \in Consumers, Step(c) \/ Interrupt(c) PROVE UNCHANGED stream
  BY <1>6 DEF Step, Tick, Reclaim, ReadNew, BeginProcess, Handle, DeadLetter, Ack, Forget,
              RecoverAttempts, TrimThreshold, TrimMinID, Interrupt, gatewayVars
<1>7. CASE UNCHANGED vars
  BY <1>0, <1>7 DEF vars
<1>8. QED
  BY <1>0, <1>1, <1>2, <1>3, <1>4, <1>5, <1>6, <1>7 DEF Next

\* An effect in the database stays.
LEMMA AppliedStays ==
  ASSUME TypeInv, [Next]_vars, NEW i \in 1 .. Len(stream), Applied(stream[i])
  PROVE  Applied(stream[i])'
<1> DEFINE e == stream[i]
<1>0. /\ attempts \in [Attempts -> {"absent", "open", "terminal", "reconciled"}]
      /\ usage \in [Attempts -> {"none", "gateway", "synthetic"}]
      /\ e \in Entry
  BY ElementOfSeq DEF TypeInv, TypeOK
<1>1. e.attempt \in Attempts
  BY <1>0 DEF Entry
<1>2. stream'[i] = e
  BY StreamGrows
<1> HIDE DEF e
<1>3. /\ attempts[e.attempt] # "absent" => attempts'[e.attempt] # "absent"
      /\ usage[e.attempt] # "none" => usage'[e.attempt] # "none"
  <2>1. CASE UNCHANGED ledgerVars
    BY <2>1 DEF ledgerVars
  <2>2. ASSUME NEW a \in Attempts, Inserts(a)
        PROVE  <1>3!1 /\ <1>3!2
    BY <1>0, <1>1, <2>2 DEF Inserts
  <2>3. ASSUME NEW a \in Attempts, Commits(a)
        PROVE  <1>3!1 /\ <1>3!2
    BY <1>0, <1>1, <2>3 DEF Commits, TerminalState
  <2>4. ASSUME NEW S \in SUBSET Attempts, Recovers(S)
        PROVE  <1>3!1 /\ <1>3!2
    BY <1>0, <1>1, <2>4 DEF Recovers
  <2>5. QED
    BY LedgerEffect, <2>1, <2>2, <2>3, <2>4
<1>4. Applied(e)
  BY DEF e
<1>5. QED
  BY <1>2, <1>3, <1>4 DEF Applied

\* Nothing is taken out of the dead letter stream.
LEMMA DeadLettersStay ==
  ASSUME TypeInv, [Next]_vars
  PROVE  dlq \subseteq dlq'
<1>1. ASSUME NEW a \in Attempts,
             StartAttempt(a) \/ FinishAttempt(a) \/ GatewayCrash(a) \/ DeadlinePasses(a)
      PROVE  UNCHANGED dlq
  BY <1>1 DEF StartAttempt, FinishAttempt, GatewayCrash, DeadlinePasses, redisVars
<1>2. ASSUME NEW i \in Ids, IdleElapses(i) PROVE UNCHANGED dlq
  BY <1>2 DEF IdleElapses
<1>3. CASE EntryAges
  BY <1>3 DEF EntryAges
<1>4. ASSUME NEW c \in Consumers, Step(c) \/ Interrupt(c) PROVE dlq \subseteq dlq'
  BY <1>4 DEF Step, Tick, Reclaim, ReadNew, BeginProcess, Handle, DeadLetter, Ack, Forget,
              RecoverAttempts, TrimThreshold, TrimMinID, Interrupt, redisVars
<1>5. CASE UNCHANGED vars
  BY <1>5 DEF vars
<1>6. QED
  BY <1>1, <1>2, <1>3, <1>4, <1>5 DEF Next

\* An entry that was applied or dead-lettered stays so.
LEMMA SettledStays ==
  ASSUME TypeInv, [Next]_vars, NEW i \in 1 .. Len(stream), Settled(i)
  PROVE  Settled(i)'
<1>1. CASE i \in dlq
  BY <1>1, DeadLettersStay DEF Settled
<1>2. CASE Applied(stream[i])
  BY <1>2, AppliedStays DEF Settled
<1>3. QED
  BY <1>1, <1>2 DEF Settled

\* A consumer acknowledges an entry only once it is settled.
LEMMA StageNext == TypeInv /\ StageInv /\ [Next]_vars => StageInv'
<1> SUFFICES ASSUME TypeInv, StageInv, [Next]_vars, NEW d \in Consumers
             PROVE  /\ pc'[d] = "ack" => Applied(stream[First(batch[d])])'
                    /\ pc'[d] = "dlqack" => First(batch'[d]) \in dlq'
  BY DEF StageInv
<1>0. /\ cursor \in 0 .. Len(stream) /\ Len(stream) \in Nat
      /\ pc \in [Consumers -> PC] /\ batch \in [Consumers -> SUBSET (1 .. cursor)]
  BY LenProperties DEF TypeInv, TypeOK
<1>1. CASE pc'[d] = pc[d] /\ batch'[d] = batch[d]
  <2>1. ASSUME pc[d] = "ack" PROVE Applied(stream[First(batch[d])])'
    <3>1. First(batch[d]) \in 1 .. Len(stream)
      BY <1>0, <2>1, FirstOfBatch DEF TypeInv, HasMessage
    <3>2. \A i \in 1 .. Len(stream) : Applied(stream[i]) => Applied(stream[i])'
      BY AppliedStays
    <3>3. First(batch[d]) = First(batch'[d])
      BY <1>1
    <3>4. Applied(stream[First(batch[d])])
      BY <2>1 DEF StageInv
    <3>5. PICK i \in 1 .. Len(stream) : i = First(batch[d])
      BY <3>1
    <3>6. Applied(stream[i])'
      BY <3>2, <3>4, <3>5
    <3>7. QED
      BY <3>3, <3>5, <3>6
  <2>2. ASSUME pc[d] = "dlqack" PROVE First(batch'[d]) \in dlq'
    BY <1>1, <2>2, DeadLettersStay DEF StageInv
  <2>3. QED
    BY <1>1, <2>1, <2>2
<1>2. CASE pc'[d] \notin {"ack", "dlqack"}
  BY <1>2
<1>3. CASE Handle(d)
  <2>1. stream[First(batch[d])] \in Entry
    BY <1>3, FirstOfBatch DEF Handle, TypeInv, HasMessage
  <2> DEFINE e == stream[First(batch[d])]
  <2>2. e.attempt \in Attempts
    BY <2>1 DEF Entry
  <2>3. UNCHANGED stream
    BY <1>3 DEF Handle, gatewayVars
  <2>4. \/ e.kind = "attempt_started" /\ HandleAttemptStarted(d, e.attempt)
        \/ e.kind = "release" /\ HandleRelease(d, e.attempt)
    BY <1>3 DEF Handle
  <2>5. /\ attempts \in [Attempts -> {"absent", "open", "terminal", "reconciled"}]
        /\ usage \in [Attempts -> {"none", "gateway", "synthetic"}]
    BY DEF TypeInv, TypeOK
  <2>6. pc'[d] = "select" \/ (pc'[d] = "ack" /\ batch' = batch)
    <3> HIDE DEF e
    <3>1. CASE HandleAttemptStarted(d, e.attempt)
      BY <1>0, <3>1 DEF HandleAttemptStarted, Goto
    <3>2. CASE HandleRelease(d, e.attempt)
      BY <1>0, <3>2 DEF HandleRelease, EndRun, Goto
    <3>3. QED
      BY <2>4, <3>1, <3>2
  <2>7. CASE pc'[d] = "ack" /\ batch' = batch
    <3> HIDE DEF e
    <3>1. CASE e.kind = "attempt_started" /\ HandleAttemptStarted(d, e.attempt)
      <4>1. attempts'[e.attempt] # "absent"
        BY <2>2, <2>5, <3>1 DEF HandleAttemptStarted
      <4>2. stream'[First(batch'[d])] = e
        BY <2>3, <2>7 DEF e
      <4>3. QED
        BY <2>7, <3>1, <4>1, <4>2 DEF Applied
    <3>2. CASE e.kind = "release" /\ HandleRelease(d, e.attempt)
      <4>1. attempts[e.attempt] # "absent"
        BY <1>0, <2>7, <3>2 DEF HandleRelease, EndRun, Goto
      <4>2. usage'[e.attempt] # "none"
        BY <2>2, <2>5, <3>2, <4>1 DEF HandleRelease
      <4>3. stream'[First(batch'[d])] = e
        BY <2>3, <2>7 DEF e
      <4>4. QED
        BY <2>7, <3>2, <4>2, <4>3 DEF Applied
    <3>3. QED
      BY <2>4, <3>1, <3>2 DEF e
  <2>8. QED
    BY <2>6, <2>7
<1>4. CASE DeadLetter(d)
  BY <1>0, <1>4 DEF DeadLetter, Goto
<1>5. ASSUME NEW c \in Consumers, Step(c) \/ Interrupt(c)
      PROVE  \/ pc'[d] = pc[d] /\ batch'[d] = batch[d]
             \/ pc'[d] \notin {"ack", "dlqack"}
             \/ Handle(d) \/ DeadLetter(d)
  <2>1. CASE c = d /\ ~Handle(d) /\ ~DeadLetter(d)
    BY <1>0, <1>5, <2>1 DEF Step, Tick, Reclaim, ReadNew, BeginProcess, AfterCount, Ack, Forget,
       RecoverAttempts, TrimThreshold, TrimMinID, Interrupt, EndRun, Goto
  <2>2. CASE c # d
    BY <1>0, <1>5, <2>2 DEF Step, Tick, Reclaim, ReadNew, BeginProcess, Handle, DeadLetter, Ack,
       Forget, HandleAttemptStarted, HandleRelease, RecoverAttempts, TrimThreshold, TrimMinID,
       Interrupt, EndRun, Goto
  <2>3. QED
    BY <1>5, <2>1, <2>2
<1>6. ASSUME NEW a \in Attempts,
             StartAttempt(a) \/ FinishAttempt(a) \/ GatewayCrash(a) \/ DeadlinePasses(a)
      PROVE  UNCHANGED consumerVars
  BY <1>6 DEF StartAttempt, FinishAttempt, GatewayCrash, DeadlinePasses, consumerVars
<1>7. ASSUME NEW i \in Ids, IdleElapses(i) PROVE UNCHANGED consumerVars
  BY <1>7 DEF IdleElapses, consumerVars
<1>8. EntryAges \/ UNCHANGED vars => UNCHANGED consumerVars
  BY DEF EntryAges, vars, consumerVars
<1>9. QED
  <2>1. CASE UNCHANGED consumerVars
    BY <1>1, <2>1 DEF consumerVars
  <2>2. QED
    BY <1>1, <1>2, <1>3, <1>4, <1>5, <1>6, <1>7, <1>8, <2>1 DEF Next

\* A threshold never crosses an entry that is delivered and unacknowledged.
LEMMA TrimNext == ReadWithinRetention /\ TypeInv /\ TrimInv /\ [Next]_vars => TrimInv'
<1> SUFFICES ASSUME ReadWithinRetention, TypeInv, TrimInv, [Next]_vars PROVE TrimInv'
  OBVIOUS
<1>0. /\ Len(stream) \in Nat /\ cursor \in 0 .. Len(stream) /\ horizon \in 0 .. Len(stream)
      /\ trimmed \in 0 .. Len(stream) /\ pel \subseteq 1 .. cursor
      /\ pc \in [Consumers -> PC] /\ threshold \in [Consumers -> 0 .. Len(stream) + 1]
  BY LenProperties DEF TypeInv, TypeOK
<1>1. ASSUME UNCHANGED <<horizon, cursor, trimmed, threshold>>, pel' \subseteq pel,
             \A c \in Consumers : pc'[c] = "trim" => pc[c] = "trim"
      PROVE  TrimInv'
  BY <1>0, <1>1 DEF TrimInv
<1>2. ASSUME NEW a \in Attempts,
             StartAttempt(a) \/ FinishAttempt(a) \/ GatewayCrash(a) \/ DeadlinePasses(a)
      PROVE  TrimInv'
  BY <1>1, <1>2 DEF StartAttempt, FinishAttempt, GatewayCrash, DeadlinePasses, redisVars, consumerVars
<1>3. ASSUME NEW i \in Ids, IdleElapses(i) PROVE TrimInv'
  BY <1>1, <1>3 DEF IdleElapses, consumerVars
<1>4. CASE EntryAges
  BY <1>0, <1>4 DEF EntryAges, TrimInv, consumerVars
<1>5. CASE UNCHANGED vars
  BY <1>1, <1>5 DEF vars
<1>6. ASSUME NEW c \in Consumers,
             Tick(c) \/ Reclaim(c) \/ BeginProcess(c) \/ DeadLetter(c) \/ Ack(c) \/ Forget(c)
      PROVE  TrimInv'
  BY <1>0, <1>1, <1>6 DEF Tick, Reclaim, BeginProcess, AfterCount, DeadLetter, Ack, Forget, Goto,
     redisVars
<1>7. ASSUME NEW c \in Consumers, Handle(c) PROVE TrimInv'
  <2> DEFINE a == stream[First(batch[c])].attempt
  <2>1. HandleAttemptStarted(c, a) \/ HandleRelease(c, a)
    BY <1>7 DEF Handle
  <2> HIDE DEF a
  <2>2. \A d \in Consumers : pc'[d] = "trim" => pc[d] = "trim"
    BY <1>0, <2>1 DEF HandleAttemptStarted, HandleRelease, EndRun, Goto
  <2>3. QED
    BY <1>1, <1>7, <2>2 DEF Handle, redisVars
<1>8. ASSUME NEW c \in Consumers, RecoverAttempts(c) PROVE TrimInv'
  BY <1>0, <1>1, <1>8 DEF RecoverAttempts, EndRun, Goto, redisVars
<1>9. ASSUME NEW c \in Consumers, ReadNew(c) PROVE TrimInv'
  <2> DEFINE from == IF trimmed > cursor THEN trimmed ELSE cursor
             upto == ReadUpto(from)
             new  == {i \in 1 .. upto : i > from}
  <2>1. from = cursor
    BY <1>0 DEF TrimInv
  <2>2. /\ pel' = pel \cup new
        /\ cursor' = IF upto > from THEN upto ELSE cursor
        /\ UNCHANGED <<horizon, trimmed, pc, threshold>>
    BY <1>9 DEF ReadNew
  <2>3. upto \in 0 .. Len(stream)
    BY <1>0, <2>1, BatchSizeAssumption DEF ReadUpto
  <2>4. \A i \in new : i \in Nat /\ i > cursor
    BY <2>1, <2>3, <1>0
  <2> HIDE DEF from, upto, new
  <2>5. cursor' \in Nat /\ cursor' >= cursor
    BY <1>0, <2>1, <2>2, <2>3
  <2>6. QED
    BY <1>0, <2>2, <2>4, <2>5 DEF TrimInv
<1>10. ASSUME NEW c \in Consumers, TrimThreshold(c) PROVE TrimInv'
  <2> DEFINE t == IF pel # {} /\ First(pel) < horizon + 1 THEN First(pel) ELSE horizon + 1
  <2>0. pel \subseteq Nat
    BY <1>0
  <2>1. pel # {} => First(pel) \in pel /\ \A j \in pel : First(pel) <= j
    BY <2>0, FirstIn
  <2>2. t \in Nat /\ t <= horizon + 1 /\ \A i \in pel : i >= t
    <3>0. horizon \in Nat
      BY <1>0
    <3>1. CASE pel = {}
      BY <3>0, <3>1
    <3>2. CASE pel # {}
      <4>1. PICK f \in pel : f = First(pel) /\ \A j \in pel : f <= j
        BY <2>1, <3>2
      <4>2. t = IF f < horizon + 1 THEN f ELSE horizon + 1
        BY <3>2, <4>1
      <4>3. QED
        BY <2>0, <3>0, <4>1, <4>2
    <3>3. QED
      BY <3>1, <3>2
  <2>3. /\ threshold' = [threshold EXCEPT ![c] = t] /\ pc' = [pc EXCEPT ![c] = "trim"]
        /\ UNCHANGED <<horizon, trimmed, cursor, pel>>
    BY <1>10 DEF TrimThreshold, Goto, redisVars
  <2> HIDE DEF t
  <2>4. QED
    BY <1>0, <2>2, <2>3 DEF TrimInv
<1>11. ASSUME NEW c \in Consumers, TrimMinID(c) PROVE TrimInv'
  <2>1. /\ pc[c] = "trim"
        /\ trimmed' = IF trimmed < threshold[c] - 1 THEN threshold[c] - 1 ELSE trimmed
        /\ threshold' = [threshold EXCEPT ![c] = 0] /\ pc' = [pc EXCEPT ![c] = "reclaim"]
        /\ UNCHANGED <<horizon, cursor, pel>>
    BY <1>11 DEF TrimMinID, Goto
  <2>2. /\ threshold[c] \in 0 .. Len(stream) + 1 /\ threshold[c] <= horizon + 1
        /\ \A i \in pel : i >= threshold[c]
    BY <1>0, <2>1 DEF TrimInv
  <2>3. trimmed' <= horizon /\ \A i \in pel : i > trimmed'
    BY <1>0, <2>1, <2>2 DEF TrimInv
  <2>4. QED
    BY <1>0, <2>1, <2>3 DEF TrimInv
<1>12. ASSUME NEW c \in Consumers, Interrupt(c) PROVE TrimInv'
  BY <1>0, <1>12 DEF Interrupt, EndRun, Goto, redisVars, TrimInv
<1>13. QED
  BY <1>2, <1>3, <1>4, <1>5, <1>6, <1>7, <1>8, <1>9, <1>10, <1>11, <1>12 DEF Next, Step

\* A step of a control process leaves an entry recoverable or has settled it.
LEMMA StaysRecoverable ==
  ASSUME TypeInv, StageInv, TrimInv, NEW c \in Consumers, Step(c) \/ Interrupt(c),
         NEW i \in 1 .. Len(stream), Recoverable(i)
  PROVE  Settled(i) \/ Recoverable(i)'
<1>0. /\ Len(stream) \in Nat /\ cursor \in 0 .. Len(stream) /\ horizon \in 0 .. Len(stream)
      /\ trimmed \in 0 .. Len(stream) /\ pel \subseteq 1 .. cursor
      /\ threshold \in [Consumers -> 0 .. Len(stream) + 1]
  BY LenProperties DEF TypeInv, TypeOK
<1>1. CASE \/ Tick(c) \/ BeginProcess(c) \/ Handle(c) \/ DeadLetter(c) \/ Forget(c)
           \/ RecoverAttempts(c) \/ TrimThreshold(c) \/ Interrupt(c)
  <2>1. UNCHANGED <<trimmed, cursor, pel>>
    BY <1>1 DEF Tick, BeginProcess, Handle, DeadLetter, Forget, RecoverAttempts, TrimThreshold,
                Interrupt, redisVars
  <2>2. QED
    BY <2>1 DEF Recoverable
<1>2. CASE Reclaim(c)
  <2>1. UNCHANGED <<trimmed, cursor>> /\ (i \in pel => i \in pel')
    BY <1>2 DEF Reclaim, TrimInv
  <2>2. QED
    BY <2>1 DEF Recoverable
<1>3. CASE ReadNew(c)
  <2> DEFINE from == IF trimmed > cursor THEN trimmed ELSE cursor
             upto == ReadUpto(from)
             new  == {j \in 1 .. upto : j > from}
  <2>1. from = cursor /\ upto \in 0 .. Len(stream)
    BY <1>0, BatchSizeAssumption DEF TrimInv, ReadUpto
  <2>2. /\ pel' = pel \cup new
        /\ cursor' = IF upto > from THEN upto ELSE cursor
        /\ UNCHANGED trimmed
    BY <1>3 DEF ReadNew
  <2> HIDE DEF upto, from
  <2>3. i > cursor => i > cursor' \/ i \in new
    BY <1>0, <2>1, <2>2
  <2> HIDE DEF new
  <2>4. QED
    BY <2>2, <2>3 DEF Recoverable
<1>4. CASE Ack(c)
  <2>1. pel' = pel \ {First(batch[c])} /\ UNCHANGED <<trimmed, cursor>>
    BY <1>4 DEF Ack
  <2>2. CASE i = First(batch[c])
    BY <1>4, <2>2 DEF Ack, StageInv, Settled
  <2>3. CASE i # First(batch[c])
    BY <2>1, <2>3 DEF Recoverable
  <2>4. QED
    BY <2>2, <2>3
<1>5. CASE TrimMinID(c)
  <2>1. /\ pc[c] = "trim"
        /\ trimmed' = IF trimmed < threshold[c] - 1 THEN threshold[c] - 1 ELSE trimmed
        /\ UNCHANGED <<cursor, pel>>
    BY <1>5 DEF TrimMinID
  <2>2. /\ threshold[c] \in 0 .. Len(stream) + 1 /\ threshold[c] <= cursor + 1
        /\ \A j \in pel : j >= threshold[c]
    BY <1>0, <2>1 DEF TrimInv
  <2>3. i > trimmed'
    BY <1>0, <2>1, <2>2 DEF Recoverable
  <2>4. QED
    BY <2>1, <2>3 DEF Recoverable
<1>6. QED
  BY <1>1, <1>2, <1>3, <1>4, <1>5 DEF Step

\* No step loses an entry.
LEMMA NothingLostNext ==
  TypeInv /\ StageInv /\ TrimInv /\ NothingLost /\ [Next]_vars => NothingLost'
<1> SUFFICES ASSUME TypeInv, StageInv, TrimInv, NothingLost, [Next]_vars,
                    NEW i \in 1 .. Len(stream')
             PROVE  Settled(i)' \/ Recoverable(i)'
  BY DEF NothingLost
<1>0. /\ Len(stream) \in Nat /\ Len(stream') \in Nat /\ i \in Nat \ {0}
      /\ cursor \in 0 .. Len(stream) /\ trimmed \in 0 .. Len(stream)
  BY TypeNext, LenProperties DEF TypeInv, TypeOK
<1>1. CASE i \in 1 .. Len(stream) /\ Settled(i)
  BY <1>1, SettledStays
<1>2. CASE \E c \in Consumers : Step(c) \/ Interrupt(c)
  <2>1. UNCHANGED stream
    BY <1>2 DEF Step, Tick, Reclaim, ReadNew, BeginProcess, Handle, DeadLetter, Ack, Forget,
                RecoverAttempts, TrimThreshold, TrimMinID, Interrupt, gatewayVars
  <2>2. i \in 1 .. Len(stream)
    BY <2>1
  <2>3. Settled(i) \/ Recoverable(i)
    BY <2>2 DEF NothingLost
  <2>4. QED
    BY <1>1, <1>2, <2>2, <2>3, StaysRecoverable
<1>3. CASE UNCHANGED <<trimmed, cursor, pel>>
  <2>1. CASE i \in 1 .. Len(stream) /\ Recoverable(i)
    BY <1>3, <2>1 DEF Recoverable
  <2>2. CASE i \notin 1 .. Len(stream)
    BY <1>0, <1>3, <2>2 DEF Recoverable
  <2>3. QED
    BY <1>1, <2>1, <2>2 DEF NothingLost
<1>4. QED
  <2>1. ASSUME NEW a \in Attempts,
               StartAttempt(a) \/ FinishAttempt(a) \/ GatewayCrash(a) \/ DeadlinePasses(a)
        PROVE  UNCHANGED <<trimmed, cursor, pel>>
    BY <2>1 DEF StartAttempt, FinishAttempt, GatewayCrash, DeadlinePasses, redisVars
  <2>2. ASSUME NEW j \in Ids, IdleElapses(j) PROVE UNCHANGED <<trimmed, cursor, pel>>
    BY <2>2 DEF IdleElapses
  <2>3. EntryAges \/ UNCHANGED vars => UNCHANGED <<trimmed, cursor, pel>>
    BY DEF EntryAges, vars
  <2>4. QED
    BY <1>2, <1>3, <2>1, <2>2, <2>3 DEF Next

\* The empty stream satisfies the whole invariant.
LEMMA SafeInit == Init => IInv
<1>1. Init => StageInv /\ TrimInv /\ NothingLost
  BY EmptySeq, LenProperties DEF Init, StageInv, TrimInv, NothingLost
<1>2. QED
  BY <1>1, TypeInit DEF IInv

\* With entries delivered within the retention window, no event the gateway
\* appended is lost: for every interleaving of control processes, errors,
\* crashes, reclaims and trims it is applied, dead-lettered or recoverable.
THEOREM EventsNotLost ==
  ASSUME ReadWithinRetention
  PROVE  Spec => []NothingLost
<1>1. IInv /\ [Next]_vars => IInv'
  BY TypeNext, StageNext, TrimNext, NothingLostNext DEF IInv
<1>2. IInv => NothingLost
  BY DEF IInv
<1>3. QED
  BY <1>1, <1>2, SafeInit, PTL DEF Spec
=============================================================================
