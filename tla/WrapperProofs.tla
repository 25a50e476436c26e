---------------------------- MODULE WrapperProofs ----------------------------
(***************************************************************************)
(* What the wrapper's queue keeps, for any number of jobs, workers and     *)
(* faults, and any timeouts that executorFromConfig accepts.               *)
(***************************************************************************)
EXTENDS WrapperQueue, WellFoundedInduction, TLAPS

LEMMA MinPair ==
  ASSUME NEW a \in Nat, NEW b \in Nat
  PROVE  Min({a, b}) \in Nat /\ Min({a, b}) <= a /\ Min({a, b}) <= b
<1>1. PICK x \in {a, b} : \A y \in {a, b} : x <= y OBVIOUS
<1>2. Min({a, b}) \in {a, b} /\ \A y \in {a, b} : Min({a, b}) <= y BY <1>1 DEF Min
<1>3. QED BY <1>2

LEMMA MinFacts ==
  ASSUME NEW S \in SUBSET Nat, S # {}
  PROVE  Min(S) \in S
<1>1. PICK x \in S : \A y \in S : ~(<<y, x>> \in OpToRel(<, Nat))
  BY NatLessThanWellFounded, WFMin, Zenon
<1>2. \A y \in S : ~(y < x)
  BY <1>1 DEF OpToRel
<1>3. \A y \in S : x <= y BY <1>2
<1>4. QED BY <1>3 DEF Min

(***************************************************************************)
(* Types.                                                                  *)
(***************************************************************************)

RedisOK ==
  /\ sent \in 0 .. MaxJobs
  /\ mode \in [Jobs -> Modes \cup {"none", "malformed"}]
  /\ delivered \in 0 .. sent
  /\ pending \subseteq 1 .. delivered
  /\ rested \subseteq pending
  /\ marker \in [Jobs -> {NoMarker} \cup ({"claiming", "lease"} \X Workers)]
  /\ terminal \in [Jobs -> Outcomes \cup {"none"}]
  /\ dead \subseteq 1 .. delivered

\* A worker that is at a message has one.
WorkersOK ==
  /\ pc \in [Workers -> PC]
  /\ job \in [Workers -> 0 .. delivered]
  /\ todo \in [Workers -> SUBSET (1 .. delivered)]
  /\ age \in [Workers -> 0 .. LeaseTTL]
  /\ \A w \in Workers : pc[w] \in Holding \cup {"setnx"} => job[w] # NoJob

OthersOK ==
  /\ client \in [Jobs -> Outcomes \cup {"none", "waiting", "gave up"}]
  /\ overslept \subseteq Workers
  /\ faults \in 0 .. MaxFaults

TypeInv == RedisOK /\ WorkersOK /\ OthersOK /\ FlowTypeOK

LEMMA TypeInvOK == TypeInv => TypeOK
BY DEF TypeInv, RedisOK, WorkersOK, OthersOK, TypeOK

\* What a step of a flow may make of it.
LEMMA FlowFacts ==
  ASSUME FlowTypeOK, NEW w \in Workers, FlowStep(w) \/ \E m \in Modes : Execute(w, m)
  PROVE  \E p \in Phases \ {"off"}, n \in Nat, o \in Outcomes \cup {"none"} :
           /\ flow' = [flow EXCEPT ![w] = [phase |-> p, left |-> n, outcome |-> o]]
           /\ p \in {"closing", "ended"} =>
                o # "none" \/ (flow[w].phase = "closing" /\ o = flow[w].outcome)
<1>1. /\ flow[w].left \in Nat /\ CallbackTimeout \in Nat /\ RequestTimeout \in Nat
      /\ \A e \in Lifetimes : deadline(e) \in Nat
      /\ flow[w].outcome \in Outcomes \cup {"none"}
  BY TimeoutAssumption, LifetimesAssumption, MinPair DEF FlowTypeOK, Flow, deadline
<1>2. \/ \E p \in Phases \ {"off", "closing", "ended"}, n \in Nat : Phase(w, p, n)
      \/ \E o \in Outcomes : End(w, o) \/ Close(w, o)
      \/ flow[w].phase = "closing" /\ End(w, flow[w].outcome)
  <2>1. ASSUME NEW m \in Modes, Execute(w, m)
        PROVE  \/ Phase(w, "listen", 0) \/ Phase(w, "code", RequestTimeout)
               \/ End(w, "permanent")
    BY <2>1 DEF Execute, StartPKCE, StartDevice, Refuse
  <2>2. CASE Listen(w) \/ Callback(w) \/ CallbackLost(w) \/ ReceiveCode(w) \/ ExchangeCode(w)
    BY <1>1, <2>2
    DEF Listen, Callback, CallbackLost, ReceiveCode, ExchangeCode, Enter, Phases, Outcomes
  <2>3. CASE Shutdown(w) BY <2>3 DEF Shutdown, In
  <2>4. CASE RequestDeviceCode(w) \/ Poll(w) \/ PollAgain(w)
    BY <1>1, <2>4 DEF RequestDeviceCode, Poll, PollAgain, Enter, Phases, Outcomes
  <2>5. QED BY <1>1, <2>1, <2>2, <2>3, <2>4 DEF FlowStep, Phases, Outcomes
<1>3. /\ "none" \notin Outcomes /\ "ended" \in Phases /\ "closing" \in Phases
      /\ ShutdownTimeout \in Nat
  BY ShutdownAssumption DEF Outcomes, Phases
<1>4. QED BY <1>1, <1>2, <1>3 DEF Phase, End, Close

LEMMA FlowType ==
  ASSUME FlowTypeOK, NEW w \in Workers,
         FlowStep(w) \/ FlowTick(w) \/ \E m \in Modes : Execute(w, m)
  PROVE  FlowTypeOK'
<1>1. CASE FlowTick(w)
  BY <1>1 DEF FlowTick, FlowTypeOK, Flow
<1>2. CASE FlowStep(w) \/ \E m \in Modes : Execute(w, m)
  <2>1. PICK p \in Phases, n \in Nat, o \in Outcomes \cup {"none"} :
          flow' = [flow EXCEPT ![w] = [phase |-> p, left |-> n, outcome |-> o]]
    BY <1>2, FlowFacts
  <2>2. QED BY <2>1 DEF FlowTypeOK, Flow
<1>3. QED BY <1>1, <1>2

LEMMA TypeInit == Init => TypeInv
<1> SUFFICES ASSUME Init PROVE TypeInv OBVIOUS
<1>1. RedisOK /\ OthersOK
  BY JobsAssumption, FaultsAssumption DEF Init, RedisOK, OthersOK, Jobs
<1>2. WorkersOK BY TimeoutAssumption DEF Init, WorkersOK, PC, Holding, NoJob
<1>3. FlowTypeOK BY DEF Init, FlowInit, FlowTypeOK, FlowOff, Flow, Phases
<1>4. QED BY <1>1, <1>2, <1>3 DEF TypeInv

\* A worker goes to a label, with a message or without one.
Moves(w, l, j) ==
  /\ pc' = [pc EXCEPT ![w] = l]
  /\ job' = [job EXCEPT ![w] = j]

LEMMA MovesType ==
  ASSUME WorkersOK, NEW w \in Workers, NEW l \in PC, delivered' \in Nat, NEW j \in 0 .. delivered',
         Moves(w, l, j), l \in Holding \cup {"setnx"} => j # NoJob,
         delivered \in Nat, delivered <= delivered',
         todo' \in [Workers -> SUBSET (1 .. delivered')], age' \in [Workers -> 0 .. LeaseTTL]
  PROVE  WorkersOK'
<1>1. job' \in [Workers -> 0 .. delivered'] BY DEF Moves, WorkersOK
<1>2. pc' \in [Workers -> PC] BY DEF Moves, WorkersOK
<1>3. \A v \in Workers : pc'[v] \in Holding \cup {"setnx"} => job'[v] # NoJob
  BY DEF Moves, WorkersOK
<1>4. QED BY <1>1, <1>2, <1>3 DEF WorkersOK

\* Where each step of a worker leads.
LEMMA WorkerMoves ==
  ASSUME TypeInv, NEW w \in Workers,
         XPending(w) \/ Scan(w) \/ XClaim(w) \/ Unmark(w) \/ Del(w) \/ MarkNew(w)
           \/ Decode(w) \/ DeadLetter(w) \/ XAck(w) \/ SetLease(w) \/ Executed(w) \/ Report(w)
           \/ TerminalScript(w) \/ Exit(w) \/ Restart(w)
  PROVE  /\ \E l \in PC, j \in 0 .. delivered :
              Moves(w, l, j) /\ (l \in Holding \cup {"setnx"} => j # NoJob)
         /\ todo' \in [Workers -> SUBSET (1 .. delivered)]
         /\ age' \in [Workers -> 0 .. LeaseTTL]
         /\ delivered' = delivered
<1>0. /\ job[w] \in 0 .. delivered /\ pc \in [Workers -> PC] /\ job = [job EXCEPT ![w] = job[w]]
      /\ pc = [pc EXCEPT ![w] = pc[w]]
      /\ pc[w] \in Holding \cup {"setnx"} => job[w] # NoJob
      /\ todo \in [Workers -> SUBSET (1 .. delivered)] /\ todo[w] \in SUBSET Nat
      /\ age \in [Workers -> 0 .. LeaseTTL] /\ LeaseTTL \in Nat
      /\ delivered \in Nat /\ 0 \in 0 .. delivered
  BY TimeoutAssumption DEF TypeInv, RedisOK, WorkersOK
<1>1. todo' \in [Workers -> SUBSET (1 .. delivered)]
  BY <1>0 DEF TypeInv, RedisOK, XPending, Scan, XClaim, Unmark, Del, MarkNew, Decode, DeadLetter, XAck,
     SetLease, Executed, Report, TerminalScript, Exit, Restart, Leave, Again
<1>2. age' \in [Workers -> 0 .. LeaseTTL]
  BY <1>0 DEF XPending, Scan, XClaim, Unmark, Del, MarkNew, Decode, DeadLetter, XAck,
     SetLease, Executed, Report, TerminalScript, Exit, Restart, Leave, Again
<1>3. delivered' = delivered
  BY DEF XPending, Scan, XClaim, Unmark, Del, MarkNew, Decode, DeadLetter, XAck,
     SetLease, Executed, Report, TerminalScript, Exit, Restart, redisVars
<1> DEFINE Goes == \E l \in PC, j \in 0 .. delivered :
                     Moves(w, l, j) /\ (l \in Holding \cup {"setnx"} => j # NoJob)
<1> HIDE DEF Goes
<1>4. ASSUME NEW l \in PC, NEW j \in 0 .. delivered, pc' = [pc EXCEPT ![w] = l],
             job' = [job EXCEPT ![w] = j], l \in Holding \cup {"setnx"} => j # NoJob
      PROVE  Goes
  BY <1>4 DEF Goes, Moves
<1>5. ASSUME NEW l \in PC, Goto(w, l), UNCHANGED job,
             l \in Holding \cup {"setnx"} => pc[w] \in Holding \cup {"setnx"}
      PROVE  Goes
  BY <1>0, <1>4, <1>5 DEF Goto
<1>6. ASSUME NEW l \in {"down", "poll", "scan"}, Goto(w, l), At(w, NoJob) PROVE Goes
  BY <1>0, <1>4, <1>6 DEF Goto, At, PC, Holding, NoJob
<1>7. Goes
  <2>1. CASE XPending(w) \/ Restart(w)
    BY <1>5, <2>1 DEF XPending, Restart, PC, Holding
  <2>2. CASE Scan(w)
    <3>1. todo[w] # {} => Min(todo[w]) \in 1 .. delivered BY <1>0, MinFacts
    <3>2. CASE Goto(w, "read") /\ UNCHANGED job BY <1>5, <3>2 DEF PC, Holding
    <3>3. CASE todo[w] # {} /\ At(w, Min(todo[w])) /\ Goto(w, "xclaim")
      <4>1. Min(todo[w]) \in 0 .. delivered /\ Min(todo[w]) # NoJob
        BY <1>0, <3>1, <3>3 DEF NoJob
      <4>2. "xclaim" \in PC BY DEF PC
      <4>3. QED BY <1>4, <3>3, <4>1, <4>2 DEF Goto, At
    <3>4. CASE UNCHANGED <<job, pc>> /\ pc[w] = "scan"
      BY <1>0, <1>5, <3>4 DEF Goto, PC
    <3>5. QED BY <2>2, <3>2, <3>3, <3>4 DEF Scan
  <2>3. CASE XClaim(w) BY <1>5, <2>3 DEF XClaim, PC, Holding
  <2>4. CASE Unmark(w) \/ Del(w) BY <1>5, <1>6, <2>4 DEF Unmark, Del, PC, Holding
  <2>5. CASE MarkNew(w) BY <1>5, <1>6, <2>5 DEF MarkNew, Again, PC
  <2>6. CASE Decode(w)
    <3>1. Disposition(job[w]) \in {"dlq", "ack", "lease"} BY DEF Disposition
    <3>2. QED BY <1>5, <2>6, <3>1 DEF Decode, PC, Holding
  <2>7. CASE DeadLetter(w) \/ SetLease(w) \/ Executed(w)
    BY <1>5, <2>7 DEF DeadLetter, SetLease, Executed, PC, Holding
  <2>8. CASE XAck(w) BY <1>6, <2>8 DEF XAck, Again
  <2>9. CASE Report(w) BY <1>5, <1>6, <2>9 DEF Report, Leave, PC, Holding
  <2>10. CASE TerminalScript(w) BY <1>6, <2>10 DEF TerminalScript, Leave
  <2>11. CASE Exit(w) BY <1>6, <2>11 DEF Exit, Leave
  <2>12. QED BY <2>1, <2>2, <2>3, <2>4, <2>5, <2>6, <2>7, <2>8, <2>9, <2>10, <2>11
<1>8. QED BY <1>1, <1>2, <1>3, <1>7 DEF Goes

LEMMA WorkersType ==
  ASSUME TypeInv, [Next]_vars
  PROVE  WorkersOK'
<1>0. /\ WorkersOK /\ delivered \in Nat /\ sent \in Nat /\ LeaseTTL \in Nat
      /\ \A w \in Workers : todo[w] \in SUBSET (1 .. delivered) /\ age[w] \in 0 .. LeaseTTL
  BY TimeoutAssumption DEF TypeInv, RedisOK, WorkersOK
<1>1. CASE UNCHANGED <<workerVars, delivered>>
  BY <1>0, <1>1 DEF WorkersOK, workerVars
<1>2. ASSUME NEW w \in Workers, WorkerStep(w) \/ Exit(w) \/ Restart(w), ~XReadGroup(w), ~Begin(w)
      PROVE  WorkersOK'
  BY <1>0, <1>2, WorkerMoves, MovesType DEF WorkerStep
<1>3. ASSUME NEW w \in Workers, XReadGroup(w) PROVE WorkersOK'
  <2>1. CASE delivered < sent
    <3>1. Moves(w, "setnx", delivered + 1) /\ delivered' = delivered + 1 /\ UNCHANGED <<todo, age>>
      BY <1>0, <1>3, <2>1 DEF XReadGroup, At, Goto, Moves
    <3>2. todo' \in [Workers -> SUBSET (1 .. delivered')] BY <1>0, <3>1 DEF WorkersOK
    <3>3. QED BY <1>0, <3>1, <3>2, MovesType DEF WorkersOK, PC, NoJob
  <2>2. CASE ~(delivered < sent)
    <3>1. Moves(w, "poll", NoJob) /\ delivered' = delivered /\ UNCHANGED todo
          /\ age' = [age EXCEPT ![w] = 0]
      BY <1>3, <2>2 DEF XReadGroup, Again, At, Goto, Moves
    <3>2. QED BY <1>0, <3>1, MovesType DEF WorkersOK, PC, NoJob, Holding
  <2>3. QED BY <2>1, <2>2
<1>4. ASSUME NEW w \in Workers, Tick(w) \/ Oversleep(w) PROVE WorkersOK'
  <2>1. UNCHANGED <<pc, job, todo, delivered>> BY <1>4 DEF Tick, Oversleep, redisVars
  <2>2. age' \in [Workers -> 0 .. LeaseTTL]
    <3>1. Min({age[w] + 1, LeaseTTL}) \in 0 .. LeaseTTL BY <1>0, MinPair
    <3>2. QED BY <1>0, <1>4, <3>1 DEF Tick, Oversleep, WorkersOK
  <2>3. QED BY <1>0, <2>1, <2>2 DEF WorkersOK
<1>5. QED
  BY <1>1, <1>2, <1>3, <1>4
  DEF Next, vars, workerVars, redisVars, WorkerStep, Enqueue, AskTerminal, Rest, MarkerExpires,
      Begin, Proceed

LEMMA RedisType ==
  ASSUME TypeInv, [Next]_vars
  PROVE  RedisOK'
<1>0. RedisOK /\ WorkersOK /\ sent \in Nat /\ delivered \in Nat /\ MaxJobs \in Nat
  BY JobsAssumption DEF TypeInv, RedisOK
<1>1. CASE UNCHANGED redisVars BY <1>0, <1>1 DEF RedisOK, redisVars
<1>2. ASSUME NEW m \in Modes \cup {"malformed"}, Enqueue(m) PROVE RedisOK'
  BY <1>0, <1>2 DEF Enqueue, RedisOK, Jobs
<1>3. ASSUME NEW j \in Jobs, Rest(j) \/ MarkerExpires(j) PROVE RedisOK'
  BY <1>0, <1>3 DEF Rest, MarkerExpires, RedisOK
<1>4. ASSUME NEW w \in Workers, Scan(w) \/ Del(w) \/ MarkNew(w) \/ SetLease(w) PROVE RedisOK'
  <2>1. UNCHANGED <<sent, mode, delivered, pending, rested, terminal, dead>>
    BY <1>4 DEF Scan, Del, MarkNew, SetLease
  <2>2. \/ marker' = marker
        \/ \E j \in Nat : marker' = [marker EXCEPT ![j] = <<"claiming", w>>]
        \/ \E j \in Nat : marker' = [marker EXCEPT ![j] = <<"lease", w>>]
        \/ \E j \in Nat : marker' = [marker EXCEPT ![j] = NoMarker]
    <3>1. job[w] \in Nat /\ todo[w] \in SUBSET Nat BY <1>0 DEF WorkersOK
    <3>2. todo[w] # {} => Min(todo[w]) \in Nat BY <3>1, MinFacts
    <3>3. QED BY <1>4, <3>1, <3>2 DEF Scan, Del, MarkNew, SetLease, Acquire
  <2>3. marker' \in [Jobs -> {NoMarker} \cup ({"claiming", "lease"} \X Workers)]
    BY <1>0, <2>2 DEF RedisOK
  <2>4. QED BY <1>0, <2>1, <2>3 DEF RedisOK
<1>5. ASSUME NEW w \in Workers, XClaim(w) \/ XAck(w) PROVE RedisOK'
  BY <1>0, <1>5 DEF XClaim, XAck, RedisOK
<1>6. ASSUME NEW w \in Workers, XReadGroup(w) PROVE RedisOK'
  <2>1. UNCHANGED <<sent, mode, rested, marker, terminal, dead>> BY <1>6 DEF XReadGroup
  <2>2. CASE delivered < sent
    <3>1. delivered' = delivered + 1 /\ pending' = pending \cup {delivered + 1}
      BY <1>0, <1>6, <2>2 DEF XReadGroup
    <3>2. delivered' \in 0 .. sent' BY <1>0, <2>1, <2>2, <3>1
    <3>3. pending' \subseteq 1 .. delivered' /\ dead' \subseteq 1 .. delivered'
      BY <1>0, <2>1, <3>1 DEF RedisOK
    <3>4. rested' \subseteq pending' BY <1>0, <2>1, <3>1 DEF RedisOK
    <3>5. QED BY <1>0, <2>1, <3>2, <3>3, <3>4 DEF RedisOK
  <2>3. CASE ~(delivered < sent)
    <3>1. UNCHANGED <<delivered, pending>> BY <1>6, <2>3 DEF XReadGroup
    <3>2. QED BY <1>0, <2>1, <3>1 DEF RedisOK
  <2>4. QED BY <2>2, <2>3
<1>7. ASSUME NEW w \in Workers, DeadLetter(w) PROVE RedisOK'
  <2>1. job[w] \in 1 .. delivered
    BY <1>0, <1>7 DEF DeadLetter, WorkersOK, Holding, NoJob
  <2>2. QED BY <1>0, <1>7, <2>1 DEF DeadLetter, RedisOK
<1>8. ASSUME NEW w \in Workers, TerminalScript(w) PROVE RedisOK'
  <2>1. flow[w].outcome \in Outcomes \cup {"none"} BY DEF TypeInv, FlowTypeOK, Flow
  <2>2. terminal' \in [Jobs -> Outcomes \cup {"none"}]
    BY <1>0, <1>8, <2>1 DEF TerminalScript, RedisOK
  <2>3. marker' \in [Jobs -> {NoMarker} \cup ({"claiming", "lease"} \X Workers)]
    BY <1>0, <1>8 DEF TerminalScript, RedisOK
  <2>4. QED BY <1>0, <1>8, <2>2, <2>3 DEF TerminalScript, RedisOK
<1>9. QED
  BY <1>1, <1>2, <1>3, <1>4, <1>5, <1>6, <1>7, <1>8
  DEF Next, vars, WorkerStep, AskTerminal, XPending, Unmark, Decode, Begin, Executed, Report,
      Proceed, Tick, Oversleep, Exit, Restart, redisVars

LEMMA OthersType ==
  ASSUME TypeInv, [Next]_vars
  PROVE  OthersOK' /\ FlowTypeOK'
<1>1. OthersOK'
  <2>1. client' \in [Jobs -> Outcomes \cup {"none", "waiting", "gave up"}]
    <3>1. CASE UNCHANGED client BY <3>1 DEF TypeInv, OthersOK
    <3>2. ASSUME NEW j \in Jobs, AskTerminal(j)
          PROVE  client' \in [Jobs -> Outcomes \cup {"none", "waiting", "gave up"}]
      BY <3>2 DEF TypeInv, OthersOK, RedisOK, AskTerminal
    <3>3. ASSUME NEW m \in Modes \cup {"malformed"}, Enqueue(m)
          PROVE  client' \in [Jobs -> Outcomes \cup {"none", "waiting", "gave up"}]
      BY <3>3 DEF TypeInv, OthersOK, Enqueue
    <3>4. QED
      BY <3>1, <3>2, <3>3
      DEF Next, vars, WorkerStep, Rest, MarkerExpires, XPending, Scan, XClaim, Unmark, Del,
          XReadGroup, MarkNew, Decode, DeadLetter, XAck, SetLease, Begin, Executed, Report,
          TerminalScript, Proceed, Tick, Oversleep, Exit, Restart
  <2>2. overslept' \subseteq Workers /\ faults' \in 0 .. MaxFaults
    <3>1. CASE UNCHANGED <<overslept, faults>> BY <3>1 DEF TypeInv, OthersOK
    <3>2. ASSUME NEW w \in Workers, Oversleep(w) \/ Exit(w)
          PROVE  overslept' \subseteq Workers /\ faults' \in 0 .. MaxFaults
      <4>1. faults < MaxFaults /\ faults' = faults + 1 BY <3>2 DEF Oversleep, Exit, Fault
      <4>2. faults' \in 0 .. MaxFaults
        <5>1. OthersOK BY DEF TypeInv
        <5>2. faults \in 0 .. MaxFaults BY <5>1, Zenon DEF OthersOK
        <5>3. QED BY <4>1, <5>2, FaultsAssumption
      <4>3. overslept' = overslept \/ overslept' = overslept \cup {w}
        BY <3>2 DEF Oversleep, Exit
      <4>4. QED BY <4>2, <4>3 DEF TypeInv, OthersOK
    <3>3. QED
      BY <3>1, <3>2
      DEF Next, vars, WorkerStep, Enqueue, AskTerminal, Rest, MarkerExpires, XPending, Scan, XClaim,
          Unmark, Del, XReadGroup, MarkNew, Decode, DeadLetter, XAck, SetLease, Begin, Executed,
          Report, TerminalScript, Proceed, Tick, Restart
  <2>3. QED BY <2>1, <2>2 DEF OthersOK
<1>2. FlowTypeOK'
  <2>0. FlowTypeOK BY DEF TypeInv
  <2>1. CASE UNCHANGED flow BY <2>0, <2>1 DEF FlowTypeOK
  <2>2. ASSUME NEW w \in Workers, flow' = [flow EXCEPT ![w] = FlowOff] PROVE FlowTypeOK'
    BY <2>0, <2>2 DEF FlowTypeOK, FlowOff, Flow, Phases
  <2>3. ASSUME NEW w \in Workers, Begin(w) PROVE FlowTypeOK'
    <3>1. Execute(w, mode[job[w]]) BY <2>3 DEF Begin
    <3>2. mode[job[w]] \in Modes BY <3>1 DEF Execute, Modes
    <3>3. QED BY <2>0, <3>1, <3>2, FlowType
  <2>4. ASSUME NEW w \in Workers, Proceed(w) \/ Tick(w) PROVE FlowTypeOK'
    BY <2>0, <2>4, FlowType DEF Proceed, Tick
  <2>5. QED
    BY <2>1, <2>2, <2>3, <2>4
    DEF Next, vars, WorkerStep, Enqueue, AskTerminal, Rest, MarkerExpires, XPending, Scan, XClaim,
        Unmark, Del, XReadGroup, MarkNew, Decode, DeadLetter, XAck, SetLease, Executed,
        Report, TerminalScript, Oversleep, Exit, Restart, Again, Leave
<1>3. QED BY <1>1, <1>2

LEMMA TypeStep == TypeInv /\ [Next]_vars => TypeInv'
BY RedisType, WorkersType, OthersType DEF TypeInv

\* A worker that claims, leases, executes or reports is at a message that was
\* delivered, and a message is in the pending list or the DLQ only once it was
\* (Queue.nextMessage, Queue.terminal).
THEOREM TypeCorrect == Spec => []TypeOK
BY TypeInit, TypeStep, TypeInvOK, PTL DEF Spec

(***************************************************************************)
(* Who a step concerns.                                                    *)
(***************************************************************************)

Own(w) == WorkerStep(w) \/ Proceed(w) \/ Tick(w) \/ Oversleep(w) \/ Exit(w) \/ Restart(w)

Around == \/ \E m \in Modes \cup {"malformed"} : Enqueue(m)
          \/ \E j \in Jobs : AskTerminal(j) \/ Rest(j) \/ MarkerExpires(j)

LEMMA OthersStand ==
  ASSUME TypeInv, NEW w \in Workers, Own(w), NEW v \in Workers \ {w}
  PROVE  pc'[v] = pc[v] /\ job'[v] = job[v] /\ flow'[v] = flow[v] /\ age'[v] = age[v]
<1>0. /\ DOMAIN pc = Workers /\ DOMAIN job = Workers /\ DOMAIN age = Workers /\ DOMAIN flow = Workers
      /\ pc = [x \in Workers |-> pc[x]] /\ job = [x \in Workers |-> job[x]]
      /\ age = [x \in Workers |-> age[x]] /\ flow = [x \in Workers |-> flow[x]]
  BY DEF TypeInv, WorkersOK, FlowTypeOK
<1>1. pc'[v] = pc[v]
  BY <1>0 DEF Own, WorkerStep, XPending, Scan, XClaim, Unmark, Del, XReadGroup, MarkNew, Decode,
     DeadLetter, XAck, SetLease, Begin, Executed, Report, TerminalScript, Proceed, Tick, Oversleep,
     Exit, Restart, Goto, Again, Leave, workerVars
<1>2. job'[v] = job[v]
  BY <1>0 DEF Own, WorkerStep, XPending, Scan, XClaim, Unmark, Del, XReadGroup, MarkNew, Decode,
     DeadLetter, XAck, SetLease, Begin, Executed, Report, TerminalScript, Proceed, Tick, Oversleep,
     Exit, Restart, At, Again, Leave, workerVars
<1>3. age'[v] = age[v]
  BY <1>0 DEF Own, WorkerStep, XPending, Scan, XClaim, Unmark, Del, XReadGroup, MarkNew, Decode,
     DeadLetter, XAck, SetLease, Begin, Executed, Report, TerminalScript, Proceed, Tick, Oversleep,
     Exit, Restart, Again, Leave, workerVars
<1>4. flow'[v] = flow[v]
  <2>1. CASE Begin(w)
    <3>1. Execute(w, mode[job[w]]) BY <2>1 DEF Begin
    <3>2. mode[job[w]] \in Modes BY <3>1 DEF Execute, Modes
    <3>3. QED BY <1>0, <3>1, <3>2, FlowFacts DEF TypeInv
  <2>2. CASE Proceed(w)
    BY <1>0, <2>2, FlowFacts DEF TypeInv, Proceed
  <2>3. CASE Tick(w) BY <1>0, <2>3 DEF Tick, FlowTick
  <2>4. CASE ~Begin(w) /\ ~Proceed(w) /\ ~Tick(w)
    BY <1>0, <2>4
    DEF Own, WorkerStep, XPending, Scan, XClaim, Unmark, Del, XReadGroup, MarkNew, Decode,
        DeadLetter, XAck, SetLease, Executed, Report, TerminalScript, Oversleep,
        Exit, Restart, Again, Leave
  <2>5. QED BY <2>1, <2>2, <2>3, <2>4
<1>5. QED BY <1>1, <1>2, <1>3, <1>4

LEMMA WorkersStand ==
  ASSUME Around \/ UNCHANGED vars
  PROVE  UNCHANGED <<pc, job, age, flow>>
BY DEF Around, vars, workerVars, Enqueue, AskTerminal, Rest, MarkerExpires

LEMMA NextCases ==
  ASSUME [Next]_vars
  PROVE  (\E w \in Workers : Own(w)) \/ Around \/ UNCHANGED vars
BY DEF Next, Own, Around

(***************************************************************************)
(* How jobs end.                                                           *)
(***************************************************************************)

\* A worker that reports has an outcome to report.
FlowEnds(w) ==
  /\ flow[w].phase \in {"closing", "ended"} => flow[w].outcome # "none"
  /\ pc[w] \in {"report", "script"} => flow[w].phase = "ended"

\* What is executed decodes, what is dead-lettered does not, and what is
\* acknowledged without a result of the worker's own has ended already.
AtMessage(w) ==
  /\ pc[w] = "dlq" => mode[job[w]] = "malformed"
  /\ pc[w] \in {"lease", "execute", "report", "script"} => mode[job[w]] # "malformed"
  /\ pc[w] = "ack" => Ended(job[w])

\* A job has a result or is dead, never both, and only once it was sent.
EndsApart ==
  /\ \A j \in dead : mode[j] = "malformed"
  /\ \A j \in Jobs : terminal[j] # "none" => mode[j] # "malformed" /\ j <= sent
  /\ \A j \in Jobs : j > sent => client[j] = "none"

EndInv == /\ TypeInv /\ EndsApart /\ NoJobLost
          /\ \A w \in Workers : FlowEnds(w) /\ AtMessage(w)

LEMMA EndInit == Init => EndInv
<1> SUFFICES ASSUME Init PROVE EndInv OBVIOUS
<1>1. TypeInv BY TypeInit
<1>2. EndsApart /\ NoJobLost BY DEF Init, EndsApart, NoJobLost, Jobs
<1>3. \A w \in Workers : FlowEnds(w) /\ AtMessage(w)
  BY DEF Init, FlowInit, FlowOff, FlowEnds, AtMessage
<1>4. QED BY <1>1, <1>2, <1>3 DEF EndInv

LEMMA FlowEndsStep ==
  ASSUME EndInv, [Next]_vars, NEW v \in Workers
  PROVE  FlowEnds(v)'
<1>0. TypeInv /\ FlowEnds(v) /\ FlowTypeOK /\ flow[v] \in Flow /\ pc \in [Workers -> PC]
  BY DEF EndInv, TypeInv, FlowTypeOK, WorkersOK
<1>1. CASE Around \/ UNCHANGED vars
  BY <1>0, <1>1, WorkersStand DEF FlowEnds
<1>2. ASSUME NEW w \in Workers \ {v}, Own(w) PROVE FlowEnds(v)'
  BY <1>0, <1>2, OthersStand DEF FlowEnds
<1>3. CASE Own(v)
  <2>1. CASE Begin(v) \/ Proceed(v)
    <3>1. FlowStep(v) \/ \E m \in Modes : Execute(v, m)
      BY <2>1 DEF Begin, Proceed, Execute, Modes
    <3>2. flow'[v].phase \in {"closing", "ended"} => flow'[v].outcome # "none"
      <4>1. PICK p \in Phases \ {"off"}, n \in Nat, o \in Outcomes \cup {"none"} :
              /\ flow' = [flow EXCEPT ![v] = [phase |-> p, left |-> n, outcome |-> o]]
              /\ p \in {"closing", "ended"} =>
                   o # "none" \/ (flow[v].phase = "closing" /\ o = flow[v].outcome)
        BY <1>0, <3>1, FlowFacts
      <4>2. QED BY <1>0, <4>1 DEF FlowTypeOK, FlowEnds
    <3>3. pc'[v] = "execute" BY <2>1 DEF Begin, Proceed, workerVars
    <3>4. QED BY <3>2, <3>3 DEF FlowEnds
  <2>2. CASE Tick(v)
    <3>1. flow'[v].phase = flow[v].phase /\ flow'[v].outcome = flow[v].outcome /\ pc' = pc
      BY <1>0, <2>2 DEF Tick, FlowTick, FlowTypeOK, Flow
    <3>2. QED BY <1>0, <3>1 DEF FlowEnds
  <2>3. CASE Executed(v) BY <1>0, <2>3 DEF Executed, Goto, In, FlowEnds
  <2>4. CASE flow' = [flow EXCEPT ![v] = FlowOff] /\ pc'[v] \in {"poll", "down"}
    <3>1. flow'[v] = FlowOff BY <1>0, <2>4 DEF FlowTypeOK
    <3>2. QED BY <2>4, <3>1 DEF FlowEnds, FlowOff
  <2>5. CASE UNCHANGED flow /\ pc[v] = "report" /\ pc'[v] = "script"
    BY <1>0, <2>5 DEF FlowEnds
  <2>6. CASE UNCHANGED flow /\ pc'[v] \notin {"report", "script"}
    BY <1>0, <2>6 DEF FlowEnds
  <2>7. CASE UNCHANGED <<flow, pc>> BY <1>0, <2>7 DEF FlowEnds
  <2>8. CASE Report(v) BY <1>0, <2>4, <2>5, <2>8 DEF Report, Leave, Goto
  <2>9. CASE TerminalScript(v) \/ Exit(v)
    BY <1>0, <2>4, <2>9 DEF TerminalScript, Exit, Leave, Goto
  <2>10. CASE Decode(v)
    <3>1. Disposition(job[v]) \in {"dlq", "ack", "lease"} BY DEF Disposition
    <3>2. QED BY <1>0, <2>6, <2>10, <3>1 DEF Decode, Goto
  <2>11. CASE Scan(v)
    <3>1. UNCHANGED flow /\ (pc'[v] \in {"read", "xclaim"} \/ pc' = pc)
      BY <1>0, <2>11 DEF Scan, Goto
    <3>2. QED BY <2>6, <2>7, <3>1
  <2>12. CASE XPending(v) \/ XClaim(v) \/ Unmark(v) \/ Del(v) \/ XReadGroup(v) \/ MarkNew(v)
              \/ DeadLetter(v) \/ XAck(v) \/ SetLease(v) \/ Restart(v)
    <3>1. UNCHANGED flow /\ pc'[v] \notin {"report", "script"}
      BY <1>0, <2>12 DEF XPending, XClaim, Unmark, Del, XReadGroup, MarkNew, DeadLetter, XAck,
         SetLease, Restart, Goto, Again
    <3>2. QED BY <2>6, <3>1
  <2>13. CASE Oversleep(v) BY <2>7, <2>13 DEF Oversleep
  <2>14. QED
    BY <1>3, <2>1, <2>2, <2>3, <2>8, <2>9, <2>10, <2>11, <2>12, <2>13 DEF Own, WorkerStep
<1>4. QED BY <1>1, <1>2, <1>3, NextCases

\* Ends and modes are for good.
LEMMA EndsStand ==
  ASSUME TypeInv, [Next]_vars
  PROVE  /\ sent <= sent' /\ dead \subseteq dead'
         /\ \A j \in 1 .. sent : mode'[j] = mode[j]
         /\ \A j \in Jobs : terminal[j] # "none" => terminal'[j] # "none"
         /\ \A j \in 1 .. sent : Ended(j) => Ended(j)'
<1>0. /\ sent \in Nat /\ sent <= MaxJobs /\ MaxJobs \in Nat /\ delivered \in Nat /\ delivered <= sent
      /\ terminal \in [Jobs -> Outcomes \cup {"none"}]
      /\ mode \in [Jobs -> Modes \cup {"none", "malformed"}]
  BY JobsAssumption DEF TypeInv, RedisOK
<1>1. sent <= sent' /\ \A j \in 1 .. sent : mode'[j] = mode[j]
  <2>1. CASE UNCHANGED <<sent, mode>> BY <1>0, <2>1
  <2>2. ASSUME NEW m \in Modes \cup {"malformed"}, Enqueue(m)
        PROVE  sent <= sent' /\ \A j \in 1 .. sent : mode'[j] = mode[j]
    BY <1>0, <2>2 DEF Enqueue
  <2>3. QED
    BY <2>1, <2>2
    DEF Next, vars, redisVars, WorkerStep, AskTerminal, Rest, MarkerExpires, XPending, Scan, XClaim,
        Unmark, Del, XReadGroup, MarkNew, Decode, DeadLetter, XAck, SetLease, Begin, Executed,
        Report, TerminalScript, Proceed, Tick, Oversleep, Exit, Restart
<1>2. dead \subseteq dead'
  BY DEF Next, vars, redisVars, WorkerStep, Enqueue, AskTerminal, Rest, MarkerExpires, XPending,
     Scan, XClaim, Unmark, Del, XReadGroup, MarkNew, Decode, DeadLetter, XAck, SetLease, Begin,
     Executed, Report, TerminalScript, Proceed, Tick, Oversleep, Exit, Restart
<1>3. \A j \in Jobs : terminal[j] # "none" => terminal'[j] # "none"
  <2>1. CASE UNCHANGED terminal BY <2>1
  <2>2. ASSUME NEW w \in Workers, TerminalScript(w)
        PROVE  \A j \in Jobs : terminal[j] # "none" => terminal'[j] # "none"
    BY <1>0, <2>2 DEF TerminalScript, MayReport
  <2>3. QED
    BY <2>1, <2>2
    DEF Next, vars, redisVars, WorkerStep, Enqueue, AskTerminal, Rest, MarkerExpires, XPending, Scan,
        XClaim, Unmark, Del, XReadGroup, MarkNew, Decode, DeadLetter, XAck, SetLease, Begin,
        Executed, Report, Proceed, Tick, Oversleep, Exit, Restart
<1>4. 1 .. sent \subseteq Jobs BY <1>0 DEF Jobs
<1>5. QED BY <1>1, <1>2, <1>3, <1>4 DEF Ended

LEMMA AtMessageStep ==
  ASSUME EndInv, [Next]_vars, NEW v \in Workers
  PROVE  AtMessage(v)'
<1>0. /\ TypeInv /\ AtMessage(v) /\ pc \in [Workers -> PC] /\ sent \in Nat
      /\ pc[v] \in Holding => job[v] \in 1 .. sent
  BY DEF EndInv, TypeInv, RedisOK, WorkersOK, NoJob
\* A worker that stays at its message keeps what it knows of it.
<1>1. CASE UNCHANGED <<pc, job>> \/ (pc'[v] = pc[v] /\ job'[v] = job[v])
  <2>1. CASE pc[v] \in Holding
    <3>1. job[v] \in 1 .. sent /\ job[v] \in Jobs
      BY <1>0, <2>1, JobsAssumption DEF TypeInv, RedisOK, Jobs
    <3>2. /\ mode'[job[v]] = mode[job[v]] /\ dead \subseteq dead'
          /\ terminal[job[v]] # "none" => terminal'[job[v]] # "none"
      BY <1>0, <3>1, EndsStand
    <3>3. QED BY <1>0, <1>1, <3>2 DEF AtMessage, Ended
  <2>2. CASE pc[v] \notin Holding BY <1>1, <2>2 DEF AtMessage, Holding
  <2>3. QED BY <2>1, <2>2
<1>2. CASE Around \/ UNCHANGED vars BY <1>1, <1>2, WorkersStand
<1>3. ASSUME NEW w \in Workers \ {v}, Own(w) PROVE AtMessage(v)'
  BY <1>0, <1>1, <1>3, OthersStand
<1>4. CASE Own(v)
  <2>1. CASE pc'[v] \notin {"dlq", "ack", "lease", "execute", "report", "script"}
    BY <2>1 DEF AtMessage
  <2>2. CASE Decode(v)
    BY <1>0, <2>2 DEF Decode, Disposition, Decodes, Goto, AtMessage, redisVars, Ended
  <2>3. CASE DeadLetter(v)
    BY <1>0, <2>3 DEF DeadLetter, Goto, AtMessage, Ended
  <2>4. CASE SetLease(v) \/ Executed(v)
    BY <1>0, <2>4 DEF SetLease, Executed, Goto, AtMessage, redisVars
  <2>5. CASE Report(v)
    <3>1. UNCHANGED <<mode, terminal, dead>> BY <2>5 DEF Report, redisVars
    <3>2. CASE Goto(v, "script") /\ UNCHANGED job
      BY <1>0, <2>5, <3>1, <3>2 DEF Report, Goto, AtMessage
    <3>3. CASE Goto(v, "down") BY <1>0, <2>1, <3>3 DEF Goto
    <3>4. QED BY <2>5, <3>2, <3>3 DEF Report, Leave
  <2>6. CASE XPending(v) \/ Scan(v) \/ XClaim(v) \/ Unmark(v) \/ Del(v) \/ XReadGroup(v)
              \/ MarkNew(v) \/ XAck(v) \/ TerminalScript(v) \/ Exit(v) \/ Restart(v)
    <3>1. pc'[v] \notin {"dlq", "ack", "lease", "execute", "report", "script"}
      BY <1>0, <2>6
      DEF XPending, Scan, XClaim, Unmark, Del, XReadGroup, MarkNew, XAck, TerminalScript, Exit,
          Restart, Goto, Again, Leave
    <3>2. QED BY <2>1, <3>1
  <2>7. CASE Begin(v) \/ Proceed(v) \/ Tick(v) \/ Oversleep(v)
    BY <1>1, <2>7 DEF Begin, Proceed, Tick, Oversleep, workerVars
  <2>8. QED BY <1>4, <2>2, <2>3, <2>4, <2>5, <2>6, <2>7 DEF Own, WorkerStep
<1>5. QED BY <1>2, <1>3, <1>4, NextCases

LEMMA EndsApartStep ==
  ASSUME EndInv, [Next]_vars
  PROVE  EndsApart'
<1>1. TypeInv /\ EndsApart BY DEF EndInv
<1>2. TypeInv' BY <1>1, TypeStep
<1>3. /\ sent \in Nat /\ sent' \in Nat /\ delivered \in Nat /\ delivered <= sent
      /\ \A j \in Jobs : j \in Nat /\ 0 < j
      /\ \A j \in dead : j \in 1 .. sent
  <2>1. \A j \in Jobs : j \in Nat /\ 0 < j BY JobsAssumption DEF Jobs
  <2>2. sent' \in Nat BY <1>2, JobsAssumption DEF TypeInv, RedisOK
  <2>3. QED BY <1>1, <2>1, <2>2, JobsAssumption DEF TypeInv, RedisOK
<1>4. /\ terminal \in [Jobs -> Outcomes \cup {"none"}]
      /\ client \in [Jobs -> Outcomes \cup {"none", "waiting", "gave up"}]
  BY <1>1 DEF TypeInv, RedisOK, OthersOK
<1>5. sent <= sent' /\ \A j \in 1 .. sent : mode'[j] = mode[j] BY <1>1, EndsStand
<1>6. \A j \in dead : mode[j] = "malformed" BY <1>1 DEF EndsApart
<1>7. \A j \in Jobs : terminal[j] # "none" => mode[j] # "malformed" /\ j \in 1 .. sent
  BY <1>1, <1>3 DEF EndsApart
<1>8. \A j \in Jobs : j > sent => client[j] = "none" BY <1>1 DEF EndsApart
<1>9. \A j \in dead' : mode'[j] = "malformed"
  <2>1. CASE UNCHANGED dead BY <1>3, <1>5, <1>6, <2>1
  <2>2. ASSUME NEW w \in Workers, DeadLetter(w) PROVE \A j \in dead' : mode'[j] = "malformed"
    <3>1. mode[job[w]] = "malformed" /\ UNCHANGED mode
      BY <2>2 DEF DeadLetter, EndInv, AtMessage
    <3>2. QED BY <1>6, <2>2, <3>1 DEF DeadLetter
  <2>3. QED
    BY <2>1, <2>2
    DEF Next, vars, redisVars, WorkerStep, Enqueue, AskTerminal, Rest, MarkerExpires, XPending,
        Scan, XClaim, Unmark, Del, XReadGroup, MarkNew, Decode, XAck, SetLease, Begin,
        Executed, Report, TerminalScript, Proceed, Tick, Oversleep, Exit, Restart
<1>10. \A j \in Jobs : terminal'[j] # "none" => mode'[j] # "malformed" /\ j <= sent'
  <2>1. CASE UNCHANGED terminal
    <3>1. SUFFICES ASSUME NEW j \in Jobs, terminal[j] # "none"
                   PROVE  mode'[j] # "malformed" /\ j <= sent'
      BY <2>1
    <3>2. j \in 1 .. sent /\ mode[j] # "malformed" BY <1>7, <3>1
    <3>3. QED BY <1>3, <1>5, <3>2
  <2>2. ASSUME NEW w \in Workers, TerminalScript(w)
        PROVE  \A j \in Jobs : terminal'[j] # "none" => mode'[j] # "malformed" /\ j <= sent'
    <3>1. mode[job[w]] # "malformed" /\ UNCHANGED <<mode, sent>>
      BY <2>2 DEF TerminalScript, EndInv, AtMessage
    <3>2. \A j \in Jobs : terminal'[j] # "none" => j = job[w] \/ terminal[j] # "none"
      BY <1>4, <2>2 DEF TerminalScript
    <3>3. job[w] \in 0 .. delivered BY <1>1 DEF TypeInv, WorkersOK
    <3>4. QED BY <1>3, <1>7, <3>1, <3>2, <3>3
  <2>3. QED
    BY <2>1, <2>2
    DEF Next, vars, redisVars, WorkerStep, Enqueue, AskTerminal, Rest, MarkerExpires, XPending, Scan,
        XClaim, Unmark, Del, XReadGroup, MarkNew, Decode, DeadLetter, XAck, SetLease, Begin,
        Executed, Report, Proceed, Tick, Oversleep, Exit, Restart
<1>11. \A j \in Jobs : j > sent' => client'[j] = "none"
  <2>1. CASE UNCHANGED client BY <1>3, <1>5, <1>8, <2>1
  <2>2. ASSUME NEW m \in Modes \cup {"malformed"}, Enqueue(m)
        PROVE  \A j \in Jobs : j > sent' => client'[j] = "none"
    <3>1. sent' = sent + 1 BY <2>2 DEF Enqueue
    <3>2. \A j \in Jobs : j # sent + 1 => client'[j] = client[j] BY <1>4, <2>2 DEF Enqueue
    <3>3. QED BY <1>3, <1>8, <3>1, <3>2
  <2>3. ASSUME NEW i \in Jobs, AskTerminal(i)
        PROVE  \A j \in Jobs : j > sent' => client'[j] = "none"
    <3>1. client[i] # "none" /\ sent' = sent BY <2>3 DEF AskTerminal, redisVars
    <3>2. \A j \in Jobs : j # i => client'[j] = client[j] BY <1>4, <2>3 DEF AskTerminal
    <3>3. QED BY <1>3, <1>8, <3>1, <3>2
  <2>4. QED
    BY <2>1, <2>2, <2>3
    DEF Next, vars, WorkerStep, Rest, MarkerExpires, XPending, Scan, XClaim, Unmark, Del,
        XReadGroup, MarkNew, Decode, DeadLetter, XAck, SetLease, Begin, Executed, Report,
        TerminalScript, Proceed, Tick, Oversleep, Exit, Restart
<1>12. QED BY <1>9, <1>10, <1>11 DEF EndsApart

LEMMA NoJobLostStep ==
  ASSUME EndInv, [Next]_vars
  PROVE  NoJobLost'
<1>0. /\ TypeInv /\ NoJobLost /\ delivered \in Nat /\ sent \in Nat /\ delivered <= sent
      /\ terminal \in [Jobs -> Outcomes \cup {"none"}] /\ 1 .. delivered \subseteq Jobs
  BY JobsAssumption DEF EndInv, TypeInv, RedisOK, Jobs
<1>1. \A j \in 1 .. delivered : Ended(j) => Ended(j)' BY <1>0, EndsStand
<1>2. CASE UNCHANGED <<delivered, pending>> BY <1>0, <1>1, <1>2 DEF NoJobLost
<1>3. ASSUME NEW w \in Workers, XReadGroup(w) PROVE NoJobLost'
  <2>1. \/ UNCHANGED <<delivered, pending>>
        \/ delivered' = delivered + 1 /\ pending' = pending \cup {delivered + 1}
    BY <1>3 DEF XReadGroup
  <2>2. CASE delivered' = delivered + 1 /\ pending' = pending \cup {delivered + 1}
    <3>1. \A j \in 1 .. delivered' : j \notin pending' => j \in 1 .. delivered /\ j \notin pending
      BY <1>0, <2>2
    <3>2. QED BY <1>0, <1>1, <3>1 DEF NoJobLost
  <2>3. QED BY <1>2, <2>1, <2>2
<1>4. ASSUME NEW w \in Workers, XAck(w) PROVE NoJobLost'
  <2>1. Ended(job[w]) /\ delivered' = delivered /\ pending' = pending \ {job[w]}
    BY <1>4 DEF XAck, EndInv, AtMessage
  <2>2. QED BY <1>0, <1>1, <2>1 DEF NoJobLost
<1>5. ASSUME NEW w \in Workers, TerminalScript(w), MayReport(w) PROVE NoJobLost'
  <2>1. flow[w].outcome # "none" BY <1>5 DEF TerminalScript, EndInv, FlowEnds
  <2>2. /\ delivered' = delivered /\ pending' = pending \ {job[w]}
        /\ terminal' = [terminal EXCEPT ![job[w]] = flow[w].outcome]
    BY <1>5 DEF TerminalScript
  <2>4. SUFFICES ASSUME NEW j \in 1 .. delivered, j \notin pending' PROVE Ended(j)'
    BY <2>2 DEF NoJobLost
  <2>5. CASE j = job[w] BY <1>0, <2>1, <2>2, <2>5 DEF Ended
  <2>6. CASE j # job[w] BY <1>0, <1>1, <2>2, <2>4, <2>6 DEF NoJobLost
  <2>7. QED BY <2>5, <2>6
<1>6. QED
  BY <1>2, <1>3, <1>4, <1>5
  DEF Next, vars, redisVars, WorkerStep, Enqueue, AskTerminal, Rest, MarkerExpires, XPending,
      Scan, XClaim, Unmark, Del, MarkNew, Decode, DeadLetter, SetLease, Begin,
      Executed, Report, TerminalScript, Proceed, Tick, Oversleep, Exit, Restart

LEMMA EndStep == EndInv /\ [Next]_vars => EndInv'
<1> SUFFICES ASSUME EndInv, [Next]_vars PROVE EndInv' OBVIOUS
<1>1. TypeInv' BY TypeStep DEF EndInv
<1>2. \A w \in Workers : FlowEnds(w)' /\ AtMessage(w)' BY FlowEndsStep, AtMessageStep
<1>3. QED BY <1>1, <1>2, EndsApartStep, NoJobLostStep DEF EndInv

\* A message leaves the pending list only once its job has ended, for whoever
\* crashes, oversleeps or takes over whose lease (queue.go XACK paths).
THEOREM JobsAreKept == Spec => []NoJobLost
<1>1. EndInv => NoJobLost BY DEF EndInv
<1>2. QED BY <1>1, EndInit, EndStep, PTL DEF Spec

\* Each step of the queue is a step of WrapperJobs or leaves it alone: a job ends
\* once, and its caller is told that end, whatever happens to the leases.
THEOREM JobsEndOnce == Spec => EndsOnce
<1> DEFINE st == [j \in Jobs |-> IF terminal[j] # "none" THEN terminal[j]
                                 ELSE IF j \in dead THEN "dead"
                                 ELSE IF j <= sent THEN "queued" ELSE "new"]
           an == [j \in Jobs |-> IF client[j] = "waiting" THEN "none" ELSE client[j]]
<1>1. Init => Promise!Init
  <2> SUFFICES ASSUME Init PROVE Promise!Init OBVIOUS
  <2>1. \A j \in Jobs : j \in Nat /\ ~(j <= 0) BY JobsAssumption DEF Jobs
  <2>2. st = [j \in Jobs |-> "new"] BY <2>1 DEF Init
  <2>3. an = [j \in Jobs |-> "none"] BY DEF Init
  <2>4. QED BY <2>2, <2>3 DEF Promise!Init
<1>2. EndInv /\ [Next]_vars => [Promise!Next]_<<st, an>>
  <2> SUFFICES ASSUME EndInv, [Next]_vars
               PROVE  Promise!Next \/ UNCHANGED <<st, an>>
    OBVIOUS
  <2>0. /\ sent \in Nat /\ sent <= MaxJobs /\ MaxJobs \in Nat /\ delivered \in Nat /\ delivered <= sent
        /\ \A j \in dead : j \in Nat /\ j <= sent
        /\ \A j \in Jobs : j \in Nat /\ 0 < j
    BY JobsAssumption DEF EndInv, TypeInv, RedisOK, Jobs
  <2>1. /\ terminal \in [Jobs -> Outcomes \cup {"none"}]
        /\ client \in [Jobs -> Outcomes \cup {"none", "waiting", "gave up"}]
    BY DEF EndInv, TypeInv, RedisOK, OthersOK
  <2>2. /\ \A j \in dead : mode[j] = "malformed"
        /\ \A j \in Jobs : terminal[j] # "none" => mode[j] # "malformed" /\ j <= sent
        /\ \A j \in Jobs : j > sent => client[j] = "none"
    BY DEF EndInv, EndsApart
  <2>3. \A w \in Workers : pc[w] \in Holding => job[w] \in Jobs /\ job[w] \in Nat /\ job[w] <= sent
    <3>1. \A w \in Workers : job[w] \in 0 .. delivered /\ (pc[w] \in Holding => job[w] # 0)
      BY DEF EndInv, TypeInv, WorkersOK, NoJob
    <3>2. QED BY <2>0, <3>1 DEF Jobs
  <2>4. CASE UNCHANGED <<terminal, dead, sent, client>> BY <2>4
  \* The mapped variables, job by job.
  <2>5. /\ st = [j \in Jobs |-> st[j]] /\ st' = [j \in Jobs |-> st'[j]]
        /\ an = [j \in Jobs |-> an[j]] /\ an' = [j \in Jobs |-> an'[j]]
    OBVIOUS
  <2>6. \A j \in Jobs : /\ terminal[j] # "none" => st[j] = terminal[j]
                        /\ terminal[j] = "none" /\ j \in dead => st[j] = "dead"
                        /\ terminal[j] = "none" /\ j \notin dead /\ j <= sent => st[j] = "queued"
                        /\ terminal[j] = "none" /\ j \notin dead /\ ~(j <= sent) => st[j] = "new"
                        /\ client[j] = "waiting" => an[j] = "none"
                        /\ client[j] # "waiting" => an[j] = client[j]
    OBVIOUS
  <2>7. \A j \in Jobs : /\ terminal'[j] # "none" => st'[j] = terminal'[j]
                        /\ terminal'[j] = "none" /\ j \in dead' => st'[j] = "dead"
                        /\ terminal'[j] = "none" /\ j \notin dead' /\ j <= sent' => st'[j] = "queued"
                        /\ terminal'[j] = "none" /\ j \notin dead' /\ ~(j <= sent') => st'[j] = "new"
                        /\ client'[j] = "waiting" => an'[j] = "none"
                        /\ client'[j] # "waiting" => an'[j] = client'[j]
    OBVIOUS
  <2>8. Promise!Next <=> \E j \in Jobs :
          \/ st[j] = "new" /\ st' = [st EXCEPT ![j] = "queued"] /\ an' = an
          \/ /\ an[j] = "none" /\ st' = st
             /\ \/ st[j] \in Outcomes /\ an' = [an EXCEPT ![j] = st[j]]
                \/ st[j] # "new" /\ an' = [an EXCEPT ![j] = "gave up"]
          \/ \E end \in Outcomes \cup {"dead"} :
               st[j] = "queued" /\ st' = [st EXCEPT ![j] = end] /\ an' = an
    BY DEF Promise!Next, Promise!Submit, Promise!Answer, Promise!Finish
  <2>9. ASSUME UNCHANGED <<terminal, dead, sent>> PROVE st' = st BY <2>9
  <2>10. ASSUME UNCHANGED client PROVE an' = an BY <2>10
  <2> HIDE DEF st, an
  <2>11. ASSUME NEW m \in Modes \cup {"malformed"}, Enqueue(m) PROVE Promise!Next
    <3>1. sent + 1 \in Jobs BY <2>0, <2>11 DEF Enqueue, Jobs
    <3>2. UNCHANGED <<terminal, dead>> /\ sent' = sent + 1 BY <2>11 DEF Enqueue
    <3>3. terminal[sent + 1] = "none" /\ client[sent + 1] = "none"
      <4>1. sent + 1 > sent /\ ~(sent + 1 <= sent) BY <2>0
      <4>2. QED BY <2>2, <3>1, <4>1
    <3>4. sent + 1 \notin dead
      <4>1. ~(sent + 1 <= sent) BY <2>0
      <4>2. QED BY <2>0, <4>1
    <3>5. st[sent + 1] = "new"
      <4>1. ~(sent + 1 <= sent) BY <2>0
      <4>2. QED BY <2>6, <3>1, <3>3, <3>4, <4>1
    <3>6. st' = [st EXCEPT ![sent + 1] = "queued"]
      <4>1. \A j \in Jobs : j # sent + 1 => (j <= sent <=> j <= sent') BY <2>0, <3>2
      <4>2. \A j \in Jobs : j # sent + 1 => st'[j] = st[j] BY <2>6, <2>7, <3>2, <4>1
      <4>3. sent + 1 <= sent' BY <2>0, <3>2
      <4>4. st'[sent + 1] = "queued" BY <2>7, <3>1, <3>2, <3>3, <3>4, <4>3
      <4>5. QED BY <2>5, <3>1, <4>2, <4>4
    <3>7. an' = an
      <4>1. \A j \in Jobs : j # sent + 1 => client'[j] = client[j] BY <2>1, <2>11 DEF Enqueue
      <4>2. client'[sent + 1] \in {"none", "waiting"} BY <2>1, <2>11, <3>1 DEF Enqueue
      <4>3. \A j \in Jobs : an'[j] = an[j] BY <2>6, <2>7, <3>1, <3>3, <4>1, <4>2
      <4>4. QED BY <2>5, <4>3
    <3>8. QED BY <2>8, <3>1, <3>5, <3>6, <3>7
  <2>12. ASSUME NEW j \in Jobs, AskTerminal(j) PROVE Promise!Next
    <3>1. st' = st BY <2>9, <2>12 DEF AskTerminal, redisVars
    <3>2. an[j] = "none" BY <2>6, <2>12 DEF AskTerminal
    <3>3. ~(j > sent) BY <2>2, <2>12 DEF AskTerminal
    <3>4. j <= sent BY <2>0, <3>3
    <3>5. terminal[j] = "none" \/ terminal[j] \in {"completed", "retryable", "permanent"}
      BY <2>1 DEF Outcomes
    <3>6. st[j] # "new" BY <2>6, <3>4, <3>5
    <3>7. \A i \in Jobs : i # j => an'[i] = an[i]
      <4>1. \A i \in Jobs : i # j => client'[i] = client[i] BY <2>1, <2>12 DEF AskTerminal
      <4>2. QED BY <2>6, <2>7, <4>1
    <3>8. CASE terminal[j] # "none" /\ client' = [client EXCEPT ![j] = terminal[j]]
      <4>1. client'[j] = terminal[j] BY <2>1, <3>8
      <4>2. an'[j] = st[j] /\ st[j] \in Outcomes BY <2>6, <2>7, <3>5, <3>8, <4>1 DEF Outcomes
      <4>3. an' = [an EXCEPT ![j] = st[j]] BY <2>5, <3>7, <4>2
      <4>4. QED BY <2>8, <3>1, <3>2, <4>2, <4>3
    <3>9. CASE client' = [client EXCEPT ![j] = "gave up"]
      <4>1. an'[j] = "gave up" BY <2>1, <2>7, <3>9
      <4>2. an' = [an EXCEPT ![j] = "gave up"] BY <2>5, <3>7, <4>1
      <4>3. QED BY <2>8, <3>1, <3>2, <3>6, <4>2
    <3>10. QED BY <2>12, <3>8, <3>9 DEF AskTerminal
  <2>13. ASSUME NEW w \in Workers, DeadLetter(w) PROVE Promise!Next \/ UNCHANGED <<st, an>>
    <3>1. /\ dead' = dead \cup {job[w]} /\ UNCHANGED <<terminal, sent, client>>
          /\ mode[job[w]] = "malformed"
      BY <2>13 DEF DeadLetter, EndInv, AtMessage
    <3>2. job[w] \in Jobs /\ job[w] <= sent BY <2>3, <2>13 DEF DeadLetter, Holding
    <3>3. terminal[job[w]] = "none" BY <2>2, <3>1, <3>2
    <3>4. an' = an BY <2>10, <3>1
    <3>5. CASE job[w] \in dead
      <4>1. dead' = dead BY <3>1, <3>5
      <4>2. QED BY <2>9, <3>1, <3>4, <4>1
    <3>6. CASE job[w] \notin dead
      <4>1. st[job[w]] = "queued" BY <2>6, <3>2, <3>3, <3>6
      <4>2. st'[job[w]] = "dead" BY <2>7, <3>1, <3>2, <3>3
      <4>3. \A j \in Jobs : j # job[w] => st'[j] = st[j] BY <2>6, <2>7, <3>1
      <4>4. st' = [st EXCEPT ![job[w]] = "dead"] BY <2>5, <3>2, <4>2, <4>3
      <4>5. QED BY <2>8, <3>2, <3>4, <4>1, <4>4
    <3>7. QED BY <3>5, <3>6
  <2>14. ASSUME NEW w \in Workers, TerminalScript(w), MayReport(w) PROVE Promise!Next
    <3>1. /\ terminal' = [terminal EXCEPT ![job[w]] = flow[w].outcome]
          /\ UNCHANGED <<dead, sent, client>> /\ terminal[job[w]] = "none"
      BY <2>14 DEF TerminalScript, MayReport
    <3>2. job[w] \in Jobs /\ job[w] <= sent BY <2>3, <2>14 DEF TerminalScript, Holding
    <3>3. mode[job[w]] # "malformed" BY <2>14 DEF TerminalScript, EndInv, AtMessage
    <3>4. job[w] \notin dead BY <2>2, <3>3
    <3>5. flow[w].outcome \in Outcomes /\ flow[w].outcome # "none"
      <4>1. flow[w].outcome # "none" BY <2>14 DEF TerminalScript, EndInv, FlowEnds
      <4>2. QED BY <4>1 DEF EndInv, TypeInv, FlowTypeOK, Flow
    <3>6. st[job[w]] = "queued" BY <2>6, <3>1, <3>2, <3>4
    <3>7. terminal'[job[w]] = flow[w].outcome BY <2>1, <3>1, <3>2
    <3>8. \A j \in Jobs : j # job[w] => terminal'[j] = terminal[j] BY <2>1, <3>1
    <3>9. st'[job[w]] = flow[w].outcome BY <2>7, <3>2, <3>5, <3>7
    <3>10. \A j \in Jobs : j # job[w] => st'[j] = st[j] BY <2>6, <2>7, <3>1, <3>8
    <3>11. st' = [st EXCEPT ![job[w]] = flow[w].outcome] BY <2>5, <3>2, <3>9, <3>10
    <3>12. an' = an BY <2>10, <3>1
    <3>13. QED BY <2>8, <3>2, <3>5, <3>6, <3>11, <3>12
  <2>15. QED
    BY <2>4, <2>11, <2>12, <2>13, <2>14
    DEF Next, vars, redisVars, WorkerStep, Rest, MarkerExpires, XPending,
        Scan, XClaim, Unmark, Del, XReadGroup, MarkNew, Decode, XAck, SetLease, Begin,
        Executed, Report, TerminalScript, Proceed, Tick, Oversleep, Exit, Restart
<1>3. QED BY <1>1, <1>2, EndInit, EndStep, PTL DEF Spec, EndsOnce, Promise!Spec

(***************************************************************************)
(* Leases.                                                                 *)
(***************************************************************************)

\* What the timers of a flow may take up to its phase, by the mode of its job.
Budget(p, m) ==
  CASE p \in {"off", "listen"} -> 0
    [] p \in {"callback", "coded"} -> CallbackTimeout
    [] p = "code" -> RequestTimeout
    [] p \in {"exchange", "poll", "pause"} -> CallbackTimeout + RequestTimeout
    [] p = "closing" -> CallbackTimeout + RequestTimeout + ShutdownTimeout
    [] p = "ended" -> CallbackTimeout + RequestTimeout + (IF m = "pkce" THEN ShutdownTimeout ELSE 0)

Within(w) ==
  w \notin overslept => age[w] + flow[w].left <= Budget(flow[w].phase, mode[job[w]])

\* The phases of PKCEExecutor.authorize, and that only it has a server to close.
PKCEPhases == {"listen", "callback", "coded", "exchange", "closing"}
ByMode(w) == flow[w].phase \in PKCEPhases => mode[job[w]] = "pkce"

\* Nothing is executed before the lease is set or after it is given up.
Resting(w) == pc[w] \notin {"execute", "report", "script"} => flow[w] = FlowOff

\* A worker finds its own mark on the message it is at, while nobody has overslept
\* and its lease has not run out.
Marked(w) ==
  overslept = {} /\ pc[w] \in Holding /\ age[w] < LeaseTTL =>
    marker[job[w]] = <<"claiming", w>> \/ marker[job[w]] = <<"lease", w>>

LeaseInv == TypeInv /\ \A w \in Workers : Within(w) /\ ByMode(w) /\ Resting(w) /\ Marked(w)

LEMMA LeaseInit == Init => LeaseInv
<1> SUFFICES ASSUME Init PROVE LeaseInv OBVIOUS
<1>1. TypeInv BY TypeInit
<1>2. \A w \in Workers : Within(w) /\ ByMode(w) /\ Resting(w)
  BY DEF Init, FlowInit, FlowOff, Within, ByMode, PKCEPhases, Resting, Budget
<1>3. \A w \in Workers : Marked(w) BY DEF Init, Marked, Holding
<1>4. QED BY <1>1, <1>2, <1>3 DEF LeaseInv

\* No step of a flow starts a timer that its budget does not cover.
LEMMA FlowBudget ==
  ASSUME FlowTypeOK, NEW w \in Workers, NEW a \in Nat, NEW m,
         a + flow[w].left <= Budget(flow[w].phase, m), flow[w].phase \in PKCEPhases => m = "pkce",
         FlowStep(w) \/ Execute(w, m)
  PROVE  a + flow'[w].left <= Budget(flow'[w].phase, m)
<1>1. /\ flow \in [Workers -> Flow] /\ flow[w].left \in Nat
      /\ CallbackTimeout \in Nat /\ RequestTimeout \in Nat /\ ShutdownTimeout \in Nat
  BY TimeoutAssumption, ShutdownAssumption DEF FlowTypeOK, Flow
<1> DEFINE Good == a + flow'[w].left <= Budget(flow'[w].phase, m)
<1> SUFFICES Good BY DEF Good
<1> HIDE DEF Good
<1>2. ASSUME NEW p, NEW n \in Nat, flow'[w].phase = p, flow'[w].left = n,
             a + n <= Budget(p, m)
      PROVE  Good
  BY <1>2 DEF Good
<1>3. \A p, n : Phase(w, p, n) => flow'[w].phase = p /\ flow'[w].left = n
  BY <1>1 DEF Phase
<1>4. \A o : End(w, o) => flow'[w].phase = "ended" /\ flow'[w].left = 0
  BY <1>1 DEF End
<1>5. \A o : Close(w, o) => flow'[w].phase = "closing" /\ flow'[w].left = ShutdownTimeout
  BY <1>1 DEF Close
\* Any phase may end, the closing one with the server's second.
<1>6. ASSUME NEW o, End(w, o), a <= CallbackTimeout + RequestTimeout \/ (In(w, {"closing"}))
      PROVE  Good
  <2>1. flow'[w].phase = "ended" /\ flow'[w].left = 0 BY <1>4, <1>6
  <2>2. CASE a <= CallbackTimeout + RequestTimeout
    <3>1. a + 0 <= Budget("ended", m) BY <1>1, <2>2 DEF Budget
    <3>2. QED BY <1>2, <2>1, <3>1
  <2>3. CASE In(w, {"closing"})
    <3>1. flow[w].phase = "closing" BY <2>3 DEF In
    <3>2. m = "pkce" BY <3>1 DEF PKCEPhases
    <3>3. a <= CallbackTimeout + RequestTimeout + ShutdownTimeout BY <1>1, <3>1 DEF Budget
    <3>4. a + 0 <= Budget("ended", m) BY <1>1, <3>2, <3>3 DEF Budget
    <3>5. QED BY <1>2, <2>1, <3>4
  <2>4. QED BY <1>6, <2>2, <2>3
<1>7. ASSUME NEW o, Close(w, o), In(w, {"listen", "callback", "coded", "exchange"}) PROVE Good
  <2>1. flow'[w].phase = "closing" /\ flow'[w].left = ShutdownTimeout BY <1>5, <1>7
  <2>2. flow[w].phase \in {"listen", "callback", "coded", "exchange"} BY <1>7 DEF In
  <2>3. a <= CallbackTimeout + RequestTimeout BY <1>1, <2>2 DEF Budget
  <2>4. a + ShutdownTimeout <= Budget("closing", m) BY <1>1, <2>3 DEF Budget
  <2>5. QED BY <1>1, <1>2, <2>1, <2>4
\* A flow that goes on under the same timer.
<1>8. ASSUME NEW p, Enter(w, p), Budget(p, m) = Budget(flow[w].phase, m) PROVE Good
  <2>1. flow'[w].phase = p /\ flow'[w].left = flow[w].left BY <1>3, <1>8 DEF Enter
  <2>2. QED BY <1>1, <1>2, <1>8, <2>1
<1>9. CASE Execute(w, m)
  <2>1. a = 0 BY <1>1, <1>9 DEF Execute, In, Budget
  <2>2. CASE m = "pkce" /\ Phase(w, "listen", 0)
    <3>1. a + 0 <= Budget("listen", m) BY <2>1 DEF Budget
    <3>2. QED BY <1>2, <1>3, <2>2, <3>1
  <2>3. CASE Phase(w, "code", RequestTimeout)
    <3>1. a + RequestTimeout <= Budget("code", m) BY <1>1, <2>1 DEF Budget
    <3>2. QED BY <1>1, <1>2, <1>3, <2>3, <3>1
  <2>4. CASE End(w, "permanent") BY <1>1, <1>6, <2>1, <2>4
  <2>5. QED BY <1>9, <2>2, <2>3, <2>4 DEF Execute, StartPKCE, StartDevice, Refuse
<1>10. CASE Listen(w)
  <2>1. flow[w].phase = "listen" /\ a = 0 BY <1>1, <1>10 DEF Listen, In, Budget
  <2>2. CASE Phase(w, "callback", CallbackTimeout)
    <3>1. a + CallbackTimeout <= Budget("callback", m) BY <1>1, <2>1 DEF Budget
    <3>2. QED BY <1>1, <1>2, <1>3, <2>2, <3>1
  <2>3. CASE End(w, "retryable") BY <1>1, <1>6, <2>1, <2>3
  <2>4. ASSUME NEW o, Close(w, o) PROVE Good BY <1>7, <2>1, <2>4 DEF In
  <2>5. QED BY <1>10, <2>2, <2>3, <2>4 DEF Listen
<1>11. CASE Callback(w) \/ CallbackLost(w)
  <2>1. In(w, {"callback", "coded"}) /\ In(w, {"listen", "callback", "coded", "exchange"})
    BY <1>11 DEF Callback, CallbackLost, In
  <2>2. CASE Enter(w, "coded")
    <3>1. Budget("coded", m) = Budget(flow[w].phase, m) BY <2>1 DEF In, Budget
    <3>2. QED BY <1>8, <2>2, <3>1
  <2>3. QED BY <1>7, <1>11, <2>1, <2>2 DEF Callback, CallbackLost
<1>12. CASE ReceiveCode(w)
  <2>1. flow[w].phase = "coded" /\ Phase(w, "exchange", RequestTimeout)
    BY <1>12 DEF ReceiveCode, In
  <2>2. a <= CallbackTimeout BY <1>1, <2>1 DEF Budget
  <2>3. a + RequestTimeout <= Budget("exchange", m) BY <1>1, <2>2 DEF Budget
  <2>4. QED BY <1>1, <1>2, <1>3, <2>1, <2>3
<1>13. CASE ExchangeCode(w)
  BY <1>7, <1>13 DEF ExchangeCode, In
<1>14. CASE Shutdown(w)
  BY <1>6, <1>14 DEF Shutdown
<1>15. CASE RequestDeviceCode(w)
  <2>1. a <= RequestTimeout BY <1>1, <1>15 DEF RequestDeviceCode, In, Budget
  <2>2. ASSUME NEW e \in Lifetimes, Phase(w, "poll", deadline(e)) PROVE Good
    <3>1. e \in Nat BY LifetimesAssumption
    <3>2. deadline(e) \in Nat /\ deadline(e) <= CallbackTimeout
      BY <1>1, <3>1, MinPair DEF deadline
    <3>3. a + deadline(e) <= Budget("poll", m) BY <1>1, <2>1, <3>2 DEF Budget
    <3>4. QED BY <1>2, <1>3, <2>2, <3>2, <3>3
  <2>3. a <= CallbackTimeout + RequestTimeout BY <1>1, <2>1
  <2>4. QED BY <1>6, <1>15, <2>2, <2>3 DEF RequestDeviceCode
<1>16. CASE Poll(w) \/ PollAgain(w)
  <2>1. flow[w].phase \in {"poll", "pause"} BY <1>16 DEF Poll, PollAgain, In
  <2>2. a <= CallbackTimeout + RequestTimeout BY <1>1, <2>1 DEF Budget
  <2>3. ASSUME NEW p \in {"poll", "pause"}, Enter(w, p) PROVE Good
    <3>1. Budget(p, m) = Budget(flow[w].phase, m) BY <2>1, <2>3 DEF Budget
    <3>2. QED BY <1>8, <2>3, <3>1
  <2>4. QED BY <1>6, <1>16, <2>2, <2>3 DEF Poll, PollAgain
<1>17. QED
  BY <1>9, <1>10, <1>11, <1>12, <1>13, <1>14, <1>15, <1>16 DEF FlowStep

LEMMA FlowModes ==
  ASSUME FlowTypeOK, NEW w \in Workers, NEW m, flow[w].phase \in PKCEPhases => m = "pkce",
         FlowStep(w) \/ Execute(w, m)
  PROVE  flow'[w].phase \in PKCEPhases => m = "pkce"
<1>0. flow \in [Workers -> Flow] BY DEF FlowTypeOK
<1>1. CASE flow[w].phase \in PKCEPhases BY <1>1
<1>2. CASE Execute(w, m)
  BY <1>0, <1>2 DEF Execute, StartPKCE, StartDevice, Refuse, Phase, End, PKCEPhases
<1>3. CASE FlowStep(w) /\ flow[w].phase \notin PKCEPhases
  <2>1. RequestDeviceCode(w) \/ Poll(w) \/ PollAgain(w)
    BY <1>3 DEF FlowStep, Listen, Callback, CallbackLost, ReceiveCode, ExchangeCode, Shutdown, In,
       PKCEPhases
  <2>2. (\E p \in {"poll", "pause"} : \E n : Phase(w, p, n)) \/ (\E o : End(w, o))
    BY <2>1 DEF RequestDeviceCode, Poll, PollAgain, Enter
  <2>3. QED BY <1>0, <2>2 DEF Phase, End, PKCEPhases
<1>4. QED BY <1>1, <1>2, <1>3

LEMMA OversleptGrows ==
  ASSUME [Next]_vars
  PROVE  overslept \subseteq overslept'
BY DEF Next, vars, WorkerStep, Enqueue, AskTerminal, Rest, MarkerExpires, XPending, Scan, XClaim,
   Unmark, Del, XReadGroup, MarkNew, Decode, DeadLetter, XAck, SetLease, Begin, Executed, Report,
   TerminalScript, Proceed, Tick, Oversleep, Exit, Restart

LEMMA RestingStep ==
  ASSUME LeaseInv, [Next]_vars, NEW v \in Workers
  PROVE  Resting(v)'
<1>0. /\ TypeInv /\ Resting(v) /\ flow \in [Workers -> Flow] /\ pc \in [Workers -> PC]
  BY DEF LeaseInv, TypeInv, FlowTypeOK, WorkersOK
<1>1. CASE Around \/ UNCHANGED vars BY <1>0, <1>1, WorkersStand DEF Resting
<1>2. ASSUME NEW w \in Workers \ {v}, Own(w) PROVE Resting(v)'
  BY <1>0, <1>2, OthersStand DEF Resting
<1>3. CASE Own(v)
  <2>1. CASE UNCHANGED flow /\ pc[v] \notin {"execute", "report", "script"}
    BY <1>0, <2>1 DEF Resting
  <2>2. CASE pc'[v] \in {"execute", "report", "script"} BY <2>2 DEF Resting
  <2>3. CASE flow' = [flow EXCEPT ![v] = FlowOff] BY <1>0, <2>3 DEF Resting
  <2>4. CASE Begin(v) \/ Proceed(v) \/ Tick(v) \/ Executed(v)
    BY <1>0, <2>2, <2>4 DEF Begin, Proceed, Tick, Executed, Goto, workerVars
  <2>5. CASE Report(v) \/ TerminalScript(v) \/ Exit(v)
    BY <1>0, <2>2, <2>3, <2>5 DEF Report, TerminalScript, Exit, Leave, Goto
  <2>6. CASE Oversleep(v) BY <1>0, <2>6 DEF Oversleep, Resting
  <2>7. CASE XPending(v) \/ Scan(v) \/ XClaim(v) \/ Unmark(v) \/ Del(v) \/ XReadGroup(v) \/ MarkNew(v)
              \/ Decode(v) \/ DeadLetter(v) \/ XAck(v) \/ SetLease(v) \/ Restart(v)
    BY <2>1, <2>7 DEF XPending, Scan, XClaim, Unmark, Del, XReadGroup, MarkNew, Decode, DeadLetter,
       XAck, SetLease, Restart, Again
  <2>8. QED BY <1>3, <2>4, <2>5, <2>6, <2>7 DEF Own, WorkerStep
<1>4. QED BY <1>1, <1>2, <1>3, NextCases

\* A message keeps its mode once it was sent.
LEMMA ModeStands ==
  ASSUME TypeInv, [Next]_vars, NEW v \in Workers, pc[v] \in {"execute", "report", "script"}
  PROVE  mode'[job[v]] = mode[job[v]]
<1>1. job[v] \in 1 .. sent
  BY JobsAssumption DEF TypeInv, RedisOK, WorkersOK, Holding, NoJob
<1>2. QED BY <1>1, EndsStand

LEMMA WithinStep ==
  ASSUME LeaseInv, [Next]_vars, NEW v \in Workers
  PROVE  Within(v)' /\ ByMode(v)'
<1>0. /\ TypeInv /\ Within(v) /\ ByMode(v) /\ Resting(v)
      /\ flow \in [Workers -> Flow] /\ pc \in [Workers -> PC]
      /\ age \in [Workers -> 0 .. LeaseTTL] /\ age[v] \in Nat /\ flow[v] \in Flow /\ FlowTypeOK
  BY TimeoutAssumption DEF LeaseInv, TypeInv, FlowTypeOK, WorkersOK
<1>1. v \notin overslept' => v \notin overslept BY OversleptGrows
<1> DEFINE Good == Within(v)' /\ ByMode(v)'
<1> SUFFICES Good BY DEF Good
<1> HIDE DEF Good
\* A flow that has not begun takes no time, whatever its job.
<1>2. CASE flow'[v] = FlowOff /\ (age'[v] = 0 \/ (age'[v] = age[v] /\ flow[v] = FlowOff))
  <2>1. flow'[v].phase = "off" /\ flow'[v].left = 0 BY <1>2 DEF FlowOff
  <2>2. \A m : Budget("off", m) = 0 BY DEF Budget
  <2>3. flow[v] = FlowOff => flow[v].phase = "off" /\ flow[v].left = 0 BY DEF FlowOff
  <2>4. v \notin overslept' => age'[v] = 0 BY <1>0, <1>1, <1>2, <2>2, <2>3 DEF Within
  <2>5. Within(v)' BY <2>1, <2>2, <2>4 DEF Within
  <2>6. ByMode(v)' BY <2>1 DEF ByMode, PKCEPhases
  <2>7. QED BY <2>5, <2>6 DEF Good
<1>3. CASE age'[v] = age[v] /\ flow'[v] = flow[v] /\ job'[v] = job[v]
  <2>1. CASE pc[v] \in {"execute", "report", "script"}
    <3>1. mode'[job[v]] = mode[job[v]] BY <1>0, <2>1, ModeStands
    <3>2. QED BY <1>0, <1>1, <1>3, <3>1 DEF Within, ByMode, Good
  <2>2. CASE pc[v] \notin {"execute", "report", "script"}
    BY <1>0, <1>2, <1>3, <2>2 DEF Resting
  <2>3. QED BY <2>1, <2>2
<1>4. CASE Around \/ UNCHANGED vars BY <1>3, <1>4, WorkersStand
<1>5. ASSUME NEW w \in Workers \ {v}, Own(w) PROVE Good
  BY <1>0, <1>3, <1>5, OthersStand
<1>6. CASE Own(v)
  <2>1. CASE age' = [age EXCEPT ![v] = 0] /\ flow' = [flow EXCEPT ![v] = FlowOff]
    BY <1>0, <1>2, <2>1
  <2>2. CASE /\ pc[v] \notin {"execute", "report", "script"} /\ UNCHANGED flow
             /\ UNCHANGED age \/ age' = [age EXCEPT ![v] = 0]
    <3>1. flow[v] = FlowOff /\ flow'[v] = FlowOff BY <1>0, <2>2 DEF Resting
    <3>2. age'[v] = 0 \/ age'[v] = age[v] BY <1>0, <2>2
    <3>3. QED BY <1>2, <3>1, <3>2
  <2>3. CASE Begin(v) \/ Proceed(v)
    <3>1. FlowStep(v) \/ Execute(v, mode[job[v]]) BY <2>3 DEF Begin, Proceed
    <3>2. age' = age /\ job' = job /\ mode' = mode
      BY <2>3 DEF Begin, Proceed, workerVars, redisVars
    <3>3. flow[v].phase \in PKCEPhases => mode[job[v]] = "pkce" BY <1>0 DEF ByMode
    <3>4. ByMode(v)' BY <1>0, <3>1, <3>2, <3>3, FlowModes DEF ByMode
    <3>5. QED BY <1>0, <1>1, <3>1, <3>2, <3>3, <3>4, FlowBudget DEF Within, Good
  <2>4. CASE Tick(v)
    <3>1. /\ flow'[v].phase = flow[v].phase /\ flow'[v].left = flow[v].left - 1
          /\ flow[v].left > 0
      BY <1>0, <2>4 DEF Tick, FlowTick, Flow
    <3>2. age'[v] = Min({age[v] + 1, LeaseTTL}) BY <1>0, <2>4 DEF Tick
    <3>3. age'[v] \in Nat /\ age'[v] <= age[v] + 1 BY <1>0, <3>2, MinPair, TimeoutAssumption
    <3>4. job' = job /\ mode' = mode BY <2>4 DEF Tick, redisVars
    <3>5. flow[v].left \in Nat /\ Budget(flow[v].phase, mode[job[v]]) \in Nat
      BY <1>0, TimeoutAssumption, ShutdownAssumption DEF Flow, Phases, Budget
    <3>6. Within(v)' BY <1>0, <1>1, <3>1, <3>3, <3>4, <3>5 DEF Within
    <3>7. ByMode(v)' BY <1>0, <3>1, <3>4 DEF ByMode
    <3>8. QED BY <3>6, <3>7 DEF Good
  <2>5. CASE Executed(v) BY <1>3, <2>5 DEF Executed
  <2>6. CASE Report(v) \/ Exit(v) BY <1>3, <2>1, <2>6 DEF Report, Exit, Leave
  <2>7. CASE TerminalScript(v) BY <2>1, <2>7 DEF TerminalScript, Leave
  <2>8. CASE Oversleep(v)
    <3>1. Within(v)' BY <2>8 DEF Oversleep, Within
    <3>2. ByMode(v)' BY <1>0, <2>8 DEF Oversleep, ByMode, redisVars
    <3>3. QED BY <3>1, <3>2 DEF Good
  <2>9. CASE XPending(v) \/ Scan(v) \/ XClaim(v) \/ Unmark(v) \/ Del(v) \/ XReadGroup(v) \/ MarkNew(v)
              \/ Decode(v) \/ DeadLetter(v) \/ XAck(v) \/ SetLease(v) \/ Restart(v)
    BY <2>2, <2>9 DEF XPending, Scan, XClaim, Unmark, Del, XReadGroup, MarkNew, Decode, DeadLetter,
       XAck, SetLease, Restart, Again
  <2>10. QED BY <1>6, <2>3, <2>4, <2>5, <2>6, <2>7, <2>8, <2>9 DEF Own, WorkerStep
<1>7. QED BY <1>4, <1>5, <1>6, NextCases

\* Only the shutdown of a callback server can take a flow to the end of its lease:
\* what executorFromConfig counts fits in the TTL.
LEMMA WithinLease ==
  ASSUME LeaseInv
  PROVE  FlowWithinLease
<1>1. SUFFICES ASSUME NEW w \in Workers, age[w] = LeaseTTL, w \notin overslept PROVE ClosedLate(w)
  BY DEF FlowWithinLease
<1>2. /\ age[w] + flow[w].left <= Budget(flow[w].phase, mode[job[w]])
      /\ flow[w].left \in Nat /\ flow[w].phase \in Phases
      /\ flow[w].phase \in PKCEPhases => mode[job[w]] = "pkce"
  BY <1>1 DEF LeaseInv, Within, ByMode, TypeInv, FlowTypeOK, Flow
<1>3. LeaseTTL <= Budget(flow[w].phase, mode[job[w]])
  <2>1. Budget(flow[w].phase, mode[job[w]]) \in Nat
    BY <1>2, TimeoutAssumption, ShutdownAssumption DEF Phases, Budget
  <2>2. QED BY <1>1, <1>2, <2>1, TimeoutAssumption
<1>4. flow[w].phase = "closing" \/ (flow[w].phase = "ended" /\ mode[job[w]] = "pkce")
  BY <1>2, <1>3, TimeoutAssumption DEF Phases, Budget
<1>5. mode[job[w]] = "pkce" BY <1>2, <1>4 DEF PKCEPhases
<1>6. LeaseTTL <= CallbackTimeout + RequestTimeout + ShutdownTimeout
  BY <1>3, <1>4, <1>5, TimeoutAssumption, ShutdownAssumption DEF Budget
<1>7. QED BY <1>4, <1>5, <1>6 DEF ClosedLate, In

LEMMA MarkedStep ==
  ASSUME LeaseInv, [Next]_vars, NEW v \in Workers
  PROVE  Marked(v)'
<1>1. SUFFICES ASSUME overslept = {}, overslept' = {}, pc'[v] \in Holding, age'[v] < LeaseTTL
               PROVE  marker'[job'[v]] = <<"claiming", v>> \/ marker'[job'[v]] = <<"lease", v>>
  BY OversleptGrows DEF Marked
<1>0. /\ TypeInv /\ pc \in [Workers -> PC] /\ job \in [Workers -> 0 .. delivered]
      /\ marker \in [Jobs -> {NoMarker} \cup ({"claiming", "lease"} \X Workers)]
      /\ \A w \in Workers : pc[w] \in Holding /\ age[w] < LeaseTTL =>
           marker[job[w]] = <<"claiming", w>> \/ marker[job[w]] = <<"lease", w>>
      /\ \A w \in Workers : pc[w] \notin {"execute", "report", "script"} => age[w] < LeaseTTL
      /\ \A w \in Workers : pc[w] \in Holding \cup {"setnx"} => job[w] \in Jobs
      /\ \A w \in Workers : todo[w] # {} => Min(todo[w]) \in Jobs
  <2>1. \A w \in Workers : age[w] \in 0 .. LeaseTTL /\ (age[w] = LeaseTTL => ClosedLate(w))
    BY <1>1, WithinLease DEF FlowWithinLease, LeaseInv, TypeInv, WorkersOK
  <2>2. \A w \in Workers : pc[w] \notin {"execute", "report", "script"} => age[w] < LeaseTTL
    <3>1. \A w \in Workers : pc[w] \notin {"execute", "report", "script"} => ~ClosedLate(w)
      BY DEF LeaseInv, Resting, ClosedLate, In, FlowOff
    <3>2. QED BY <2>1, <3>1, TimeoutAssumption
  <2>3. delivered <= MaxJobs /\ delivered \in Nat BY JobsAssumption DEF LeaseInv, TypeInv, RedisOK
  <2>4. \A w \in Workers : pc[w] \in Holding \cup {"setnx"} => job[w] \in Jobs
    BY <2>3, JobsAssumption DEF LeaseInv, TypeInv, WorkersOK, Jobs, NoJob
  <2>5. \A w \in Workers : todo[w] # {} => Min(todo[w]) \in Jobs
    <3>1. SUFFICES ASSUME NEW w \in Workers, todo[w] # {} PROVE Min(todo[w]) \in Jobs OBVIOUS
    <3>2. todo[w] \in SUBSET (1 .. delivered) BY DEF LeaseInv, TypeInv, WorkersOK
    <3>3. todo[w] \in SUBSET Nat BY <2>3, <3>2
    <3>4. Min(todo[w]) \in todo[w] BY <3>1, <3>3, MinFacts
    <3>5. QED BY <2>3, <3>2, <3>4, JobsAssumption DEF Jobs
  <2>6. QED
    BY <1>1, <2>2, <2>4, <2>5 DEF LeaseInv, Marked, TypeInv, WorkersOK, RedisOK
\* The mark stays while nobody writes it.
<1>2. CASE /\ pc[v] \in Holding /\ age[v] < LeaseTTL
           /\ job'[v] = job[v] /\ marker'[job[v]] = marker[job[v]]
  BY <1>0, <1>2
<1>3. CASE UNCHANGED <<pc, job, marker>> /\ age[v] < LeaseTTL BY <1>0, <1>1, <1>2, <1>3
<1>4. CASE Around \/ UNCHANGED vars
  <2>1. UNCHANGED <<pc, job>> /\ age[v] < LeaseTTL BY <1>1, <1>4, WorkersStand
  <2>2. ASSUME NEW j \in Jobs, MarkerExpires(j)
        PROVE  marker'[job'[v]] = <<"claiming", v>> \/ marker'[job'[v]] = <<"lease", v>>
    <3>1. job[v] # j BY <1>0, <1>1, <2>1, <2>2 DEF MarkerExpires, InTime
    <3>2. marker'[job[v]] = marker[job[v]] BY <1>0, <1>1, <2>1, <2>2, <3>1 DEF MarkerExpires
    <3>3. QED BY <1>1, <1>2, <2>1, <3>2
  <2>3. QED
    BY <1>3, <1>4, <2>1, <2>2 DEF Around, vars, redisVars, Enqueue, AskTerminal, Rest
<1>5. ASSUME NEW w \in Workers \ {v}, Own(w)
      PROVE  marker'[job'[v]] = <<"claiming", v>> \/ marker'[job'[v]] = <<"lease", v>>
  <2>1. pc[v] \in Holding /\ job'[v] = job[v] /\ age[v] < LeaseTTL
    BY <1>0, <1>1, <1>5, OthersStand
  <2>2. marker[job[v]] # NoMarker
    <3>1. <<"claiming", v>> # NoMarker /\ <<"lease", v>> # NoMarker BY DEF NoMarker
    <3>2. QED BY <1>0, <2>1, <3>1
  <2>3. pc[w] \in Holding /\ age[w] < LeaseTTL => job[w] # job[v] BY <1>0, <1>5, <2>1
  <2>4. marker'[job[v]] = marker[job[v]]
    <3>1. CASE UNCHANGED marker BY <3>1
    <3>2. CASE Scan(w)
      BY <1>0, <2>1, <2>2, <3>2 DEF Scan, Acquire
    <3>3. CASE MarkNew(w) BY <1>0, <2>1, <2>2, <3>3 DEF MarkNew, Acquire
    <3>4. CASE Del(w) \/ SetLease(w) \/ TerminalScript(w)
      BY <1>0, <2>1, <2>3, <3>4 DEF Del, SetLease, TerminalScript, MayReport, Holding
    <3>5. QED
      BY <1>5, <3>1, <3>2, <3>3, <3>4
      DEF Own, WorkerStep, redisVars, XPending, XClaim, Unmark, XReadGroup, Decode, DeadLetter, XAck,
          Begin, Executed, Report, Proceed, Tick, Oversleep, Exit, Restart
  <2>5. QED BY <1>2, <2>1, <2>4
<1>6. CASE Own(v)
  <2>1. CASE Scan(v)
    <3>1. CASE todo[v] # {} /\ Acquire(v, Min(todo[v])) /\ At(v, Min(todo[v]))
      BY <1>0, <3>1 DEF Acquire, At
    <3>2. CASE pc' = pc \/ pc' = [pc EXCEPT ![v] = "read"]
      BY <1>0, <1>1, <2>1, <3>2 DEF Scan, Holding
    <3>3. QED BY <2>1, <3>1, <3>2 DEF Scan, Goto
  <2>2. CASE MarkNew(v)
    <3>1. CASE Acquire(v, job[v]) /\ UNCHANGED job BY <1>0, <2>2, <3>1 DEF MarkNew, Acquire
    <3>2. CASE pc' = [pc EXCEPT ![v] = "poll"] BY <1>0, <1>1, <3>2 DEF Holding
    <3>3. QED BY <2>2, <3>1, <3>2 DEF MarkNew, Again, Goto
  <2>3. CASE SetLease(v) BY <1>0, <2>3 DEF SetLease, Holding
  <2>4. CASE XClaim(v) \/ Decode(v) \/ DeadLetter(v) \/ Executed(v)
    BY <1>1, <1>2, <2>4 DEF XClaim, Decode, DeadLetter, Executed, Holding, redisVars
  <2>5. CASE Begin(v) \/ Proceed(v) \/ Tick(v) \/ Oversleep(v)
    <3>1. CASE Begin(v) \/ Proceed(v)
      BY <1>1, <1>3, <3>1 DEF Begin, Proceed, workerVars, redisVars
    <3>2. CASE Tick(v)
      <4>1. age[v] \in 0 .. LeaseTTL /\ age'[v] = Min({age[v] + 1, LeaseTTL})
        BY <1>0, <3>2 DEF Tick, TypeInv, WorkersOK
      <4>2. age[v] = LeaseTTL => age'[v] = LeaseTTL
        <5>1. age[v] = LeaseTTL => \A y \in {age[v] + 1, LeaseTTL} : LeaseTTL <= y
          BY <4>1, TimeoutAssumption
        <5>2. age[v] = LeaseTTL => Min({age[v] + 1, LeaseTTL}) <= LeaseTTL
                                    /\ Min({age[v] + 1, LeaseTTL}) \in {age[v] + 1, LeaseTTL}
          BY <5>1, TimeoutAssumption, MinFacts, MinPair
        <5>3. QED BY <4>1, <5>2, TimeoutAssumption
      <4>3. age[v] < LeaseTTL BY <1>1, <4>1, <4>2, TimeoutAssumption
      <4>4. QED BY <1>3, <3>2, <4>3 DEF Tick, redisVars
    <3>3. CASE Oversleep(v) BY <1>1, <3>3 DEF Oversleep
    <3>4. QED BY <2>5, <3>1, <3>2, <3>3
  <2>6. CASE Unmark(v) \/ Report(v)
    <3>1. CASE UNCHANGED <<job, marker, age>>
      BY <1>1, <1>2, <2>6, <3>1 DEF Unmark, Report, Holding
    <3>2. CASE pc'[v] \in {"scan", "down"} BY <1>1, <3>2 DEF Holding
    <3>3. QED BY <1>0, <2>6, <3>1, <3>2 DEF Unmark, Report, Leave, Goto, redisVars
  <2>7. CASE XPending(v) \/ Del(v) \/ XReadGroup(v) \/ XAck(v) \/ TerminalScript(v) \/ Exit(v)
              \/ Restart(v)
    <3>1. pc'[v] \in {"scan", "poll", "setnx", "down"}
      BY <1>0, <2>7 DEF XPending, Del, XReadGroup, XAck, TerminalScript, Exit, Restart, Again,
         Leave, Goto
    <3>2. QED BY <1>1, <3>1 DEF Holding
  <2>8. QED BY <1>6, <2>1, <2>2, <2>3, <2>4, <2>5, <2>6, <2>7 DEF Own, WorkerStep
<1>7. QED BY <1>4, <1>5, <1>6, NextCases

LEMMA LeaseStep == LeaseInv /\ [Next]_vars => LeaseInv'
<1> SUFFICES ASSUME LeaseInv, [Next]_vars PROVE LeaseInv' OBVIOUS
<1>1. TypeInv' BY TypeStep DEF LeaseInv
<1>2. \A w \in Workers : Within(w)' /\ ByMode(w)' /\ Resting(w)' /\ Marked(w)'
  BY WithinStep, RestingStep, MarkedStep
<1>3. QED BY <1>1, <1>2 DEF LeaseInv

\* Whatever timeouts executorFromConfig accepts, and whatever expires_in a device
\* code comes with, no execution runs into its lease's TTL on its own except in
\* the shutdown of the callback server (run.go, oauth.go, device.go).
THEOREM FlowsFitLeases == Spec => []FlowWithinLease
BY WithinLease, LeaseInit, LeaseStep, PTL DEF Spec

\* For any number of workers and jobs, no job has two executors within their
\* leases while nobody has slept through a TTL: the mark of the message says
\* whose it is (nextMessage).
THEOREM ExecutorsAreAlone == Spec => []OneExecutor
<1>1. LeaseInv => OneExecutor
  BY DEF LeaseInv, Marked, OneExecutor, Executing, Holding
<1>2. QED BY <1>1, LeaseInit, LeaseStep, PTL DEF Spec
=============================================================================
