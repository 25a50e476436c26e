---------------------------- MODULE WrapperQueue ----------------------------
(***************************************************************************)
(* The queue of authorization jobs in Redis, the workers that lease and    *)
(* execute them, and the callers that wait for the result.                 *)
(*                                                                         *)
(*   internal/control/wrapper/queue.go   Queue                             *)
(*   internal/control/wrapper/worker.go  Worker.Run                        *)
(*   internal/control/wrapper/oauth.go   AuthorizeClient                   *)
(*                                                                         *)
(* A job is the number of its message in the stream: the caller makes a    *)
(* fresh job id, and enqueueScript adds one message for it however often   *)
(* the call is repeated.  The lease record and the message's marker are    *)
(* set in one transaction with one TTL, so the marker stands for both.     *)
(* A worker holds one lease at a time, so its name stands for the lease.   *)
(***************************************************************************)
EXTENDS WrapperFlow

CONSTANTS
  MaxJobs,
  MaxFaults   \* bound: workers that crash or are stopped, or sleep through a lease

ASSUME JobsAssumption == MaxJobs \in Nat
ASSUME FaultsAssumption == MaxFaults \in Nat

VARIABLES
  sent,       \* jobs in the stream
  mode,       \* mode[j]: what the job asks for; "malformed" does not decode
  delivered,  \* last delivered message of the consumer group
  pending,    \* its pending entries
  rested,     \* those idle for minClaimIdle
  marker,     \* marker[j]: the leaseMsg key: <<>>, or what it says and who set it
  terminal,   \* terminal[j]: the stored result
  dead,       \* messages in the DLQ
  client,     \* client[j]: the caller
  pc,
  job,        \* job[w]: the message worker w is at
  todo,       \* todo[w]: pending entries it has still to look at
  age,        \* age[w]: ticks since it set its marker or its lease
  overslept,  \* workers that slept through a TTL
  faults

redisVars  == <<sent, mode, delivered, pending, rested, marker, terminal, dead>>
workerVars == <<pc, job, todo, age>>
vars == <<flow, redisVars, client, workerVars, overslept, faults>>

Jobs  == 1 .. MaxJobs
NoJob == 0
NoMarker == <<>>

PC == {"down", "poll", "scan", "xclaim", "unmark", "del", "read", "setnx",
       "decode", "dlq", "ack", "lease", "execute", "report", "script"}

\* Where a worker counts on its marker.
Holding == {"xclaim", "unmark", "del", "decode", "dlq", "ack", "lease", "execute", "report", "script"}

TypeOK ==
  /\ FlowTypeOK
  /\ sent \in 0 .. MaxJobs
  /\ mode \in [Jobs -> Modes \cup {"none", "malformed"}]
  /\ delivered \in 0 .. sent
  /\ pending \subseteq 1 .. delivered
  /\ rested \subseteq pending
  /\ marker \in [Jobs -> {NoMarker} \cup ({"claiming", "lease"} \X Workers)]
  /\ terminal \in [Jobs -> Outcomes \cup {"none"}]
  /\ dead \subseteq 1 .. delivered
  /\ client \in [Jobs -> Outcomes \cup {"none", "waiting", "gave up"}]
  /\ pc \in [Workers -> PC]
  /\ job \in [Workers -> 0 .. delivered]
  /\ todo \in [Workers -> SUBSET (1 .. delivered)]
  /\ age \in [Workers -> 0 .. LeaseTTL]
  /\ overslept \subseteq Workers
  /\ faults \in 0 .. MaxFaults

Init ==
  /\ FlowInit
  /\ sent = 0
  /\ mode = [j \in Jobs |-> "none"]
  /\ delivered = 0
  /\ pending = {}
  /\ rested = {}
  /\ marker = [j \in Jobs |-> NoMarker]
  /\ terminal = [j \in Jobs |-> "none"]
  /\ dead = {}
  /\ client = [j \in Jobs |-> "none"]
  /\ pc = [w \in Workers |-> "poll"]
  /\ job = [w \in Workers |-> NoJob]
  /\ todo = [w \in Workers |-> {}]
  /\ age = [w \in Workers |-> 0]
  /\ overslept = {}
  /\ faults = 0

(***************************************************************************)
(* AuthorizeClient.authorize.                                              *)
(***************************************************************************)

\* Enqueue; a message another producer wrote may not decode, and has no caller.
Enqueue(m) ==
  /\ sent < MaxJobs
  /\ sent' = sent + 1
  /\ mode' = [mode EXCEPT ![sent + 1] = m]
  /\ client' = [client EXCEPT ![sent + 1] = IF m = "malformed" THEN "none" ELSE "waiting"]
  /\ UNCHANGED <<flow, delivered, pending, rested, marker, terminal, dead, workerVars, overslept, faults>>

\* The caller reads the terminal result, or its context ends first.
AskTerminal(j) ==
  /\ client[j] = "waiting"
  /\ \/ terminal[j] # "none" /\ client' = [client EXCEPT ![j] = terminal[j]]
     \/ client' = [client EXCEPT ![j] = "gave up"]
  /\ UNCHANGED <<flow, redisVars, workerVars, overslept, faults>>

(***************************************************************************)
(* Queue.Claim.  The 32 rounds of its loop end in another call of Claim.   *)
(***************************************************************************)

Goto(w, l) == pc' = [pc EXCEPT ![w] = l]
At(w, j)   == job' = [job EXCEPT ![w] = j]

\* The process ends, or leaves its loop: what it had in memory is gone.
Leave(w) ==
  /\ Goto(w, "down")
  /\ At(w, NoJob)
  /\ todo' = [todo EXCEPT ![w] = {}]
  /\ age' = [age EXCEPT ![w] = 0]
  /\ flow' = [flow EXCEPT ![w] = FlowOff]

\* Back to the top of nextMessage.
Again(w) ==
  /\ Goto(w, "poll")
  /\ At(w, NoJob)
  /\ age' = [age EXCEPT ![w] = 0]
  /\ UNCHANGED <<todo, flow>>

\* Mutant: only new messages are looked for.
NewOnly(w) ==
  /\ pc[w] = "poll"
  /\ Goto(w, "scan")
  /\ UNCHANGED <<flow, redisVars, client, job, todo, age, overslept, faults>>

\* Redis lists the entries that are pending now.
XPending(w) ==
  /\ pc[w] = "poll"
  /\ todo' = [todo EXCEPT ![w] = pending]
  /\ Goto(w, "scan")
  /\ UNCHANGED <<flow, redisVars, client, job, age, overslept, faults>>

\* Mutant: SET without NX.
AcquireAlways(w, j) == marker' = [marker EXCEPT ![j] = <<"claiming", w>>]

\* SETNX of the marker.
Acquire(w, j) ==
  /\ marker[j] = NoMarker
  /\ marker' = [marker EXCEPT ![j] = <<"claiming", w>>]

\* The next pending entry: skipped when it is marked.
Scan(w) ==
  /\ pc[w] = "scan"
  /\ \/ /\ todo[w] = {}
        /\ Goto(w, "read")
        /\ UNCHANGED <<marker, job, todo>>
     \/ /\ todo[w] # {}
        /\ LET j == Min(todo[w]) IN
             /\ todo' = [todo EXCEPT ![w] = @ \ {j}]
             /\ \/ Acquire(w, j) /\ At(w, j) /\ Goto(w, "xclaim")
                \/ marker[j] # NoMarker /\ UNCHANGED <<marker, job, pc>>
  /\ UNCHANGED <<flow, sent, mode, delivered, pending, rested, terminal, dead, client, age, overslept, faults>>

\* XCLAIM with MinIdle: it takes an entry that is still pending and idle.
XClaim(w) ==
  /\ pc[w] = "xclaim"
  /\ IF job[w] \in rested
     THEN /\ rested' = rested \ {job[w]}
          /\ todo' = [todo EXCEPT ![w] = {}]
          /\ Goto(w, "decode")
     ELSE Goto(w, "unmark") /\ UNCHANGED <<rested, todo>>
  /\ UNCHANGED <<flow, sent, mode, delivered, pending, marker, terminal, dead, client, job, age, overslept, faults>>

\* The entry was not claimed: GET and DEL of the marker are two calls.
Unmark(w) ==
  /\ pc[w] = "unmark"
  /\ \/ marker[job[w]] = <<"claiming", w>> /\ Goto(w, "del") /\ UNCHANGED <<job, age>>
     \/ /\ marker[job[w]] # <<"claiming", w>>
        /\ Goto(w, "scan")
        /\ At(w, NoJob)
        /\ age' = [age EXCEPT ![w] = 0]
  /\ UNCHANGED <<flow, redisVars, client, todo, overslept, faults>>

Del(w) ==
  /\ pc[w] = "del"
  /\ marker' = [marker EXCEPT ![job[w]] = NoMarker]
  /\ Goto(w, "scan")
  /\ At(w, NoJob)
  /\ age' = [age EXCEPT ![w] = 0]
  /\ UNCHANGED <<flow, sent, mode, delivered, pending, rested, terminal, dead, client, todo, overslept, faults>>

\* Mutant: the message after the last one.
ReadPast(w) ==
  /\ pc[w] = "read"
  /\ delivered <= sent
  /\ delivered' = delivered + 1
  /\ pending' = pending \cup {delivered + 1}
  /\ Again(w)
  /\ UNCHANGED <<sent, mode, rested, marker, terminal, dead, client, overslept, faults>>

\* XREADGROUP: the next message nobody was given yet.
XReadGroup(w) ==
  /\ pc[w] = "read"
  /\ \/ /\ delivered < sent
        /\ delivered' = delivered + 1
        /\ pending' = pending \cup {delivered + 1}
        /\ At(w, delivered + 1)
        /\ Goto(w, "setnx")
        /\ UNCHANGED <<flow, todo, age>>
     \/ /\ delivered = sent
        /\ Again(w)
        /\ UNCHANGED <<delivered, pending>>
  /\ UNCHANGED <<sent, mode, rested, marker, terminal, dead, client, overslept, faults>>

\* Its marker: another worker that saw it pending may have been faster.
MarkNew(w) ==
  /\ pc[w] = "setnx"
  /\ \/ Acquire(w, job[w]) /\ Goto(w, "decode") /\ UNCHANGED <<flow, job, todo, age>>
     \/ marker[job[w]] # NoMarker /\ Again(w) /\ UNCHANGED marker
  /\ UNCHANGED <<sent, mode, delivered, pending, rested, terminal, dead, client, overslept, faults>>

\* The message holds a job that validates.
Decodes(j) == mode[j] # "malformed"

\* Mutant: what does not decode is acknowledged at once.
DropMalformed(j) == IF ~Decodes(j) \/ terminal[j] # "none" THEN "ack" ELSE "lease"

\* What Claim does with a message: dead-letter it, acknowledge one that has a
\* result, or lease it.
Disposition(j) ==
  IF ~Decodes(j) THEN "dlq" ELSE IF terminal[j] # "none" THEN "ack" ELSE "lease"

Decode(w) ==
  /\ pc[w] = "decode"
  /\ Goto(w, Disposition(job[w]))
  /\ UNCHANGED <<flow, redisVars, client, job, todo, age, overslept, faults>>

DeadLetter(w) ==
  /\ pc[w] = "dlq"
  /\ dead' = dead \cup {job[w]}
  /\ Goto(w, "ack")
  /\ UNCHANGED <<flow, sent, mode, delivered, pending, rested, marker, terminal, client, job, todo, age, overslept, faults>>

XAck(w) ==
  /\ pc[w] = "ack"
  /\ pending' = pending \ {job[w]}
  /\ rested' = rested \ {job[w]}
  /\ Again(w)
  /\ UNCHANGED <<sent, mode, delivered, marker, terminal, dead, client, overslept, faults>>

\* The lease is set over whatever marker is there by now.
SetLease(w) ==
  /\ pc[w] = "lease"
  /\ marker' = [marker EXCEPT ![job[w]] = <<"lease", w>>]
  /\ age' = [age EXCEPT ![w] = 0]
  /\ Goto(w, "execute")
  /\ UNCHANGED <<flow, sent, mode, delivered, pending, rested, terminal, dead, client, job, todo, overslept, faults>>

(***************************************************************************)
(* Execution and Queue.terminal.                                           *)
(***************************************************************************)

Begin(w) ==
  /\ pc[w] = "execute"
  /\ Execute(w, mode[job[w]])
  /\ UNCHANGED <<redisVars, client, workerVars, overslept, faults>>

Proceed(w) ==
  /\ pc[w] = "execute"
  /\ FlowStep(w)
  /\ UNCHANGED <<redisVars, client, workerVars, overslept, faults>>

Tick(w) ==
  /\ pc[w] = "execute"
  /\ FlowTick(w)
  /\ age' = [age EXCEPT ![w] = Min({@ + 1, LeaseTTL})]
  /\ UNCHANGED <<redisVars, client, pc, job, todo, overslept, faults>>

Executed(w) ==
  /\ pc[w] = "execute"
  /\ In(w, {"ended"})
  /\ Goto(w, "report")
  /\ UNCHANGED <<flow, redisVars, client, job, todo, age, overslept, faults>>

\* A result may be stored, and the lease is the worker's and has not run out.
MayReport(w) ==
  /\ terminal[job[w]] = "none"
  /\ age[w] < LeaseTTL
  /\ marker[job[w]] = <<"lease", w>>

\* The reads of terminal: ErrTerminalConflict and ErrLeaseLost end the worker.
Report(w) ==
  /\ pc[w] = "report"
  /\ \/ MayReport(w) /\ Goto(w, "script") /\ UNCHANGED <<flow, job, todo, age>>
     \/ ~MayReport(w) /\ Leave(w)
  /\ UNCHANGED <<redisVars, client, overslept, faults>>

\* Mutant: the script trusts the reads before it.
TrustReads(w) ==
  /\ pc[w] = "script"
  /\ terminal' = [terminal EXCEPT ![job[w]] = flow[w].outcome]
  /\ pending' = pending \ {job[w]}
  /\ rested' = rested \ {job[w]}
  /\ marker' = [marker EXCEPT ![job[w]] = NoMarker]
  /\ flow' = [flow EXCEPT ![w] = FlowOff]
  /\ Goto(w, "poll") /\ At(w, NoJob) /\ age' = [age EXCEPT ![w] = 0] /\ UNCHANGED todo
  /\ UNCHANGED <<sent, mode, delivered, dead, client, overslept, faults>>

\* terminalScript decides again, and stores the result, acknowledges the message
\* and drops the lease in one step.
TerminalScript(w) ==
  /\ pc[w] = "script"
  /\ \/ /\ MayReport(w)
        /\ terminal' = [terminal EXCEPT ![job[w]] = flow[w].outcome]
        /\ pending' = pending \ {job[w]}
        /\ rested' = rested \ {job[w]}
        /\ marker' = [marker EXCEPT ![job[w]] = NoMarker]
        /\ flow' = [flow EXCEPT ![w] = FlowOff]
        /\ Goto(w, "poll")
        /\ At(w, NoJob)
        /\ age' = [age EXCEPT ![w] = 0]
        /\ UNCHANGED todo
     \/ ~MayReport(w) /\ Leave(w) /\ UNCHANGED <<pending, rested, marker, terminal>>
  /\ UNCHANGED <<sent, mode, delivered, dead, client, overslept, faults>>

(***************************************************************************)
(* Time and faults.                                                        *)
(***************************************************************************)

\* A pending entry has been idle for minClaimIdle.
Rest(j) ==
  /\ j \in pending \ rested
  /\ rested' = rested \cup {j}
  /\ UNCHANGED <<flow, sent, mode, delivered, pending, marker, terminal, dead, client, workerVars, overslept, faults>>

\* The marker is within its TTL while the worker that set it is.
InTime(j) ==
  \E w \in Workers : /\ marker[j] \in {<<"claiming", w>>, <<"lease", w>>}
                     /\ job[w] = j /\ pc[w] \in Holding /\ age[w] < LeaseTTL

MarkerExpires(j) ==
  /\ marker[j] # NoMarker /\ ~InTime(j)
  /\ marker' = [marker EXCEPT ![j] = NoMarker]
  /\ UNCHANGED <<flow, sent, mode, delivered, pending, rested, terminal, dead, client, workerVars, overslept, faults>>

Fault == faults < MaxFaults /\ faults' = faults + 1

\* The worker is suspended, or a call hangs, for longer than the TTL.
Oversleep(w) ==
  /\ pc[w] \in Holding
  /\ age[w] < LeaseTTL
  /\ Fault
  /\ age' = [age EXCEPT ![w] = LeaseTTL]
  /\ overslept' = overslept \cup {w}
  /\ UNCHANGED <<flow, redisVars, client, pc, job, todo>>

\* A crash, a signal, or an error of a Redis call: Run returns.
Exit(w) ==
  /\ pc[w] # "down"
  /\ Fault
  /\ Leave(w)
  /\ UNCHANGED <<redisVars, client, overslept>>

Restart(w) ==
  /\ pc[w] = "down"
  /\ Goto(w, "poll")
  /\ UNCHANGED <<flow, redisVars, client, job, todo, age, overslept, faults>>

WorkerStep(w) ==
  \/ XPending(w) \/ Scan(w) \/ XClaim(w) \/ Unmark(w) \/ Del(w) \/ XReadGroup(w) \/ MarkNew(w)
  \/ Decode(w) \/ DeadLetter(w) \/ XAck(w) \/ SetLease(w)
  \/ Begin(w) \/ Executed(w) \/ Report(w) \/ TerminalScript(w)

Next ==
  \/ \E m \in Modes \cup {"malformed"} : Enqueue(m)
  \/ \E j \in Jobs : AskTerminal(j) \/ Rest(j) \/ MarkerExpires(j)
  \/ \E w \in Workers : WorkerStep(w) \/ Proceed(w) \/ Tick(w) \/ Oversleep(w) \/ Exit(w) \/ Restart(w)

Spec == Init /\ [][Next]_vars

\* Workers run, timers fire and time passes; nobody has to answer, and nothing
\* restarts a worker that has left its loop.
Fairness ==
  /\ \A w \in Workers : /\ WF_vars(WorkerStep(w))
                        /\ WF_vars(Tick(w))
                        /\ WF_vars(FlowDue(w) /\ Proceed(w))
  /\ \A j \in Jobs : WF_vars(Rest(j)) /\ WF_vars(MarkerExpires(j))

FairSpec == Spec /\ Fairness

(***************************************************************************)
(* Properties.                                                             *)
(***************************************************************************)

Ended(j) == terminal[j] # "none" \/ j \in dead

\* No job is lost: a message that was delivered and is no longer pending has a
\* result or is in the DLQ, whoever crashed or overslept (queue.go XACK paths).
NoJobLost == \A j \in 1 .. delivered : j \notin pending => Ended(j)

\* A lease runs out on a worker that was not suspended in one case only: the
\* shutdown of the callback server, which executorFromConfig does not count, takes
\* the ticks that its check has left.  The calls of both flows fit in the TTL.
ClosedLate(w) ==
  /\ LeaseTTL <= CallbackTimeout + RequestTimeout + ShutdownTimeout
  /\ mode[job[w]] = "pkce"
  /\ In(w, {"closing", "ended"})

FlowWithinLease ==
  \A w \in Workers : age[w] = LeaseTTL => w \in overslept \/ ClosedLate(w)

\* Until some worker sleeps through a TTL no job is executed by two workers that
\* are both within their leases, in whatever order they list, mark, claim and
\* lease it (Queue.nextMessage).
Executing(w) == pc[w] \in {"execute", "report", "script"} /\ age[w] < LeaseTTL

OneExecutor ==
  overslept = {} =>
    \A v, w \in Workers : v # w /\ Executing(v) /\ Executing(w) => job[v] # job[w]

\* A job ends once, for good, and its caller is told that end: the queue
\* implements WrapperJobs, also when leases are lost and set over each other.
Promise == INSTANCE WrapperJobs WITH
  status <- [j \in Jobs |-> IF terminal[j] # "none" THEN terminal[j]
                            ELSE IF j \in dead THEN "dead"
                            ELSE IF j <= sent THEN "queued" ELSE "new"],
  answer <- [j \in Jobs |-> IF client[j] = "waiting" THEN "none" ELSE client[j]]
EndsOnce == Promise!Spec

\* Every job ends unless every worker has left its loop: lost leases and crashes
\* leave no job behind while one worker runs (Worker.Run, Queue.nextMessage), as
\* long as the shutdown of the callback server does not use up one lease after
\* the other.
Served ==
  <>[](\A w \in Workers : age[w] < LeaseTTL) =>
    \A j \in Jobs : (j <= sent) ~> (Ended(j) \/ \A w \in Workers : pc[w] = "down")
=============================================================================
