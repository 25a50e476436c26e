---------------------------- MODULE WrapperFlow ----------------------------
(***************************************************************************)
(* What a wrapper worker does with a job it has leased: one execution of   *)
(* an interactive authorization.                                           *)
(*                                                                         *)
(*   internal/control/wrapper/run.go     authModeRouter                    *)
(*   internal/control/wrapper/oauth.go   PKCEExecutor                      *)
(*   internal/control/wrapper/device.go  DeviceExecutor                    *)
(*                                                                         *)
(* Time is counted in ticks.  A timer that is due fires before time goes   *)
(* on, so a phase never lasts longer than the timer that bounds it.        *)
(***************************************************************************)
EXTENDS Naturals, FiniteSetsExt

CONSTANTS
  Workers,
  CallbackTimeout,  \* Config.CallbackTimeout: the whole wait for the person
  RequestTimeout,   \* the 30 s of one HTTP request to the provider
  ShutdownTimeout,  \* the second shutdownCallbackServer waits for open connections
  LeaseTTL,         \* Config.LeaseTTLSeconds
  Lifetimes         \* values of expires_in, 0 when it is not given

\* executorFromConfig refuses any other configuration; it does not count the
\* shutdown of the callback server.
ASSUME TimeoutAssumption ==
  /\ CallbackTimeout \in Nat \ {0} /\ RequestTimeout \in Nat \ {0} /\ LeaseTTL \in Nat
  /\ CallbackTimeout + RequestTimeout < LeaseTTL
ASSUME ShutdownAssumption == ShutdownTimeout \in Nat
ASSUME LifetimesAssumption == Lifetimes \subseteq Nat

VARIABLE flow   \* flow[w]: phase, ticks left before its timer fires, how it ended

Modes    == {"pkce", "device", "other"}
Outcomes == {"completed", "retryable", "permanent"}
Phases   == {"off", "listen", "callback", "coded", "exchange", "closing",
             "code", "poll", "pause", "ended"}

Flow    == [phase : Phases, left : Nat, outcome : Outcomes \cup {"none"}]
FlowOff == [phase |-> "off", left |-> 0, outcome |-> "none"]

\* The phases that a timer bounds.
Timed == {"callback", "coded", "exchange", "closing", "code", "poll", "pause"}

Phase(w, p, ticks) ==
  flow' = [flow EXCEPT ![w] = [phase |-> p, left |-> ticks, outcome |-> "none"]]

Enter(w, p) == Phase(w, p, flow[w].left)

End(w, o) == flow' = [flow EXCEPT ![w] = [phase |-> "ended", left |-> 0, outcome |-> o]]

\* authorize returns with this outcome, and its deferred shutdown begins.
Close(w, o) ==
  flow' = [flow EXCEPT ![w] = [phase |-> "closing", left |-> ShutdownTimeout, outcome |-> o]]

In(w, phases) == flow[w].phase \in phases

\* The job does not validate or decrypt, or its provider has no complete profile.
Refuse(w) == End(w, "permanent")

StartPKCE(w)   == Phase(w, "listen", 0) \/ Refuse(w)
StartDevice(w) == Phase(w, "code", RequestTimeout) \/ Refuse(w)

\* authModeRouter: the executor of the job's auth mode, or none.
Execute(w, mode) ==
  /\ In(w, {"off"})
  /\ \/ mode = "pkce" /\ StartPKCE(w)
     \/ mode = "device" /\ StartDevice(w)
     \/ mode = "other" /\ Refuse(w)

(***************************************************************************)
(* PKCEExecutor.authorize.                                                 *)
(***************************************************************************)

\* The callback server listens and the browser is opened; the listener, the URL
\* or the browser may fail, the last two once the server runs.
Listen(w) ==
  /\ In(w, {"listen"})
  /\ \/ Phase(w, "callback", CallbackTimeout)
     \/ End(w, "retryable")
     \/ \E o \in {"retryable", "permanent"} : Close(w, o)

\* A callback with the right state: the first one fills the channel.  One that
\* carries an error or no code ends the flow.
Callback(w) ==
  /\ In(w, {"callback"})
  /\ Enter(w, "coded") \/ Close(w, "permanent")

\* The timer, or the server stopping, wins the select, even over a callback that
\* is already in the channel.
CallbackLost(w) ==
  /\ In(w, {"callback", "coded"})
  /\ flow[w].left = 0 \/ In(w, {"callback"})
  /\ Close(w, "retryable")

ReceiveCode(w) ==
  /\ In(w, {"coded"})
  /\ Phase(w, "exchange", RequestTimeout)

ExchangeCode(w) ==
  /\ In(w, {"exchange"})
  /\ \/ flow[w].left > 0 /\ Close(w, "completed")
     \/ Close(w, "retryable")

\* shutdownCallbackServer: connections to the callback server end, or its context does.
Shutdown(w) ==
  /\ In(w, {"closing"})
  /\ End(w, flow[w].outcome)

(***************************************************************************)
(* DeviceExecutor.authorize.                                               *)
(***************************************************************************)

\* Mutant: the code's own lifetime replaces the worker's timeout.
deadlineExpiryOnly(expires) == IF expires = 0 THEN CallbackTimeout ELSE expires

\* The shorter of the worker's timeout and the code's lifetime, 0 when not given.
deadline(expires) ==
  IF expires = 0 THEN CallbackTimeout ELSE Min({CallbackTimeout, expires})

\* requestDeviceCode and the prompt.
RequestDeviceCode(w) ==
  /\ In(w, {"code"})
  /\ \/ /\ flow[w].left > 0
        /\ \E expires \in Lifetimes : Phase(w, "poll", deadline(expires))
     \/ flow[w].left > 0 /\ End(w, "permanent")
     \/ End(w, "retryable")

\* One answer of the token endpoint, asked under the deadline: not yet, or slower;
\* the grant; denied or unusable; expired or failing.
Poll(w) ==
  /\ In(w, {"poll"})
  /\ \/ flow[w].left > 0 /\ Enter(w, "pause")
     \/ flow[w].left > 0 /\ End(w, "completed")
     \/ flow[w].left > 0 /\ End(w, "permanent")
     \/ End(w, "retryable")

\* The interval passes, or the deadline does.
PollAgain(w) ==
  /\ In(w, {"pause"})
  /\ \/ flow[w].left > 0 /\ Enter(w, "poll")
     \/ flow[w].left = 0 /\ End(w, "retryable")

FlowStep(w) ==
  \/ Listen(w) \/ Callback(w) \/ CallbackLost(w) \/ ReceiveCode(w) \/ ExchangeCode(w)
  \/ Shutdown(w)
  \/ RequestDeviceCode(w) \/ Poll(w) \/ PollAgain(w)

\* The steps that do not wait for anybody: every phase ends by one of them at the
\* latest when its timer is due.
FlowDue(w) ==
  /\ In(w, {"listen"}) \/ flow[w].left = 0
  /\ FlowStep(w)

FlowTick(w) ==
  /\ In(w, Timed)
  /\ flow[w].left > 0
  /\ flow' = [flow EXCEPT ![w].left = @ - 1]

FlowTypeOK == flow \in [Workers -> Flow]
FlowInit   == flow = [w \in Workers |-> FlowOff]
=============================================================================
