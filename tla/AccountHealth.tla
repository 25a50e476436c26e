--------------------------- MODULE AccountHealth ---------------------------
(***************************************************************************)
(* What releases do to the accounts of one platform, whatever order they   *)
(* arrive in, and who lifts a cooldown again.                              *)
(*                                                                         *)
(*   internal/control/health.go            applyReleaseAuthority,          *)
(*                                         PlatformSignals, starvation     *)
(*   internal/control/console_accounts.go  clear_cooldown, set_status      *)
(*                                                                         *)
(* Times are relative: cool[a] is what is left of cooldown_until and       *)
(* seenAt[a] how long ago the last transport rejection was observed.  A    *)
(* release occurred some time before it is applied.                        *)
(***************************************************************************)
EXTENDS Integers, FiniteSetsExt

CONSTANTS
  Pool,               \* accounts of one platform
  BlockedCooldown,    \* ticks: 60 s
  UnknownCooldown,    \* ticks: 5 min
  Escalation,         \* unknownRateLimitEscalation
  SignalWindow,       \* ticks: platformSignalWindow
  MaxDelay            \* bound: ticks between a release and its handling

ASSUME CooldownAssumption ==
  /\ {BlockedCooldown, UnknownCooldown, Escalation, SignalWindow, MaxDelay} \subseteq Nat
  /\ BlockedCooldown <= UnknownCooldown
  /\ Escalation > 0

VARIABLES
  enabled,   \* enabled[a]: accounts.status is 'active'
  cool,      \* cool[a]: ticks until cooldown_until, 0 when NULL or past
  streak,    \* streak[a]: consecutive_failures, counted up to Escalation
  seenAt,    \* seenAt[a]: age of the last transport rejection, SignalWindow if none
  alert      \* gauge control_platform_alert

healthVars == <<enabled, cool, streak, seenAt, alert>>

Classes == {"ok", "auth_invalid", "blocked", "rate_limited_unknown",
            "forbidden_transport", "upstream_5xx"}

HealthTypeOK ==
  /\ enabled \in [Pool -> BOOLEAN]
  /\ cool \in [Pool -> 0 .. UnknownCooldown]
  /\ streak \in [Pool -> 0 .. Escalation]
  /\ seenAt \in [Pool -> 0 .. SignalWindow]
  /\ alert \in BOOLEAN

HealthInit ==
  /\ enabled = [a \in Pool |-> TRUE]
  /\ cool = [a \in Pool |-> 0]
  /\ streak = [a \in Pool |-> 0]
  /\ seenAt = [a \in Pool |-> SignalWindow]
  /\ alert = FALSE

Counting == {"blocked", "rate_limited_unknown"}

\* consecutive_failures after a release of this class: a success starts it again.
Counted(n, class) ==
  CASE class = "ok" -> 0
    [] class \in Counting -> Min({n + 1, Escalation})
    [] OTHER -> n

\* Mutant: the failure is counted twice.
EscalatesEarly(a) == streak[a] + 2 >= Escalation

Escalates(a) == streak[a] + 1 >= Escalation

\* GREATEST(COALESCE(cooldown_until, occurred_at), occurred_at + cooldown)
Longest(a, ticks) == Max({ticks, cool[a]})

\* What is left of the cooldown a release of this class asks for that occurred
\* delay ticks ago.  A success lifts what runs, however long ago it occurred.
Cooled(a, class, delay) ==
  CASE class = "ok" -> 0
    [] class = "blocked" -> Longest(a, BlockedCooldown - delay)
    [] class = "rate_limited_unknown" /\ Escalates(a) ->
         Longest(a, UnknownCooldown - delay)
    [] OTHER -> cool[a]

\* Observe: only transport rejections are kept, and only they write the gauge.
Observe(a, class) ==
  IF class \in {"forbidden_transport", "blocked"}
    THEN /\ seenAt' = [seenAt EXCEPT ![a] = 0]
         /\ alert' = (Cardinality({b \in Pool : seenAt'[b] < SignalWindow}) >= 2)
    ELSE UNCHANGED <<seenAt, alert>>

ApplyRelease(a, class, delay) ==
  /\ enabled' = [enabled EXCEPT ![a] = @ /\ class # "auth_invalid"]
  /\ streak' = [streak EXCEPT ![a] = Counted(@, class)]
  /\ cool' = [cool EXCEPT ![a] = Cooled(a, class, delay)]
  /\ Observe(a, class)

Cooling == {a \in Pool : enabled[a] /\ cool[a] > 0}
Enabled == {a \in Pool : enabled[a]}

\* cooling / total > starvationRatio
Starved == 2 * Cardinality(Cooling) > Cardinality(Enabled)

\* The cooldown that ends first is lifted, with the streak.
ReleaseStarvedCooldowns(a) ==
  /\ Starved
  /\ a \in Cooling
  /\ \A b \in Cooling : cool[a] <= cool[b]
  /\ cool' = [cool EXCEPT ![a] = 0]
  /\ streak' = [streak EXCEPT ![a] = 0]
  /\ UNCHANGED <<enabled, seenAt, alert>>

ClearCooldown(a) ==
  /\ cool[a] > 0 \/ streak[a] > 0
  /\ cool' = [cool EXCEPT ![a] = 0]
  /\ streak' = [streak EXCEPT ![a] = 0]
  /\ UNCHANGED <<enabled, seenAt, alert>>

\* set_status, and an import, which activates: neither touches the cooldown.
ToggleStatus(a) ==
  /\ enabled' = [enabled EXCEPT ![a] = ~@]
  /\ UNCHANGED <<cool, streak, seenAt, alert>>

Passing ==
  /\ cool' = [a \in Pool |-> Max({cool[a] - 1, 0})]
  /\ seenAt' = [a \in Pool |-> Min({seenAt[a] + 1, SignalWindow})]
  /\ <<cool', seenAt'>> # <<cool, seenAt>>
  /\ UNCHANGED <<enabled, streak, alert>>

HealthNext ==
  \/ Passing
  \/ \E a \in Pool :
       \/ \E class \in Classes, delay \in 0 .. MaxDelay : ApplyRelease(a, class, delay)
       \/ ReleaseStarvedCooldowns(a) \/ ClearCooldown(a) \/ ToggleStatus(a)

HealthSpec == HealthInit /\ [][HealthNext]_healthVars

\* A cooldown stands on failures that are still counted, and one longer than the
\* short one on unknownRateLimitEscalation of them: in whatever order and however
\* late releases arrive, what forgets the failures (a success, an operator, the
\* starvation gate) ends the cooldown, and nothing else shortens the count.
CooldownsEarned ==
  \A a \in Pool : /\ cool[a] > 0 => streak[a] > 0
                  /\ cool[a] > BlockedCooldown => streak[a] = Escalation
=============================================================================
