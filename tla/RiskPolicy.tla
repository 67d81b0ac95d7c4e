----------------------------- MODULE RiskPolicy -----------------------------
(***************************************************************************)
(* The risk policy of the OMS: the core rules on a proposed order, the     *)
(* drawdown and loss guards on the portfolio, the controls of RiskControls *)
(* and the collector that counts decisions and queues the notifications an *)
(* operator reads. Money and quantities are small integers, percentages    *)
(* whole numbers; the code's epsilon is the step from 0 to 1.              *)
(***************************************************************************)
EXTENDS RiskControls, FiniteSets, SequencesExt

CONSTANTS
    MaxPositionAbs, MaxSymbolNotional, MaxLeverage,  \* CoreRiskConfig
    MaxDrawdownPct, MaxDailyLoss,                    \* DrawdownDailyLossConfig
    Cases,          \* inputs of evaluate: order, position and portfolio
    ManualCooldowns,  \* cooldown_seconds an operator may pass
    MaxPending,     \* bound: events and notifications not yet drained
    MaxEvaluations  \* bound: policy evaluations

ASSUME LimitsAssumption ==
    /\ MaxPositionAbs \in Nat /\ MaxSymbolNotional \in Nat /\ MaxLeverage \in Nat
    /\ MaxDrawdownPct \in Nat /\ MaxDailyLoss \in Nat
ASSUME CasesAssumption ==
    /\ Cases \subseteq [side : {"BUY", "SELL"}, quantity : Nat, price : Nat, position : Int,
                        exposure : Int, equity : Int, peak : Int, realized : Int]
    /\ ManualCooldowns \subseteq Nat \union {Null}

VARIABLES
    controls,  \* the RiskControlPlane
    obs,       \* the collector: totals, and notifications not yet drained
    verdict,   \* the last evaluated case and what blocked it
    heard      \* what the drained notifications told the operator

riskVars == <<controls, obs, verdict, heard>>

Abs(n) == IF n < 0 THEN -n ELSE n
Larger(a, b) == IF a >= b THEN a ELSE b

\* _validate_order: the only inputs of a case that can make it raise.
ValidateOrder(c) == c.quantity > 0 /\ c.price > 0

SignedQuantity(c) == IF c.side = "BUY" THEN c.quantity ELSE -c.quantity

\* Slip: the notional of the current position stays in the projected exposure.
ExposureCountsTwice(c) == LET projected == c.position + SignedQuantity(c)
                          IN  Larger(0, Larger(0, c.exposure) + Abs(projected) * c.price)

ProjectedExposure(c) ==
    LET projected == c.position + SignedQuantity(c)
    IN  Larger(0, Larger(0, c.exposure) - Abs(c.position) * c.price + Abs(projected) * c.price)

WithinLeverage(exposure, equity) ==
    IF equity <= 0 THEN exposure <= 0 ELSE exposure <= MaxLeverage * equity

\* The policy passes neither the day's result nor the peak to the core rules, so
\* their optional daily-loss and drawdown checks never block here.
CoreBlockers(c) ==
    LET projected == c.position + SignedQuantity(c)
    IN  {check \in {"position_limit", "symbol_notional_limit", "leverage_limit"} :
            ~ CASE check = "position_limit" -> Abs(projected) <= MaxPositionAbs
                [] check = "symbol_notional_limit" ->
                       Abs(projected) * c.price <= MaxSymbolNotional
                [] check = "leverage_limit" -> WithinLeverage(ProjectedExposure(c), c.equity)}

\* Without daily_pnl_usd the loss is read from the realised total of the snapshot.
GuardBlockers(c) ==
    {check \in {"drawdown_limit", "daily_loss_limit"} :
        \/ /\ check = "drawdown_limit" /\ c.peak > 0
           /\ Larger(0, c.peak - c.equity) * 100 > MaxDrawdownPct * c.peak
        \/ check = "daily_loss_limit" /\ Larger(0, -c.realized) > MaxDailyLoss}

MergeBlocked(c, rc) == CoreBlockers(c) \union GuardBlockers(c) \union ControlBlockers(rc)

PolicySeverity(blocked) ==
    IF blocked = {} THEN "INFO"
    ELSE IF blocked \intersect {"kill_switch", "circuit_breaker"} # {} THEN "CRITICAL"
    ELSE "WARNING"

ControlSeverity(event) ==
    CASE event \in {"kill_switch.enabled", "tripped"} -> "CRITICAL"
      [] event = "failure_recorded" -> "WARNING"
      [] OTHER -> "INFO"

RiskInit ==
    /\ controls = RiskControlPlane
    /\ obs = [evaluations |-> 0, denied |-> 0, notices |-> <<>>]
    /\ verdict = Null
    /\ heard = [kill |-> FALSE, breaker |-> "closed"]

Room == Len(controls.events) < MaxPending /\ UNCHANGED <<obs, verdict, heard>>

SwitchKill == Room /\ \E operation \in {"enable", "disable"} :
                  controls' = IF operation = "enable" THEN EnableKillSwitch(controls)
                                                      ELSE DisableKillSwitch(controls)

\* Bound: failures counted while the breaker stays open.
MaxFailures == Threshold + 1

OrderFailed == Room /\ controls.failures < MaxFailures /\ controls' = RecordFailure(controls)

OrderSucceeded == Room /\ controls' = RecordSuccess(controls)

ManualTrip == Room /\ \E cooldown \in ManualCooldowns :
                  controls' = TripCircuitBreaker(controls, cooldown)

ManualReset == Room /\ controls' = ResetCircuitBreaker(controls)

TimePasses == controls' = Elapse(controls) /\ UNCHANGED <<obs, verdict, heard>>

RecordPolicyDecision(blocked) ==
    obs' = [obs EXCEPT !.evaluations = @ + 1,
                       !.denied = IF blocked = {} THEN @ ELSE @ + 1,
                       !.notices = IF blocked = {} THEN @
                                   ELSE Append(@, <<"denied", PolicySeverity(blocked)>>)]

\* RiskPolicyEngine.evaluate: an order the rules refuse to read raises before the
\* controls are looked at.
EvaluateOrder ==
    /\ obs.evaluations < MaxEvaluations
    /\ Len(controls.events) < MaxPending /\ Len(obs.notices) < MaxPending
    /\ \E c \in {d \in Cases : ValidateOrder(d)} :
           LET checked == AutoResetIfExpired(controls)
               blocked == MergeBlocked(c, checked)
           IN  /\ controls' = checked
               /\ verdict' = [order |-> c, blocked |-> blocked]
               /\ RecordPolicyDecision(blocked)
    /\ UNCHANGED heard

\* Slip: only the events that call for attention are passed on.
DrainControlEventsCritical ==
    /\ controls.events # <<>> /\ Len(obs.notices) < MaxPending
    /\ LET kept == SelectSeq(controls.events, LAMBDA e : ControlSeverity(e) = "CRITICAL")
       IN  obs' = [obs EXCEPT !.notices = @ \o [i \in DOMAIN kept |-> <<kept[i], "CRITICAL">>]]
    /\ controls' = DrainEvents(controls)
    /\ UNCHANGED <<verdict, heard>>

\* drain_control_events, and record_control_events with what it drained.
DrainControlEvents ==
    /\ controls.events # <<>> /\ Len(obs.notices) < MaxPending
    /\ LET events == controls.events
       IN  obs' = [obs EXCEPT !.notices = @ \o
                      [i \in DOMAIN events |-> <<events[i], ControlSeverity(events[i])>>]]
    /\ controls' = DrainEvents(controls)
    /\ UNCHANGED <<verdict, heard>>

\* What one event tells an operator who knew view.
Hear(view, event) ==
    CASE event = "kill_switch.enabled" -> [view EXCEPT !.kill = TRUE]
      [] event = "kill_switch.disabled" -> [view EXCEPT !.kill = FALSE]
      [] event = "tripped" -> [view EXCEPT !.breaker = "open"]
      [] event \in {"reset", "auto_reset"} -> [view EXCEPT !.breaker = "closed"]
      [] OTHER -> view

HearAll(view, events) == FoldLeft(Hear, view, events)

DrainNotifications ==
    /\ obs.notices # <<>>
    /\ heard' = HearAll(heard, [i \in DOMAIN obs.notices |-> obs.notices[i][1]])
    /\ obs' = [obs EXCEPT !.notices = <<>>]
    /\ UNCHANGED <<controls, verdict>>

RiskNext ==
    \/ SwitchKill \/ OrderFailed \/ OrderSucceeded \/ ManualTrip \/ ManualReset \/ TimePasses
    \/ EvaluateOrder \/ DrainControlEvents \/ DrainNotifications

RiskSpec == RiskInit /\ [][RiskNext]_riskVars

-----------------------------------------------------------------------------
\* However failures, successes, trips, resets and expiries interleave, a breaker
\* that is not waiting for its cooldown counts fewer failures than the threshold:
\* no run of failures long enough to open it leaves it closed (record_failure,
\* _auto_reset_if_expired).
BreakerArmed == controls.openFor = Null => controls.failures < Threshold

\* What the operator has been told, followed by the notifications and the control
\* events that still wait to be drained, is the state of the kill switch and of the
\* breaker: no change is lost or reordered on its way through the two queues.
OperatorCatchesUp ==
    LET told == HearAll(heard, [i \in DOMAIN obs.notices |-> obs.notices[i][1]])
        view == HearAll(told, controls.events)
    IN  /\ view.kill = controls.kill
        /\ (view.breaker = "open") = (controls.openFor # Null)

\* An order that does not enlarge its position is refused by a core rule only if the
\* account is already past that very limit: the rules never keep an account that is
\* within its limits from reducing risk (CoreRiskRuleEngine.evaluate).
ReductionNotBlocked ==
    verdict # Null =>
        LET c == verdict.order
            projected == c.position + SignedQuantity(c)
        IN  Abs(projected) <= Abs(c.position) =>
                /\ "position_limit" \in verdict.blocked => Abs(c.position) > MaxPositionAbs
                /\ "symbol_notional_limit" \in verdict.blocked =>
                       Abs(c.position) * c.price > MaxSymbolNotional
                /\ "leverage_limit" \in verdict.blocked =>
                       ~ WithinLeverage(Larger(0, c.exposure), c.equity)
=============================================================================
