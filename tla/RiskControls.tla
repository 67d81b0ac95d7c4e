---------------------------- MODULE RiskControls ----------------------------
(***************************************************************************)
(* The kill switch and the circuit breaker of the OMS (RiskControlPlane):  *)
(* one record of state, and one operator from record to record per method. *)
(* The instant the breaker closes again is kept as the time that is left   *)
(* until it (openFor), so that no clock is needed: 0 is an instant that    *)
(* has come and that no method has noticed yet.                            *)
(***************************************************************************)
EXTENDS Integers, Sequences

CONSTANTS
    Null,       \* None
    Threshold,  \* circuit_breaker_threshold
    Cooldown    \* circuit_breaker_cooldown_seconds

ASSUME ThresholdAssumption == Threshold \in Nat \ {0}
ASSUME CooldownAssumption == Cooldown \in Nat \ {0}
ASSUME NullAssumption == Null \notin Int

ControlEvents == {"kill_switch.enabled", "kill_switch.disabled", "failure_recorded",
                  "tripped", "reset", "auto_reset"}

ControlType == [kill : BOOLEAN, failures : Nat, openFor : Nat \union {Null},
                events : Seq(ControlEvents)]

RiskControlPlane == [kill |-> FALSE, failures |-> 0, openFor |-> Null, events |-> <<>>]

Emit(rc, event) == [rc EXCEPT !.events = Append(@, event)]

EnableKillSwitch(rc) ==
    IF rc.kill THEN rc ELSE Emit([rc EXCEPT !.kill = TRUE], "kill_switch.enabled")

DisableKillSwitch(rc) ==
    IF rc.kill THEN Emit([rc EXCEPT !.kill = FALSE], "kill_switch.disabled") ELSE rc

\* An absent cooldown, and a cooldown of 0, stand for the configured one.
TripCircuitBreaker(rc, cooldown) ==
    LET seconds == IF cooldown \in {Null, 0} THEN Cooldown ELSE cooldown
    IN  Emit([rc EXCEPT !.openFor = seconds], "tripped")

RecordFailure(rc) ==
    LET counted == Emit([rc EXCEPT !.failures = @ + 1], "failure_recorded")
    IN  IF counted.failures >= Threshold THEN TripCircuitBreaker(counted, Null) ELSE counted

RecordSuccess(rc) == [rc EXCEPT !.failures = 0]

Close(rc, event) == Emit([rc EXCEPT !.openFor = Null, !.failures = 0], event)

ResetCircuitBreaker(rc) ==
    IF rc.openFor = Null /\ rc.failures = 0 THEN rc ELSE Close(rc, "reset")

\* Slip: the breaker closes again with the failures that opened it still counted.
AutoResetKeepsCount(rc) ==
    IF rc.openFor = 0 THEN Emit([rc EXCEPT !.openFor = Null], "auto_reset") ELSE rc

AutoResetIfExpired(rc) == IF rc.openFor = 0 THEN Close(rc, "auto_reset") ELSE rc

IsCircuitBreakerOpen(rc) == rc.openFor # Null /\ rc.openFor # 0

\* What evaluate_order_allowed answers once it has called AutoResetIfExpired.
ControlBlockers(rc) == (IF rc.kill THEN {"kill_switch"} ELSE {})
                       \union (IF IsCircuitBreakerOpen(rc) THEN {"circuit_breaker"} ELSE {})

DrainEvents(rc) == [rc EXCEPT !.events = <<>>]

Elapse(rc) == [rc EXCEPT !.openFor = IF @ \in {Null, 0} THEN @ ELSE @ - 1]
=============================================================================
