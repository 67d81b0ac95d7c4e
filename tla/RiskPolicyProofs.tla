-------------------------- MODULE RiskPolicyProofs --------------------------
(***************************************************************************)
(* Proofs about the risk policy, for every threshold, cooldown, limit and  *)
(* set of orders: the circuit breaker is never left closed with enough     *)
(* failures counted to open it, and the core rules never refuse an order   *)
(* that reduces a position within its limits.                              *)
(***************************************************************************)
EXTENDS RiskPolicy, TLAPS

-----------------------------------------------------------------------------
(* The circuit breaker *)

BreakerInv == controls \in ControlType /\ BreakerArmed

\* Initially nothing has failed and the breaker is closed (RiskControlPlane.__init__).
LEMMA BreakerInit == RiskInit => BreakerInv
  BY ThresholdAssumption
  DEF RiskInit, RiskControlPlane, ControlType, BreakerInv, BreakerArmed

\* An event is queued and nothing else changes (_emit).
LEMMA EmitKeeps ==
    ASSUME NEW rc \in ControlType, NEW event \in ControlEvents
    PROVE  /\ Emit(rc, event) \in ControlType
           /\ Emit(rc, event).failures = rc.failures
           /\ Emit(rc, event).openFor = rc.openFor
<1>1. rc.events \in Seq(ControlEvents)
  BY DEF ControlType
<1>2. Append(rc.events, event) \in Seq(ControlEvents)
  BY <1>1
<1> QED
  BY <1>2 DEF Emit, ControlType

\* Whatever the cooldown passed, tripping leaves a deadline, since an absent or zero
\* cooldown stands for the configured one (trip_circuit_breaker).
LEMMA TripOpens ==
    ASSUME NEW rc \in ControlType, NEW cooldown \in Nat \union {Null}
    PROVE  /\ TripCircuitBreaker(rc, cooldown) \in ControlType
           /\ TripCircuitBreaker(rc, cooldown).openFor # Null
<1> DEFINE seconds == IF cooldown \in {Null, 0} THEN Cooldown ELSE cooldown
           open == [rc EXCEPT !.openFor = seconds]
<1>1. "tripped" \in ControlEvents
  BY DEF ControlEvents
<1>2. seconds \in Nat /\ seconds # Null
  BY CooldownAssumption, NullAssumption
<1>3. open \in ControlType /\ open.openFor = seconds
  BY <1>2 DEF ControlType
<1>4. TripCircuitBreaker(rc, cooldown) = Emit(open, "tripped")
  BY DEF TripCircuitBreaker
<1> HIDE DEF open, seconds
<1> QED
  BY <1>1, <1>2, <1>3, <1>4, EmitKeeps

\* Closing the breaker forgets the failures that were counted.
LEMMA CloseArms ==
    ASSUME NEW rc \in ControlType, NEW event \in ControlEvents
    PROVE  Close(rc, event) \in ControlType /\ Close(rc, event).failures = 0
<1> DEFINE closed == [rc EXCEPT !.openFor = Null, !.failures = 0]
<1>1. closed \in ControlType /\ closed.failures = 0
  BY DEF ControlType
<1>2. Close(rc, event) = Emit(closed, event)
  BY DEF Close
<1> HIDE DEF closed
<1> QED
  BY <1>1, <1>2, EmitKeeps

\* Every operation of the policy keeps the breaker armed.
LEMMA BreakerStep == BreakerInv /\ [RiskNext]_riskVars => BreakerInv'
<1> SUFFICES ASSUME BreakerInv, [RiskNext]_riskVars PROVE BreakerInv'
  OBVIOUS
<1> USE DEF BreakerInv, BreakerArmed
<1>1. CASE UNCHANGED riskVars
  BY <1>1 DEF riskVars
<1>2. CASE SwitchKill
  <2>1. \A k \in BOOLEAN : /\ [controls EXCEPT !.kill = k] \in ControlType
                           /\ [controls EXCEPT !.kill = k].failures = controls.failures
                           /\ [controls EXCEPT !.kill = k].openFor = controls.openFor
    BY DEF ControlType
  <2>2. {"kill_switch.enabled", "kill_switch.disabled"} \subseteq ControlEvents
    BY DEF ControlEvents
  <2>3. \/ controls' = controls
        \/ controls' = Emit([controls EXCEPT !.kill = TRUE], "kill_switch.enabled")
        \/ controls' = Emit([controls EXCEPT !.kill = FALSE], "kill_switch.disabled")
    BY <1>2 DEF SwitchKill, EnableKillSwitch, DisableKillSwitch
  <2>4. ASSUME NEW k \in BOOLEAN, NEW event \in ControlEvents,
               controls' = Emit([controls EXCEPT !.kill = k], event)
        PROVE  BreakerInv'
    <3> DEFINE switched == [controls EXCEPT !.kill = k]
    <3>1. /\ switched \in ControlType
          /\ switched.failures = controls.failures /\ switched.openFor = controls.openFor
      BY <2>1
    <3>2. controls' = Emit(switched, event)
      BY <2>4
    <3> HIDE DEF switched
    <3> QED
      BY <3>1, <3>2, EmitKeeps
  <2> QED
    BY <2>2, <2>3, <2>4
<1>3. CASE OrderFailed
  <2> DEFINE counted == Emit([controls EXCEPT !.failures = @ + 1], "failure_recorded")
  <2>1. counted \in ControlType
    <3>1. [controls EXCEPT !.failures = @ + 1] \in ControlType
      BY DEF ControlType
    <3> QED
      BY <3>1, EmitKeeps DEF ControlEvents
  <2>2. controls' = IF counted.failures >= Threshold THEN TripCircuitBreaker(counted, Null)
                    ELSE counted
    BY <1>3 DEF OrderFailed, RecordFailure
  <2> HIDE DEF counted
  <2>3. CASE counted.failures >= Threshold
    <3>1. controls' = TripCircuitBreaker(counted, Null)
      BY <2>2, <2>3
    <3> QED
      BY <2>1, <3>1, TripOpens
  <2>4. CASE ~ (counted.failures >= Threshold)
    <3>1. controls' = counted /\ counted.failures \in Nat
      BY <2>1, <2>2, <2>4 DEF ControlType
    <3> QED
      BY <2>1, <2>4, <3>1, ThresholdAssumption
  <2> QED
    BY <2>3, <2>4
<1>4. CASE OrderSucceeded
  BY <1>4, ThresholdAssumption DEF OrderSucceeded, RecordSuccess, ControlType
<1>5. CASE ManualTrip
  <2> PICK cooldown \in ManualCooldowns : controls' = TripCircuitBreaker(controls, cooldown)
    BY <1>5 DEF ManualTrip
  <2>1. cooldown \in Nat \union {Null}
    BY CasesAssumption
  <2> QED
    BY <2>1, TripOpens
<1>6. CASE ManualReset
  <2>1. controls' = controls \/ controls' = Close(controls, "reset")
    BY <1>6 DEF ManualReset, ResetCircuitBreaker
  <2> QED
    BY <2>1, CloseArms, ThresholdAssumption DEF ControlEvents
<1>7. CASE TimePasses
  BY <1>7, NullAssumption DEF TimePasses, Elapse, ControlType
<1>8. CASE EvaluateOrder
  <2>1. controls' = controls \/ controls' = Close(controls, "auto_reset")
    BY <1>8 DEF EvaluateOrder, AutoResetIfExpired
  <2> QED
    BY <2>1, CloseArms, ThresholdAssumption DEF ControlEvents
<1>9. CASE DrainControlEvents
  <2>1. <<>> \in Seq(ControlEvents)
    OBVIOUS
  <2> QED
    BY <1>9, <2>1 DEF DrainControlEvents, DrainEvents, ControlType
<1>10. CASE DrainNotifications
  BY <1>10 DEF DrainNotifications
<1> QED
  BY <1>1, <1>2, <1>3, <1>4, <1>5, <1>6, <1>7, <1>8, <1>9, <1>10 DEF RiskNext

\* The breaker is armed in every reachable state: closed, it counts fewer failures than
\* its threshold (record_failure, _auto_reset_if_expired).
THEOREM BreakerStaysArmed == RiskSpec => []BreakerArmed
<1>1. BreakerInv => BreakerArmed
  BY DEF BreakerInv
<1> QED
  BY BreakerInit, BreakerStep, <1>1, PTL DEF RiskSpec

-----------------------------------------------------------------------------
(* The core rules *)

\* A core rule blocks an order exactly when the order breaks its limit; the guards and
\* the controls block under names of their own (CoreRiskRuleEngine.evaluate,
\* _merge_blocked).
LEMMA CoreBlocks ==
    ASSUME NEW c, NEW rc
    PROVE  LET projected == Abs(c.position + SignedQuantity(c))
           IN  /\ "position_limit" \in MergeBlocked(c, rc) => ~ (projected <= MaxPositionAbs)
               /\ "symbol_notional_limit" \in MergeBlocked(c, rc) =>
                      ~ (projected * c.price <= MaxSymbolNotional)
               /\ "leverage_limit" \in MergeBlocked(c, rc) =>
                      ~ WithinLeverage(ProjectedExposure(c), c.equity)
<1>1. \A check \in {"position_limit", "symbol_notional_limit", "leverage_limit"} :
         check \in MergeBlocked(c, rc) => check \in CoreBlockers(c)
  BY DEF MergeBlocked, GuardBlockers, ControlBlockers
<1> QED
  BY <1>1 DEF CoreBlockers

\* A smaller position is worth no more than a larger one.
LEMMA WorthIsMonotone ==
    ASSUME NEW a \in Nat, NEW b \in Nat, NEW p \in Nat, a <= b
    PROVE  a * p \in Nat /\ b * p \in Nat /\ a * p <= b * p
<1>1. PICK d \in Nat : b = a + d
  <2>1. b - a \in Nat /\ b = a + (b - a)
    OBVIOUS
  <2> QED
    BY <2>1
<1>2. d * p \in Nat /\ a * p \in Nat
  OBVIOUS
<1>3. b * p = a * p + d * p
  BY <1>1
<1> QED
  BY <1>2, <1>3

\* An order that does not enlarge its position does not raise the projected exposure
\* (_projected_total_exposure).
LEMMA ExposureShrinks ==
    ASSUME NEW c \in Cases, Abs(c.position + SignedQuantity(c)) <= Abs(c.position)
    PROVE  /\ ProjectedExposure(c) \in Nat
           /\ ProjectedExposure(c) <= Larger(0, c.exposure)
<1> DEFINE before == Abs(c.position)
           after == Abs(c.position + SignedQuantity(c))
<1>1. /\ c.position \in Int /\ c.quantity \in Nat /\ c.price \in Nat /\ c.exposure \in Int
  BY CasesAssumption
<1>2. before \in Nat /\ after \in Nat
  BY <1>1 DEF Abs, SignedQuantity
<1>3. ProjectedExposure(c)
        = Larger(0, Larger(0, c.exposure) - before * c.price + after * c.price)
  BY DEF ProjectedExposure
<1>4. after <= before
  OBVIOUS
<1> HIDE DEF before, after
<1>5. /\ after * c.price \in Nat /\ before * c.price \in Nat
      /\ after * c.price <= before * c.price
  BY <1>1, <1>2, <1>4, WorthIsMonotone
<1> DEFINE x == after * c.price
           y == before * c.price
<1>6. x \in Nat /\ y \in Nat /\ x <= y
  BY <1>5
<1>7. ProjectedExposure(c) = Larger(0, Larger(0, c.exposure) - y + x)
  BY <1>3
<1> HIDE DEF x, y
<1> QED
  BY <1>1, <1>6, <1>7 DEF Larger

\* What the rules refuse of an order that does not enlarge its position, they would
\* refuse of the account as it stands.
LEMMA ReductionJudged ==
    ASSUME NEW c \in Cases, NEW rc,
           Abs(c.position + SignedQuantity(c)) <= Abs(c.position)
    PROVE  /\ "position_limit" \in MergeBlocked(c, rc) => Abs(c.position) > MaxPositionAbs
           /\ "symbol_notional_limit" \in MergeBlocked(c, rc) =>
                  Abs(c.position) * c.price > MaxSymbolNotional
           /\ "leverage_limit" \in MergeBlocked(c, rc) =>
                  ~ WithinLeverage(Larger(0, c.exposure), c.equity)
<1> DEFINE before == Abs(c.position)
           after == Abs(c.position + SignedQuantity(c))
<1>1. /\ c.position \in Int /\ c.quantity \in Nat /\ c.price \in Nat /\ c.exposure \in Int
      /\ c.equity \in Int
  BY CasesAssumption
<1>2. before \in Nat /\ after \in Nat /\ after <= before
  BY <1>1 DEF Abs, SignedQuantity
<1>3. /\ "position_limit" \in MergeBlocked(c, rc) => ~ (after <= MaxPositionAbs)
      /\ "symbol_notional_limit" \in MergeBlocked(c, rc) =>
             ~ (after * c.price <= MaxSymbolNotional)
      /\ "leverage_limit" \in MergeBlocked(c, rc) =>
             ~ WithinLeverage(ProjectedExposure(c), c.equity)
  BY CoreBlocks
<1>4. /\ ProjectedExposure(c) \in Nat
      /\ ProjectedExposure(c) <= Larger(0, c.exposure)
  BY ExposureShrinks
<1>5. WithinLeverage(Larger(0, c.exposure), c.equity) =>
          WithinLeverage(ProjectedExposure(c), c.equity)
  <2> DEFINE limit == MaxLeverage * c.equity
             low == ProjectedExposure(c)
             high == Larger(0, c.exposure)
  <2>1. limit \in Int /\ high \in Int /\ low \in Nat /\ low <= high
    BY <1>1, <1>4, LimitsAssumption DEF Larger
  <2>2. /\ WithinLeverage(low, c.equity) <=> IF c.equity <= 0 THEN low <= 0 ELSE low <= limit
        /\ WithinLeverage(high, c.equity) <=> IF c.equity <= 0 THEN high <= 0 ELSE high <= limit
    BY DEF WithinLeverage
  <2> HIDE DEF limit, low, high
  <2>3. WithinLeverage(high, c.equity) => WithinLeverage(low, c.equity)
    BY <1>1, <2>1, <2>2
  <2> QED
    BY <2>3 DEF low, high
<1> HIDE DEF before, after
<1>6. /\ after * c.price \in Nat /\ before * c.price \in Nat
      /\ after * c.price <= before * c.price
  BY <1>1, <1>2, WorthIsMonotone
<1>7. "position_limit" \in MergeBlocked(c, rc) => before > MaxPositionAbs
  BY <1>2, <1>3, LimitsAssumption
<1>8. "symbol_notional_limit" \in MergeBlocked(c, rc) => before * c.price > MaxSymbolNotional
  <2> DEFINE x == after * c.price
             y == before * c.price
  <2>1. x \in Nat /\ y \in Nat /\ x <= y
    BY <1>6
  <2>2. "symbol_notional_limit" \in MergeBlocked(c, rc) => ~ (x <= MaxSymbolNotional)
    BY <1>3
  <2> HIDE DEF x, y
  <2>3. "symbol_notional_limit" \in MergeBlocked(c, rc) => y > MaxSymbolNotional
    BY <2>1, <2>2, LimitsAssumption
  <2> QED
    BY <2>3 DEF y
<1> QED
  BY <1>3, <1>5, <1>7, <1>8 DEF before

\* The rules never keep an account that is within its limits from reducing its position,
\* for every set of orders, prices, positions and limits.
THEOREM ReductionAllowed == RiskSpec => []ReductionNotBlocked
<1>1. RiskInit => ReductionNotBlocked
  BY DEF RiskInit, ReductionNotBlocked
<1>2. ReductionNotBlocked /\ [RiskNext]_riskVars => ReductionNotBlocked'
  <2> SUFFICES ASSUME ReductionNotBlocked, [RiskNext]_riskVars PROVE ReductionNotBlocked'
    OBVIOUS
  <2>1. CASE verdict' = verdict
    BY <2>1 DEF ReductionNotBlocked
  <2>2. CASE EvaluateOrder
    <3>1. PICK c \in Cases : verdict' = [order |-> c,
                                        blocked |-> MergeBlocked(c, AutoResetIfExpired(controls))]
      BY <2>2 DEF EvaluateOrder
    <3> QED
      BY <3>1, ReductionJudged DEF ReductionNotBlocked
  <2> QED
    BY <2>1, <2>2 DEF RiskNext, riskVars, SwitchKill, OrderFailed, OrderSucceeded, ManualTrip,
      ManualReset, TimePasses, DrainControlEvents, DrainNotifications, Room
<1> QED
  BY <1>1, <1>2, PTL DEF RiskSpec
=============================================================================
