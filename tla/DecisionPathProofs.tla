------------------------- MODULE DecisionPathProofs --------------------------
(***************************************************************************)
(* Theorem about DecisionPath, for every strategy, payload and LLM reply:  *)
(* no intent leaves the orchestrator beyond the limits of its strategy.    *)
(***************************************************************************)
EXTENDS DecisionPath, TLAPS

WorkFields == {"id", "mode", "payload", "ctx", "plan", "risk", "decision", "guardrail",
               "status", "lifecycle", "intent", "sent"}

\* What an intent on queue k satisfies.
IntentOK(intent, k) ==
    /\ RouteExecutionIntent(intent.mode) = k
    /\ intent.symbol = Strategy.symbol
    /\ intent.action \in Executable \intersect Strategy.allowed_actions
    /\ intent.action = "BUY" => intent.quantity > 0
    /\ intent.action = "SELL" => intent.quantity < 0
    /\ intent.confidence >= Strategy.risk_min_confidence
    /\ Abs(intent.quantity) * AtLeast(intent.mid_price, 0) <= Strategy.risk_max_notional_usd * Unit

PositionOK(ctx, quantity) ==
    /\ Abs(ctx.current_position + quantity) <= Strategy.risk_max_position_size * Unit
    /\ ProjectedLeverageWithin(ctx.current_position + quantity, AtLeast(ctx.mid_price, 0))

\* The guardrail result that stands when the intent is published was computed from the very
\* context, risk decision and action that the intent is built from.
LimitInv ==
    /\ DOMAIN work = WorkFields
    /\ DOMAIN intents = RoutingKeys
    /\ \A k \in RoutingKeys : \E S : intents[k] \in Seq(S)
    /\ pc \in {"status", "intent"} =>
           work.guardrail = Validate(work.ctx, work.risk, work.decision)
    /\ work.intent # Null => pc = "archive" /\ PositionOK(work.ctx, work.intent.quantity)
    /\ \A k \in RoutingKeys : \A i \in DOMAIN intents[k] :
           intents[k][i].id # DirectId => IntentOK(intents[k][i], k)

LEMMA LimitInvImplies == LimitInv => IntentWithinLimits
BY DEF LimitInv, IntentWithinLimits, IntentOK, PositionOK

\* What the guardrails let through.
LEMMA GuardrailLimits ==
    ASSUME NEW ctx, NEW risk, NEW decision, Validate(ctx, risk, decision).allowed,
           decision.action \in Executable
    PROVE  /\ decision.action \in Strategy.allowed_actions
           /\ QuantitySemanticsValid(decision.action, decision.quantity)
           /\ ctx.symbol = Strategy.symbol
           /\ decision.confidence >= Strategy.risk_min_confidence
           /\ Abs(decision.quantity) * AtLeast(ctx.mid_price, 0)
                <= Strategy.risk_max_notional_usd * Unit
           /\ PositionOK(ctx, decision.quantity)
<1> DEFINE mid == AtLeast(ctx.mid_price, 0)
           projected == ctx.current_position + decision.quantity
           live == decision.action \in Executable
           schema == decision.action \in Strategy.allowed_actions
           semantics == QuantitySemanticsValid(decision.action, decision.quantity)
           symbol == ctx.symbol = Strategy.symbol
           confidence == live => decision.confidence >= Strategy.risk_min_confidence
           alignment == live => risk.approved
           notional == live => Abs(decision.quantity) * mid
                                 <= Strategy.risk_max_notional_usd * Unit
           position == live => Abs(projected) <= Strategy.risk_max_position_size * Unit
           leverage == live => ProjectedLeverageWithin(projected, mid)
           passed == [action_schema |-> schema, quantity_semantics |-> semantics,
                      symbol_constraint |-> symbol, confidence_threshold |-> confidence,
                      risk_alignment |-> alignment, notional_limit |-> notional,
                      position_limit |-> position, leverage_limit |-> leverage]
<1>1. GuardrailBlockedBy(ctx, risk, decision) = {code \in DOMAIN passed : ~passed[code]}
  BY DEF GuardrailBlockedBy
<1>2. {code \in DOMAIN passed : ~passed[code]} = {}
  BY <1>1, ZenonT(60) DEF Validate
<1> HIDE DEF schema, semantics, symbol, confidence, alignment, notional, position, leverage
<1>3. schema /\ semantics /\ symbol /\ confidence /\ notional /\ position /\ leverage
  BY <1>2
<1> USE DEF schema, semantics, symbol, confidence, alignment, notional, position, leverage
<1> QED
  BY <1>3 DEF PositionOK

\* An intent is built from locals that the guardrails let through.
LEMMA BuiltIntentOK ==
    ASSUME LimitInv, pc = "intent", ShouldPublishIntent(work)
    PROVE  /\ IntentOK(BuildIntent(work), RouteExecutionIntent(work.mode))
           /\ PositionOK(work.ctx, BuildIntent(work).quantity)
<1>1. /\ Validate(work.ctx, work.risk, work.decision).allowed
      /\ work.decision.action \in Executable
  BY DEF LimitInv, ShouldPublishIntent
<1>2. /\ work.decision.action \in Strategy.allowed_actions
      /\ QuantitySemanticsValid(work.decision.action, work.decision.quantity)
      /\ work.ctx.symbol = Strategy.symbol
      /\ work.decision.confidence >= Strategy.risk_min_confidence
      /\ Abs(work.decision.quantity) * AtLeast(work.ctx.mid_price, 0)
           <= Strategy.risk_max_notional_usd * Unit
      /\ PositionOK(work.ctx, work.decision.quantity)
  BY <1>1, GuardrailLimits
<1>3. /\ work.decision.action = "BUY" => work.decision.quantity > 0
      /\ work.decision.action = "SELL" => work.decision.quantity < 0
  BY <1>2 DEF QuantitySemanticsValid
<1> DEFINE intent == BuildIntent(work)
<1>4. /\ intent.mode = work.mode /\ intent.symbol = work.ctx.symbol
      /\ intent.action = work.decision.action /\ intent.quantity = work.decision.quantity
      /\ intent.confidence = work.decision.confidence /\ intent.mid_price = work.ctx.mid_price
  BY DEF BuildIntent
<1> HIDE DEF intent
<1> QED
  BY <1>1, <1>2, <1>3, <1>4 DEF IntentOK, intent

\* Publishing appends to one queue, consuming takes the head of one.
LEMMA QueueAppend ==
    ASSUME NEW S, NEW q \in Seq(S), NEW e
    PROVE  /\ Append(q, e) \in Seq(S \union {e})
           /\ \A i \in DOMAIN Append(q, e) : Append(q, e)[i] = e \/ (i \in DOMAIN q /\ Append(q, e)[i] = q[i])
<1>1. q \in Seq(S \union {e})
  OBVIOUS
<1> QED
  BY <1>1

LEMMA QueueTail ==
    ASSUME NEW S, NEW q \in Seq(S), q # <<>>
    PROVE  /\ Tail(q) \in Seq(S)
           /\ \A i \in DOMAIN Tail(q) : i + 1 \in DOMAIN q /\ Tail(q)[i] = q[i + 1]
OBVIOUS

LEMMA LimitInvInit == Init => LimitInv
<1> SUFFICES ASSUME Init PROVE LimitInv
  OBVIOUS
<1> DEFINE waiting == [direct EXCEPT !.id = DirectId]
<1>1. DOMAIN work = WorkFields /\ work.intent = Null /\ pc = "idle"
  BY DEF Init, OrchInit, NoWork, WorkFields
<1>2. DOMAIN intents = RoutingKeys
  BY DEF Init, OrchInit
<1>3. \A k \in RoutingKeys : intents[k] = <<>> \/ (direct # Null /\ intents[k] = <<waiting>>)
  BY DEF Init, OrchInit
<1>4. direct # Null => waiting.id = DirectId
  BY DirectAssumption DEF Init
<1> HIDE DEF waiting
<1>5. <<>> \in Seq({waiting}) /\ <<waiting>> \in Seq({waiting})
  OBVIOUS
<1>6. ASSUME NEW k \in RoutingKeys
      PROVE  /\ intents[k] \in Seq({waiting})
             /\ \A i \in DOMAIN intents[k] : intents[k][i].id = DirectId
  <2>1. CASE intents[k] = <<>>
    BY <1>5, <2>1
  <2>2. CASE direct # Null /\ intents[k] = <<waiting>>
    BY <1>4, <1>5, <2>2
  <2> QED
    BY <1>3, <2>1, <2>2
<1> QED
  BY <1>1, <1>2, <1>6 DEF LimitInv

LEMMA LimitInvStep == LimitInv /\ [Next]_vars => LimitInv'
<1> SUFFICES ASSUME LimitInv, [Next]_vars PROVE LimitInv'
  OBVIOUS
<1> USE DEF WorkFields
<1>0. DOMAIN NoWork = WorkFields /\ NoWork.intent = Null
  BY DEF NoWork
<1>1. CASE UNCHANGED <<work, pc, intents>>
  BY <1>1 DEF LimitInv, IntentOK, PositionOK
<1>2. CASE /\ UNCHANGED intents /\ DOMAIN work' = WorkFields
           /\ pc' \notin {"status", "intent"} /\ work'.intent = Null
  BY <1>2 DEF LimitInv, IntentOK, PositionOK
<1>3. CASE Abort /\ UNCHANGED intents
  BY <1>0, <1>2, <1>3 DEF Abort
<1>4. pc # "archive" => work.intent = Null
  BY DEF LimitInv
<1>5. DOMAIN work = WorkFields
  BY DEF LimitInv
<1>6. CASE ConsumeMarketEvent
  BY <1>0, <1>1, <1>2, <1>6, ZenonT(60) DEF ConsumeMarketEvent, Goto, NoWork
<1>7. CASE ReadMemory \/ EnrichContext
  BY <1>2, <1>4, <1>5, <1>7 DEF ReadMemory, EnrichContext, Goto
<1>8. CASE \E reply \in PlanReplies : MakePlan(reply)
  BY <1>2, <1>4, <1>5, <1>8 DEF MakePlan, Goto
<1>9. CASE \E reply \in RiskReplies : AssessRisk(reply)
  BY <1>2, <1>4, <1>5, <1>9 DEF AssessRisk, Goto
<1>10. CASE \E reply \in ExecReplies : DecideExecution(reply)
  BY <1>2, <1>4, <1>5, <1>10 DEF DecideExecution, Goto
<1>11. CASE CheckGuardrails
  <2> DEFINE guardrail == Validate(work.ctx, work.risk, work.decision)
  <2>1. CASE Abort
    BY <1>3, <1>11, <2>1 DEF CheckGuardrails
  <2>2. CASE Goto("status", [work EXCEPT !.guardrail = guardrail])
    <3>1. /\ pc' = "status" /\ work' = [work EXCEPT !.guardrail = guardrail]
          /\ UNCHANGED intents /\ pc = "guardrail"
      BY <1>11, <2>2 DEF Goto, CheckGuardrails
    <3>2. /\ DOMAIN work' = WorkFields /\ work'.guardrail = guardrail /\ work'.intent = Null
          /\ work'.ctx = work.ctx /\ work'.risk = work.risk /\ work'.decision = work.decision
      BY <1>4, <1>5, <3>1
    <3> HIDE DEF guardrail
    <3>3. work'.guardrail = Validate(work'.ctx, work'.risk, work'.decision)
      BY <3>2 DEF guardrail
    <3> QED
      BY <3>1, <3>2, <3>3 DEF LimitInv, IntentOK
  <2> QED
    BY <1>11, <2>1, <2>2 DEF CheckGuardrails
<1>12. CASE RecordStatus
  <2>1. /\ pc = "status" /\ pc' = "intent" /\ UNCHANGED intents
        /\ DOMAIN work' = WorkFields /\ work'.guardrail = work.guardrail /\ work'.intent = Null
        /\ work'.ctx = work.ctx /\ work'.risk = work.risk /\ work'.decision = work.decision
    BY <1>4, <1>5, <1>12 DEF RecordStatus, Goto
  <2>2. work'.guardrail = Validate(work'.ctx, work'.risk, work'.decision)
    BY <2>1 DEF LimitInv
  <2> QED
    BY <2>1, <2>2 DEF LimitInv, IntentOK
<1>13. ASSUME NEW confirmed \in BOOLEAN, PublishIntent(confirmed) PROVE LimitInv'
  <2> DEFINE key == RouteExecutionIntent(work.mode)
             built == BuildIntent(work)
  <2>1. /\ pc = "intent" /\ ShouldPublishIntent(work)
        /\ intents' = [intents EXCEPT ![key] = Append(@, built)]
    BY <1>13 DEF PublishIntent
  <2>2. key \in RoutingKeys
    BY DEF RouteExecutionIntent, RoutingKeys
  <2>3. IntentOK(built, key) /\ PositionOK(work.ctx, built.quantity)
    BY <2>1, BuiltIntentOK
  <2>4. DOMAIN intents = RoutingKeys
    BY DEF LimitInv
  <2>5. DOMAIN work' = WorkFields
    BY <1>0, <1>5, <1>13, ZenonT(60) DEF PublishIntent, Goto, Abort
  <2>6. pc' \notin {"status", "intent"}
    BY <1>13 DEF PublishIntent, Goto, Abort
  <2>7. work'.intent # Null => pc' = "archive" /\ PositionOK(work'.ctx, work'.intent.quantity)
    <3>1. CASE confirmed
      <4>1. pc' = "archive" /\ work'.ctx = work.ctx /\ work'.intent = built
        BY <1>5, <1>13, <3>1, ZenonT(60) DEF PublishIntent, Goto
      <4> HIDE DEF built
      <4> QED
        BY <2>3, <4>1
    <3>2. CASE ~confirmed
      BY <1>0, <1>13, <3>2 DEF PublishIntent, Abort
    <3> QED
      BY <3>1, <3>2
  <2> HIDE DEF key, built
  <2>8. DOMAIN intents' = RoutingKeys
    BY <2>1, <2>4
  <2>9. ASSUME NEW k \in RoutingKeys
        PROVE  /\ \E S : intents'[k] \in Seq(S)
               /\ \A i \in DOMAIN intents'[k] :
                      intents'[k][i].id # DirectId => IntentOK(intents'[k][i], k)
    <3>1. PICK S : intents[k] \in Seq(S)
      BY DEF LimitInv
    <3>2. \A i \in DOMAIN intents[k] : intents[k][i].id # DirectId => IntentOK(intents[k][i], k)
      BY DEF LimitInv
    <3>3. CASE k # key
      <4>1. intents'[k] = intents[k]
        BY <2>1, <2>4, <3>3
      <4> QED
        BY <3>1, <3>2, <4>1
    <3>4. CASE k = key
      <4>1. intents'[k] = Append(intents[k], built)
        BY <2>1, <2>4, <3>4
      <4>2. /\ Append(intents[k], built) \in Seq(S \union {built})
            /\ \A i \in DOMAIN Append(intents[k], built) :
                   \/ Append(intents[k], built)[i] = built
                   \/ i \in DOMAIN intents[k] /\ Append(intents[k], built)[i] = intents[k][i]
        BY <3>1, QueueAppend
      <4> QED
        BY <2>3, <3>2, <3>4, <4>1, <4>2
    <3> QED
      BY <3>3, <3>4
  <2> QED
    BY <2>5, <2>6, <2>7, <2>8, <2>9 DEF LimitInv
<1>14. CASE SkipIntent
  BY <1>2, <1>4, <1>14 DEF SkipIntent, Goto, LimitInv
<1>15. CASE ArchiveSummary
  BY <1>2, <1>5, <1>15 DEF ArchiveSummary, Goto
<1>16. CASE WriteSummarySlot
  BY <1>2, <1>4, <1>5, <1>16 DEF WriteSummarySlot, Goto
<1>17. ASSUME NEW confirmed \in BOOLEAN, Announce(confirmed) PROVE LimitInv'
  BY <1>0, <1>2, <1>4, <1>5, <1>17 DEF Announce, Goto, Abort
<1>18. CASE HandlerReturns
  BY <1>0, <1>2, <1>4, <1>5, <1>18 DEF HandlerReturns, Return, Goto
<1>19. CASE PersistTrace
  BY <1>0, <1>2, <1>4, <1>5, <1>19 DEF PersistTrace, Goto
<1>20. CASE AwaitFails
  BY <1>3, <1>20 DEF AwaitFails
<1>21. CASE OrchEnv \/ LoseMarketEvent
  BY <1>1, <1>21 DEF OrchEnv, MarketEvent, LoseMarketEvent
<1>22. CASE SimConsume \/ SimLoses
  <2>1. /\ UNCHANGED <<work, pc>> /\ MockQueue # <<>>
        /\ intents' = [intents EXCEPT !["execution.intent.mock"] = Tail(@)]
    BY <1>22 DEF SimConsume, SimLoses
  <2>2. DOMAIN intents = RoutingKeys
    BY DEF LimitInv
  <2>3. ASSUME NEW k \in RoutingKeys
        PROVE  /\ \E S : intents'[k] \in Seq(S)
               /\ \A i \in DOMAIN intents'[k] :
                      intents'[k][i].id # DirectId => IntentOK(intents'[k][i], k)
    <3>1. PICK S : intents[k] \in Seq(S)
      BY DEF LimitInv
    <3>2. \A i \in DOMAIN intents[k] : intents[k][i].id # DirectId => IntentOK(intents[k][i], k)
      BY DEF LimitInv
    <3>3. CASE k # "execution.intent.mock"
      <4>1. intents'[k] = intents[k]
        BY <2>1, <2>2, <3>3
      <4> QED
        BY <3>1, <3>2, <4>1
    <3>4. CASE k = "execution.intent.mock"
      <4>1. intents'[k] = Tail(intents[k]) /\ intents[k] # <<>>
        BY <2>1, <2>2, <3>4 DEF MockQueue
      <4>2. /\ Tail(intents[k]) \in Seq(S)
            /\ \A i \in DOMAIN Tail(intents[k]) :
                   i + 1 \in DOMAIN intents[k] /\ Tail(intents[k])[i] = intents[k][i + 1]
        BY <3>1, <4>1, QueueTail
      <4> QED
        BY <3>2, <4>1, <4>2
    <3> QED
      BY <3>3, <3>4
  <2> QED
    BY <2>1, <2>2, <2>3 DEF LimitInv
<1>23. CASE \E delivered, confirmed \in BOOLEAN : SimPublish(delivered, confirmed)
  BY <1>1, <1>23 DEF SimPublish
<1>24. CASE ReplayStep \/ \E d \in Decisions : LoadTraces(d)
  BY <1>1, <1>24 DEF ReplayStep, LoadTraces, LoadAgentRuns, LoadAgentMessages, LoadSummaries,
    ReplayDecision, orchVars
<1>25. CASE UNCHANGED vars
  BY <1>1, <1>25 DEF vars, orchVars
<1> QED
  BY <1>6, <1>7, <1>8, <1>9, <1>10, <1>11, <1>12, <1>13, <1>14, <1>15, <1>16, <1>17, <1>18,
    <1>19, <1>20, <1>21, <1>22, <1>23, <1>24, <1>25, ZenonT(60)
    DEF Next, Orchestrate, OrchStep, OrchFault, Simulate

\* No intent leaves the orchestrator beyond the limits of its strategy, whatever the market
\* and the LLM say: for every strategy, payload, set of replies and number of decisions.
THEOREM IntentsStayWithinLimits == Spec => []IntentWithinLimits
<1> QED
  BY LimitInvInit, LimitInvStep, LimitInvImplies, PTL DEF Spec
=============================================================================
