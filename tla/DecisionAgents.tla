---------------------------- MODULE DecisionAgents ----------------------------
(***************************************************************************)
(* The pure part of a decision: what each agent of                         *)
(* services/agent_orchestrator computes from one market payload, and how a *)
(* suggestion of the LLM replaces parts of it.                             *)
(*                                                                         *)
(* Confidences and imbalances are percentages; quantities are hundredths   *)
(* of a unit (Unit), so that order_size * confidence is an integer.        *)
(***************************************************************************)
EXTENDS Integers, Sequences, FiniteSets

CONSTANTS
    Strategy,    \* a StrategyConfig record, see StrategyType
    Null         \* Python's None; also a missing or malformed value

Unit == 100

ALLOWED_ACTIONS == {"BUY", "SELL", "HOLD", "CLOSE"}
Executable == {"BUY", "SELL", "CLOSE"}

Abs(n) == IF n < 0 THEN -n ELSE n
AtLeast(n, low) == IF n < low THEN low ELSE n
AtMost(n, high) == IF n > high THEN high ELSE n
Clamp(c) == AtLeast(AtMost(c, 100), 0)
Default(v, d) == IF v = Null THEN d ELSE v

\* contracts.StrategyConfig. max_leverage is a whole number of units.
StrategyType ==
    [symbol: STRING, order_size: Int, planner_buy_threshold: Int,
     planner_sell_threshold: Int, risk_max_notional_usd: Int,
     risk_max_position_size: Int, risk_max_drawdown_pct: Int,
     risk_min_confidence: Int, max_leverage: Int,
     allowed_actions: SUBSET STRING]

ASSUME StrategyAssumption == Strategy \in StrategyType

-----------------------------------------------------------------------------
(* market_context_agent.py *)

\* The best level of one side: the first of the levels with the extreme price
\* among those that parse; a negative size counts as zero.
ExtractLevel(levels, side) ==
    LET parsed == {i \in DOMAIN levels : levels[i].price # Null}
        Better(i, j) == IF side = "bid" THEN levels[i].price > levels[j].price
                                        ELSE levels[i].price < levels[j].price
        best == CHOOSE i \in parsed : \A j \in parsed \ {i} :
                    Better(i, j) \/ (~Better(j, i) /\ i < j)
    IN  IF parsed = {}
        THEN [price |-> Null, size |-> 0]
        ELSE [price |-> levels[best].price, size |-> AtLeast(levels[best].amount, 0)]

MicrostructureRegime(book, imbalance) ==
    CASE ~book -> "unknown"
      [] book /\ imbalance >= 20 -> "bid_dominant"
      [] book /\ imbalance <= -20 -> "ask_dominant"
      [] OTHER -> "balanced"

\* (bid - ask) / (bid + ask) in percent, rounded towards zero.
Imbalance(bid, ask) ==
    LET ratio == (Abs(bid - ask) * 100) \div (bid + ask)
    IN  IF bid + ask <= 0 THEN 0 ELSE IF bid < ask THEN -ratio ELSE ratio

Enrich(payload) ==
    LET bid == ExtractLevel(payload.bids, "bid")
        ask == ExtractLevel(payload.asks, "ask")
        book == bid.price # Null /\ ask.price # Null
        imbalance == Imbalance(bid.size, ask.size)
    IN  [symbol           |-> Default(payload.symbol, Strategy.symbol),
         best_bid_size    |-> bid.size,
         best_ask_size    |-> ask.size,
         mid_price        |-> IF book THEN (bid.price + ask.price) \div 2
                                      ELSE Default(payload.mid_price, 0),
         current_position |-> Default(payload.current_position, 0),
         drawdown_pct     |-> Default(payload.drawdown_pct, 0),
         regime           |-> MicrostructureRegime(book, imbalance),
         notes            |-> (IF book THEN {} ELSE {"orderbook_unavailable"}) \union
                              (IF payload.news = Null THEN {"news_unavailable"} ELSE {})]

-----------------------------------------------------------------------------
(* planner_agent.py *)

SelectAction(imbalance) ==
    CASE imbalance >= Strategy.planner_buy_threshold -> "BUY"
      [] imbalance < Strategy.planner_buy_threshold
         /\ imbalance <= -Strategy.planner_sell_threshold -> "SELL"
      [] OTHER -> "HOLD"

BuildPlan(ctx) ==
    LET imbalance == Imbalance(AtLeast(ctx.best_bid_size, 0), AtLeast(ctx.best_ask_size, 0))
        action == SelectAction(imbalance)
        confidence == AtMost(Abs(imbalance), 100)
        scaled == Strategy.order_size * AtLeast(confidence, Strategy.risk_min_confidence)
    IN  [action |-> action, confidence |-> confidence,
         target_quantity |-> CASE action = "HOLD" -> 0
                               [] action = "BUY" -> scaled
                               [] OTHER -> -scaled]

-----------------------------------------------------------------------------
(* risk_agent.py *)

\* The names of the signals that did not pass.
RiskBlockedBy(plan, ctx) ==
    LET proposed == Abs(plan.target_quantity)
        passed == [confidence_minimum |-> plan.confidence >= Strategy.risk_min_confidence,
                   actionable_plan |-> plan.action \in Executable /\ proposed > 0,
                   notional_limit |-> proposed * ctx.mid_price
                                        <= Strategy.risk_max_notional_usd * Unit,
                   position_limit |-> Abs(ctx.current_position) + proposed
                                        <= Strategy.risk_max_position_size * Unit,
                   drawdown_limit |-> ctx.drawdown_pct <= Strategy.risk_max_drawdown_pct]
    IN  {signal \in DOMAIN passed : ~passed[signal]}

EvaluateRisk(plan, ctx) ==
    LET blocked == RiskBlockedBy(plan, ctx)
    IN  [approved |-> blocked = {},
         approved_quantity |-> IF blocked = {} THEN plan.target_quantity ELSE 0,
         blocked_by |-> blocked]

-----------------------------------------------------------------------------
(* execution_decision_agent.py *)

NormalizeAction(action) == IF action \in ALLOWED_ACTIONS THEN action ELSE "HOLD"

ResolveQuantity(action, plan, risk, position) ==
    LET base == IF risk.approved_quantity # 0 THEN risk.approved_quantity
                ELSE IF plan.target_quantity # 0 THEN plan.target_quantity
                ELSE Strategy.order_size * Unit
    IN  CASE action = "CLOSE" -> -position
          [] action = "BUY" -> Abs(base)
          [] action = "SELL" -> -Abs(base)
          [] OTHER -> 0

\* _quantity_semantics_valid of the guardrails; the agent's own schema check
\* and its normalisation to HOLD use the same rule.
QuantitySemanticsValid(action, quantity) ==
    \/ action = "BUY" /\ quantity > 0
    \/ action = "SELL" /\ quantity < 0
    \/ action = "CLOSE" /\ quantity # 0
    \/ action = "HOLD" /\ quantity = 0

NormalizeActionQuantity(action, quantity) ==
    IF action \in Executable /\ QuantitySemanticsValid(action, quantity)
    THEN [action |-> action, quantity |-> quantity]
    ELSE [action |-> "HOLD", quantity |-> 0]

ProposeAction(plan, risk, ctx) ==
    LET action == NormalizeAction(plan.action)
        final == IF risk.approved
                 THEN NormalizeActionQuantity(action,
                         ResolveQuantity(action, plan, risk, ctx.current_position))
                 ELSE [action |-> "HOLD", quantity |-> 0]
    IN  [action |-> final.action, quantity |-> final.quantity,
         confidence |-> Clamp(plan.confidence),
         schema_valid |-> QuantitySemanticsValid(final.action, final.quantity),
         order_type |-> Null, limit_price |-> Null, trigger_price |-> Null]

-----------------------------------------------------------------------------
(* guardrail_validation.py *)

\* equity_usd is never part of the context, so its default, the mid price but
\* at least 1, stands in for the equity.
ProjectedLeverageWithin(position, mid) ==
    mid > 0 => Abs(position * mid) <= Strategy.max_leverage * Unit * AtLeast(mid, 1)

\* The codes of the violations, in the order of the checks.
GuardrailBlockedBy(ctx, risk, decision) ==
    LET mid == AtLeast(ctx.mid_price, 0)
        projected == ctx.current_position + decision.quantity
        live == decision.action \in Executable
        passed == [action_schema |-> decision.action \in Strategy.allowed_actions,
                   quantity_semantics |->
                       QuantitySemanticsValid(decision.action, decision.quantity),
                   symbol_constraint |-> ctx.symbol = Strategy.symbol,
                   confidence_threshold |->
                       live => decision.confidence >= Strategy.risk_min_confidence,
                   risk_alignment |-> live => risk.approved,
                   notional_limit |-> live => Abs(decision.quantity) * mid
                                               <= Strategy.risk_max_notional_usd * Unit,
                   position_limit |-> live => Abs(projected)
                                               <= Strategy.risk_max_position_size * Unit,
                   leverage_limit |-> live => ProjectedLeverageWithin(projected, mid)]
    IN  {code \in DOMAIN passed : ~passed[code]}

Validate(ctx, risk, decision) ==
    LET blocked == GuardrailBlockedBy(ctx, risk, decision)
    IN  [allowed |-> blocked = {}, blocked_by |-> blocked]

\* The violations whose details hold a decimal.Decimal, which json.dumps
\* refuses with a TypeError.
DecimalDetails == {"quantity_semantics", "confidence_threshold", "notional_limit",
                   "position_limit", "leverage_limit"}

JsonSerializable(guardrail) == guardrail.blocked_by \intersect DecimalDetails = {}

-----------------------------------------------------------------------------
(* llm_runtime.py: the text a model answers is the JSON object it parses to, *)
(* a function from its fields to tagged values [kind, val]. float() takes a   *)
(* numeral in quotes for a number, so both have the kind "number".            *)

Absent == [kind |-> "none", val |-> Null]

\* A text that is no JSON object counts as an object without fields.
NotJson == [kind |-> "text", fields |-> <<>>]
ParseResponsePayload(content) == IF content.kind = "object" THEN content.fields ELSE <<>>
Field(payload, name) == IF name \in DOMAIN payload THEN payload[name] ELSE Absent

Truthy == {"true", "1", "yes", "y", "on"}
Falsy == {"false", "0", "no", "n", "off"}

OptionalUpper(v) == IF v.kind = "string" THEN v.val ELSE Null

OptionalFloat(v) ==
    CASE v.kind = "number" -> v.val
      [] v.kind = "bool" -> IF v.val THEN Unit ELSE 0
      [] OTHER -> Null

OptionalBool(v) ==
    CASE v.kind = "bool" -> v.val
      [] v.kind = "string" /\ v.val \in Truthy -> TRUE
      [] v.kind = "string" /\ v.val \in Falsy -> FALSE
      [] OTHER -> Null

NormalizeTokens(v) == IF v.kind = "array" THEN v.val ELSE {}

SuggestPlan(content) ==
    LET payload == ParseResponsePayload(content)
    IN  [action |-> OptionalUpper(Field(payload, "action")),
         confidence |-> OptionalFloat(Field(payload, "confidence")),
         target_quantity |-> OptionalFloat(Field(payload, "target_quantity"))]

SuggestRisk(content) ==
    LET payload == ParseResponsePayload(content)
    IN  [approved |-> OptionalBool(Field(payload, "approved")),
         approved_quantity |-> OptionalFloat(Field(payload, "approved_quantity")),
         blocked_by |-> NormalizeTokens(Field(payload, "blocked_by"))]

SuggestExecution(content) ==
    LET payload == ParseResponsePayload(content)
        constraints == Field(payload, "constraints")
    IN  [action |-> OptionalUpper(Field(payload, "action")),
         quantity |-> OptionalFloat(Field(payload, "quantity")),
         confidence |-> OptionalFloat(Field(payload, "confidence")),
         constraints |-> IF constraints.kind = "object" THEN constraints.val ELSE <<>>]

\* orchestrator.py, _apply_planner_llm_suggestion. Any exception of the runtime
\* (reply = Null) leaves the heuristic plan.
ApplyPlannerSuggestion(plan, reply) ==
    IF reply = Null THEN plan
    ELSE LET suggestion == SuggestPlan(reply)
         IN  [action |-> IF suggestion.action \in ALLOWED_ACTIONS THEN suggestion.action
                                                                 ELSE plan.action,
              confidence |-> IF suggestion.confidence = Null THEN plan.confidence
                                                             ELSE Clamp(suggestion.confidence),
              target_quantity |-> Default(suggestion.target_quantity, plan.target_quantity)]

\* _apply_risk_llm_suggestion: the reply may approve what the heuristics block.
ApplyRiskSuggestion(risk, reply) ==
    IF reply = Null THEN risk
    ELSE LET suggestion == SuggestRisk(reply)
         IN  [approved |-> Default(suggestion.approved, risk.approved),
              approved_quantity |->
                  Default(suggestion.approved_quantity, risk.approved_quantity),
              blocked_by |-> IF suggestion.blocked_by = {} THEN risk.blocked_by
                                                           ELSE suggestion.blocked_by]

\* _apply_execution_llm_suggestion: constraints.update lets the reply overwrite
\* schema_valid and name an order type and its prices.
ApplyExecutionSuggestion(decision, reply) ==
    IF reply = Null THEN decision
    ELSE LET suggestion == SuggestExecution(reply)
             Constraint(name) == IF name \in DOMAIN suggestion.constraints
                                 THEN suggestion.constraints[name] ELSE decision[name]
         IN  [action |-> IF suggestion.action \in ALLOWED_ACTIONS THEN suggestion.action
                                                                 ELSE decision.action,
              quantity |-> Default(suggestion.quantity, decision.quantity),
              confidence |-> IF suggestion.confidence = Null THEN decision.confidence
                                                             ELSE Clamp(suggestion.confidence),
              schema_valid |-> Constraint("schema_valid"),
              order_type |-> Constraint("order_type"),
              limit_price |-> Constraint("limit_price"),
              trigger_price |-> Constraint("trigger_price")]

=============================================================================
