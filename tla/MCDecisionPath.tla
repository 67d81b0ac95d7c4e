---------------------------- MODULE MCDecisionPath ----------------------------
(* Instances of DecisionPath. Sizes and confidences as in DecisionAgents:     *)
(* quantities in hundredths of a unit, confidences in percent.                *)
EXTENDS DecisionPath

MCStrategy == [symbol |-> "BTC", order_size |-> 2, planner_buy_threshold |-> 20,
               planner_sell_threshold |-> 20, risk_max_notional_usd |-> 300,
               risk_max_position_size |-> 3, risk_max_drawdown_pct |-> 10,
               risk_min_confidence |-> 55, max_leverage |-> 2,
               allowed_actions |-> ALLOWED_ACTIONS]

Level(price, amount) == [price |-> price, amount |-> amount]

\* A book that calls for BUY, one that calls for SELL with a long position and a
\* drawdown, no book at all, and another symbol.
Bullish == [symbol |-> "BTC", bids |-> <<Level(99, 4), Level(100, 9)>>, asks |-> <<Level(102, 1)>>,
            mid_price |-> Null, current_position |-> Null, drawdown_pct |-> Null, news |-> Null]
Bearish == [Bullish EXCEPT !.bids = <<Level(100, 1), Level(Null, 5)>>, !.asks = <<Level(102, 9)>>,
                           !.current_position = 200, !.drawdown_pct = 20]
Bookless == [Bullish EXCEPT !.bids = <<>>, !.news = "summary"]
OtherSymbol == [Bullish EXCEPT !.symbol = "ETH"]

MCPayloads == {Bullish, Bearish, Bookless, OtherSymbol}

Number(n) == [kind |-> "number", val |-> n]
Text(t) == [kind |-> "string", val |-> t]
Bool(b) == [kind |-> "bool", val |-> b]

Object(fields) == [kind |-> "object", fields |-> fields]

MCPlanReplies ==
    {Null, NotJson,
     Object([action |-> Text("BUY"), confidence |-> Number(150), target_quantity |-> Number(900)])}

MCRiskReplies ==
    {Null,
     Object([approved |-> Text("yes")]),
     Object([approved |-> Bool(FALSE), approved_quantity |-> Number(0),
             blocked_by |-> [kind |-> "array", val |-> {"model"}]])}

Suggestion(action, quantity, constraints) ==
    Object([action |-> Text(action), quantity |-> Number(quantity), confidence |-> Number(60),
            constraints |-> constraints])

MCExecReplies ==
    {Null,
     Suggestion("BUY", 900, Absent),
     Suggestion("SELL", -50, [kind |-> "object", val |-> [order_type |-> "STOP_MARKET",
                                                           trigger_price |-> 90]]),
     Suggestion("CLOSE", -200, [kind |-> "object", val |-> [schema_valid |-> FALSE]])}

Leg(order_type, price) == [order_type |-> order_type, price |-> price]
OCO(mode, legs) ==
    [id |-> Null, mode |-> mode, symbol |-> "BTC", action |-> "SELL", quantity |-> -100,
     confidence |-> 60, order_type |-> "OCO", limit_price |-> Null, trigger_price |-> Null,
     mid_price |-> Null, price |-> Null, reference_price |-> 100, oco_legs |-> legs]

\* One leg fills, both wait, a leg without a price, an intent without any price, and
\* one of the wrong mode.
MCDirectIntents ==
    {OCO("MOCK", <<Leg("LIMIT", 110), Leg("STOP_MARKET", 100)>>),
     OCO("MOCK", <<Leg("LIMIT", 110), Leg("STOP_MARKET", 90)>>),
     OCO("MOCK", <<Leg("LIMIT", Null), Leg("STOP_MARKET", 100)>>),
     [OCO("MOCK", <<Leg("LIMIT", 90), Leg("STOP_MARKET", 80)>>) EXCEPT !.reference_price = 0],
     OCO("REAL", <<Leg("LIMIT", 90), Leg("STOP_MARKET", 80)>>)}

=============================================================================
