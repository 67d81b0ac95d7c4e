--------------------------- MODULE SimulationEngine ---------------------------
(***************************************************************************)
(* services/simulation_execution/engine.py as a function: which events one *)
(* MOCK intent becomes. Fill prices and fees only go into the payloads of  *)
(* the events and are left out.                                            *)
(***************************************************************************)
EXTENDS Integers, Sequences

CONSTANT NoValue     \* a payload field that is None

OrderTypes == {"MARKET", "LIMIT", "STOP_MARKET", "TAKE_PROFIT_MARKET", "OCO"}
Triggered == {"STOP_MARKET", "TAKE_PROFIT_MARKET"}

Outcome(status, events) == [status |-> status, events |-> events]

\* SimulationExecutionError: nothing is emitted.
Rejected == Outcome("ERROR", <<>>)

Positive(v) == v # NoValue /\ v > 0

\* The mid price of the attached context, else the first positive price field.
ReferencePrice(intent) ==
    LET Usable(field) == field \in DOMAIN intent /\ Positive(intent[field])
        usable == SelectSeq(<<"mid_price", "limit_price", "price", "reference_price">>, Usable)
    IN  IF usable = <<>> THEN NoValue ELSE intent[Head(usable)]

CheckTrigger(order_type, action, reference, trigger) ==
    \/ order_type = "STOP_MARKET" /\ action = "BUY" /\ reference >= trigger
    \/ order_type = "STOP_MARKET" /\ action # "BUY" /\ reference <= trigger
    \/ order_type = "TAKE_PROFIT_MARKET" /\ action = "SELL" /\ reference >= trigger
    \/ order_type = "TAKE_PROFIT_MARKET" /\ action # "SELL" /\ reference <= trigger

LegTriggers(leg, action, reference) ==
    \/ leg.order_type = "LIMIT" /\ action = "BUY" /\ reference <= leg.price
    \/ leg.order_type = "LIMIT" /\ action = "SELL" /\ reference >= leg.price
    \/ CheckTrigger(leg.order_type, action, reference, leg.price)

\* The legs are tried in order; the walk stops at the first that triggers, so a
\* second leg without a price only fails the order when the first is waiting.
ExecuteOCO(legs, action, reference) ==
    LET malformed == {i \in DOMAIN legs : legs[i].order_type \in Triggered \union {"LIMIT"}
                                          /\ legs[i].price = NoValue}
        hit == {i \in DOMAIN legs \ malformed : LegTriggers(legs[i], action, reference)}
    IN  IF Len(legs) # 2 \/ \E i \in malformed : \A j \in hit : i < j
        THEN Rejected
        ELSE IF hit = {} THEN Outcome("SUBMITTED", <<"created">>)
                         ELSE Outcome("FILLED", <<"created", "filled", "cancelled">>)

ExecuteIntent(intent) ==
    LET order_type == IF intent.order_type = NoValue THEN "MARKET" ELSE intent.order_type
        reference == ReferencePrice(intent)
        Waiting == ~CheckTrigger(order_type, intent.action, reference, intent.trigger_price)
    IN  IF \/ intent.mode # "MOCK"
           \/ intent.action \notin {"BUY", "SELL", "HOLD", "CLOSE"}
           \/ order_type \notin OrderTypes
        THEN Rejected
        ELSE IF intent.action = "HOLD" \/ intent.quantity = 0
        THEN Outcome("IGNORED", <<"ignored">>)
        ELSE IF \/ reference = NoValue
                \/ order_type \in Triggered /\ ~Positive(intent.trigger_price)
        THEN Rejected
        ELSE IF order_type \in Triggered /\ Waiting
        THEN Outcome("SUBMITTED", <<"created">>)
        ELSE IF order_type = "OCO"
        THEN ExecuteOCO(intent.oco_legs, intent.action, reference)
        ELSE Outcome("FILLED", <<"created", "filled">>)

=============================================================================
