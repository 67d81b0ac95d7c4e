--------------------------- MODULE ExecutionBridge --------------------------
(***************************************************************************)
(* The internal dispatch endpoint of the API, which the real-execution     *)
(* service calls to reach an exchange: rate limit, bridge key, checks of   *)
(* the command, then one HTTP request to the exchange, simulated unless    *)
(* real dispatch is switched on. The endpoint is a coroutine around        *)
(* blocking calls, so the process handles one command at a time.           *)
(***************************************************************************)
EXTENDS RateLimiter

CONSTANTS
    Absent,       \* None: an optional field the command leaves out
    Commands,     \* commands the real-execution service sends
    Cut,          \* first 32 characters of an order id
    Exchanges,    \* exchanges the bridge supports
    OrderIds,     \* external: ids the exchange gives its orders, in order
    MaxCommands   \* bound: commands sent

VARIABLES
    config,    \* bridge key configured, real dispatch on, exchange credentials present
    limiter,   \* the limiter of /internal/
    calling,   \* command whose exchange request is under way, or Absent
    orders,    \* external: orders the exchange holds
    paced,     \* history: client and age of the requests sent to the exchange
    answers    \* history: commands answered; by: who named the order, exchange or command

bridgeVars == <<config, limiter, calling, orders, paced, answers>>

OrderTypes == {"MARKET", "LIMIT", "STOP_MARKET", "TAKE_PROFIT_MARKET"}
Triggered == {"STOP_MARKET", "TAKE_PROFIT_MARKET"}

\* str() of an optional field: an absent one becomes the text None.
Text(field) == IF field = Absent THEN "None" ELSE field

FirstNonEmpty(ids) == ids[CHOOSE i \in DOMAIN ids : /\ ids[i] # ""
                                                   /\ \A j \in 1..(i - 1) : ids[j] = ""]

NormalizeExchange(c) == c.exchange \in Exchanges
NormalizeOrderType(c) == IF c.type = "" THEN "MARKET" ELSE c.type
NormalizeTimeInForce(c) == IF c.tif = "" THEN Absent ELSE c.tif

Positive(x) == x # Absent /\ x > 0

ValidateCreateOrderFields(c) ==
    LET type == NormalizeOrderType(c)
    IN  /\ c.quantity > 0
        /\ type = "MARKET" => c.limit = Absent /\ c.trigger = Absent
        /\ type = "LIMIT" => /\ Positive(c.limit) /\ c.trigger = Absent
                             /\ NormalizeTimeInForce(c) # Absent
        /\ type \in Triggered => Positive(c.trigger) /\ c.limit = Absent

\* A cancel or a status names an order.
NamesOrder(c) == \E id \in {c.exchangeId, c.clientId} : id \notin {Absent, ""}

ResolveOrderId(c) == FirstNonEmpty(<<Text(c.exchangeId), Text(c.clientId), c.id>>)
ResolveClientOrderId(c) == Cut[FirstNonEmpty(<<Text(c.clientId), c.id>>)]

BinanceOrderType(type) == CASE type = "STOP_MARKET" -> "STOP_LOSS"
                            [] type = "TAKE_PROFIT_MARKET" -> "TAKE_PROFIT"
                            [] OTHER -> type

ResolveExchangeSide(c) == IF c.action = "BUY" THEN "BUY" ELSE "SELL"

\* What is sent for a create; Bitget has an endpoint of its own for triggered orders.
BinanceCreate(c) ==
    [side |-> ResolveExchangeSide(c), client |-> ResolveClientOrderId(c),
     type |-> BinanceOrderType(NormalizeOrderType(c))]
BitgetCreate(c) ==
    [side |-> ResolveExchangeSide(c), client |-> ResolveClientOrderId(c),
     type |-> IF NormalizeOrderType(c) \in Triggered THEN "plan" ELSE NormalizeOrderType(c)]
CreateRequest(c) == IF c.exchange = "binance" THEN BinanceCreate(c) ELSE BitgetCreate(c)

\* What is sent for a cancel or a status: both quote the ids as text, so an absent order
\* id is sent as None, and the client id uncut.
LookupRequest(c) == [order |-> Text(c.exchangeId), client |-> Text(c.clientId)]

\* External: an exchange looks an order up by its order id if one is sent, else by client id.
Names(request, o) == IF request.order # "" THEN o.id = request.order
                                           ELSE o.client = request.client
Found(request) == {o \in orders : Names(request, o)}

NormalizeExchangeStatus(raw, fallback) ==
    CASE raw = "" -> fallback
      [] raw \in {"NEW", "LIVE", "INIT"} -> "submitted"
      [] raw = "CANCELED" -> "canceled"
      [] raw = "FILLED" -> "filled"

\* The status answered to a create, a cancel and a status of an order for which the exchange
\* has word, empty when its answer holds no status. Bitget never sends one for a create or a
\* cancel.
BitgetCreated == "submitted"
BinanceCanceled(word) == NormalizeExchangeStatus(word, "canceled")
BitgetCanceled == "canceled"
BinanceStatus(word) == NormalizeExchangeStatus(word, "submitted")
BitgetStatus(word) ==
    NormalizeExchangeStatus(IF word = "NEW" THEN "LIVE" ELSE word, "submitted")

SimulatedStatus(c) == IF c.operation = "CANCEL_ORDER" THEN "canceled" ELSE "submitted"

ValidateBridgeApiKey == IF config.key THEN 200 ELSE 503

\* The checks before the adapter's request, in the order of the handler; building the
\* adapter comes before the checks of the command's own fields.
DispatchRefusal(c) ==
    CASE ValidateBridgeApiKey # 200 -> ValidateBridgeApiKey
      [] \/ ~ NormalizeExchange(c) \/ NormalizeOrderType(c) \notin OrderTypes
         \/ NormalizeTimeInForce(c) \notin {Absent, "GTC", "IOC", "FOK"} -> 422
      [] config.real /\ ~ config.credentials -> 422
      [] c.operation = "CREATE_ORDER" /\ ~ ValidateCreateOrderFields(c) -> 422
      [] c.operation # "CREATE_ORDER" /\ ~ NamesOrder(c) -> 422
      [] OTHER -> 200

BridgeInit ==
    /\ config \in [key : BOOLEAN, real : BOOLEAN, credentials : BOOLEAN, redis : BOOLEAN]
    /\ limiter = Limiter /\ calling = Absent /\ orders = {} /\ paced = <<>> /\ answers = <<>>

Reply(c, code, id, status, by) ==
    Append(answers, [command |-> c, code |-> code, order |-> id, status |-> status,
                     by |-> by])

RateLimitMiddleware(client) ==
    IF config.redis /\ limiter.redis THEN RedisIsAllowed(limiter, client)
                                     ELSE InMemoryIsAllowed(limiter, client)

\* dispatch_execution_command behind rate_limit_middleware, up to the exchange request.
DispatchExecutionCommand ==
    /\ calling = Absent /\ Len(answers) < MaxCommands
    /\ \E c \in Commands :
           LET gate == RateLimitMiddleware(c.client)
               code == IF gate.allowed THEN DispatchRefusal(c) ELSE 429
           IN  /\ limiter' = gate.limiter
               /\ CASE code # 200 ->
                           /\ answers' = Reply(c, code, Absent, Absent, "command")
                           /\ UNCHANGED <<calling, paced>>
                    [] ~ config.real ->
                           /\ answers' = Reply(c, 200, ResolveOrderId(c), SimulatedStatus(c),
                                               "command")
                           /\ UNCHANGED <<calling, paced>>
                    [] OTHER ->
                           /\ calling' = c
                           /\ paced' = Append(paced, [client |-> c.client, age |-> 0])
                           /\ UNCHANGED answers
    /\ UNCHANGED <<config, orders>>

Return(code, id, status, by) ==
    /\ answers' = Reply(calling, code, id, status, by) /\ calling' = Absent
    /\ UNCHANGED <<config, limiter, paced>>

\* Slip: the answer names the order by the ids of the command.
AnsweredIdOfCommand(c, id, by) == ResolveOrderId(c)

\* The order id of the exchange's answer, or the command's own ids when the answer is an
\* empty object: for a command that leaves its exchange id out, the text None.
AnsweredId(c, id, by) == IF by = "exchange" THEN id ELSE ResolveOrderId(c)

NewOrder(c, status) ==
    [id |-> OrderIds[Cardinality(orders) + 1], client |-> CreateRequest(c).client,
     side |-> CreateRequest(c).side, type |-> CreateRequest(c).type, status |-> status]

SetStatus(o, status) == (orders \ {o}) \union {[o EXCEPT !.status = status]}

\* The exchange takes the order, and may fill it at once.
CreateOrder ==
    /\ calling # Absent /\ calling.operation = "CREATE_ORDER"
    /\ \E status \in {"NEW", "FILLED"}, by \in {"exchange", "command"} :
           LET o == NewOrder(calling, status)
               word == IF by = "exchange" THEN status ELSE ""
           IN  /\ orders' = orders \union {o}
               /\ Return(200, AnsweredId(calling, o.id, by),
                         IF calling.exchange = "binance" THEN BinanceStatus(word)
                                                         ELSE BitgetCreated, by)

\* The exchange cancels the order.
CancelOrder ==
    /\ calling # Absent /\ calling.operation = "CANCEL_ORDER"
    /\ \E o \in Found(LookupRequest(calling)), by \in {"exchange", "command"} :
           /\ o.status = "NEW"
           /\ orders' = SetStatus(o, "CANCELED")
           /\ Return(200, AnsweredId(calling, o.id, by),
                     IF calling.exchange = "binance"
                     THEN BinanceCanceled(IF by = "exchange" THEN "CANCELED" ELSE "")
                     ELSE BitgetCanceled, by)

\* An answer that holds no order reads as submitted.
GetOrderStatus ==
    /\ calling # Absent /\ calling.operation = "GET_ORDER_STATUS"
    /\ LET Answer(id, word, by) ==
               Return(200, AnsweredId(calling, id, by),
                      IF calling.exchange = "binance" THEN BinanceStatus(word)
                                                      ELSE BitgetStatus(word), by)
       IN  \/ \E o \in Found(LookupRequest(calling)) : Answer(o.id, o.status, "exchange")
           \/ Answer(Absent, "", "command")
    /\ UNCHANGED orders

\* The exchange refuses, the connection fails, or the answer is lost after the exchange
\* acted: all three are an upstream error.
UpstreamError ==
    /\ calling # Absent
    /\ \/ UNCHANGED orders
       \/ calling.operation = "CREATE_ORDER" /\ orders' = orders \union {NewOrder(calling, "NEW")}
       \/ /\ calling.operation = "CANCEL_ORDER"
          /\ \E o \in Found(LookupRequest(calling)) :
                 o.status = "NEW" /\ orders' = SetStatus(o, "CANCELED")
    /\ Return(502, Absent, Absent, "command")

\* External: the exchange fills an order.
ExchangeFills ==
    /\ \E o \in orders : /\ o.status = "NEW"
                         /\ orders' = SetStatus(o, "FILLED")
    /\ UNCHANGED <<config, limiter, calling, paced, answers>>

BridgeTimePasses ==
    /\ \E c \in DOMAIN limiter.windows : \E i \in DOMAIN limiter.windows[c] :
           limiter.windows[c][i] <= 2 * WindowSeconds
    /\ limiter' = LimiterAges(limiter)
    /\ paced' = [i \in DOMAIN paced |->
                    [paced[i] EXCEPT !.age = IF @ > WindowSeconds THEN @ ELSE @ + 1]]
    /\ UNCHANGED <<config, calling, orders, answers>>

BridgeNext ==
    \/ DispatchExecutionCommand \/ CreateOrder \/ CancelOrder \/ GetOrderStatus
    \/ UpstreamError \/ ExchangeFills \/ BridgeTimePasses

BridgeSpec == BridgeInit /\ [][BridgeNext]_bridgeVars

-----------------------------------------------------------------------------
\* Order o is one that the ids of command c mean.
Asked(c, o) == IF c.operation = "CREATE_ORDER" THEN o.client = CreateRequest(c).client
                                               ELSE Names(LookupRequest(c), o)

\* Answer a is about order o, and what it says of it is so.
About(a, o) == IF a.by = "exchange" THEN o.id = a.order ELSE Asked(a.command, o)
Describes(a, o) == /\ About(a, o)
                   /\ a.status = "canceled" => o.status = "CANCELED"
                   /\ a.status = "filled" => o.status = "FILLED"

\* Answer a to a status says no more than submitted, and names no order.
Silent(a) == /\ a.by = "command" /\ a.status = "submitted"
             /\ a.command.operation = "GET_ORDER_STATUS"

\* What an answer says is so at the exchange (dispatch_execution_command and the signed
\* adapters). An acknowledged command is about an order the exchange holds: the one the
\* answer names, or one that the command's ids mean when the exchange named none; one
\* reported canceled or filled is so for good. Only submitted, answered to a status when the
\* exchange said nothing, speaks of no order. And no more orders exist than creates that were
\* acknowledged or ended in an upstream error, the only answer that leaves the outcome open.
AnswersDescribeExchange ==
    LET Of(op, codes) == {i \in DOMAIN answers : /\ answers[i].command.operation = op
                                                 /\ answers[i].code \in codes}
    IN  /\ config.real => \A i \in DOMAIN answers : answers[i].code = 200 =>
               Silent(answers[i]) \/ \E o \in orders : Describes(answers[i], o)
        /\ Cardinality(orders) <= Cardinality(Of("CREATE_ORDER", {200, 502}))

=============================================================================
