---------------------------- MODULE MCOperations ----------------------------
(* The parts around the trading path for TLC: the risk policy of the OMS, the *)
(* notification worker, the control plane and the execution bridge of the     *)
(* API, and the topic brokers.  They run in different processes and share no  *)
(* state, so a behaviour follows one of them.                                 *)
EXTENDS RiskPolicy, NotificationPipeline, ControlPlane, ExecutionBridge, TopicBroker

VARIABLE part

otherThanRisk == <<notifyVars, planeVars, bridgeVars, brokerVars, part>>
otherThanNotify == <<riskVars, planeVars, bridgeVars, brokerVars, part>>
otherThanPlane == <<riskVars, notifyVars, bridgeVars, brokerVars, part>>
otherThanBridge == <<riskVars, notifyVars, planeVars, brokerVars, part>>
otherThanBroker == <<riskVars, notifyVars, planeVars, bridgeVars, part>>
operationsVars == <<riskVars, otherThanRisk>>

(* Orders that reduce a position within the limits, turn it over, reduce one   *)
(* past the limits, and enlarge one of a losing account beyond them.           *)
MCCase == [side |-> "SELL", quantity |-> 1, price |-> 1, position |-> 2,
           exposure |-> 3, equity |-> 2, peak |-> 3, realized |-> 0]
MCCases ==
    {MCCase, [MCCase EXCEPT !.quantity = 4],
     [MCCase EXCEPT !.side = "BUY", !.position = -3, !.exposure = 5],
     [MCCase EXCEPT !.side = "BUY", !.quantity = 4, !.equity = 1, !.realized = -2]}

(* One user who wants everything; one who wants critical system alerts, on a  *)
(* gateway that exists and on one that does not.                              *)
MCPreferences ==
    <<[user |-> "ops", min |-> "INFO", types |-> {}, strategies |-> {}, gateways |-> <<"g1">>],
      [user |-> "lead", min |-> "CRITICAL", types |-> {"notify.system"}, strategies |-> {},
       gateways |-> <<"g1", "pager">>]>>
MCGatewayKind == [g1 |-> "telegram"]
MCSources ==
    {[notify |-> "notify.strategy", family |-> "agent.decision", urgent |-> FALSE,
      declared |-> None, key |-> "k1"],
     [notify |-> "notify.system", family |-> "other", urgent |-> FALSE,
      declared |-> "WARNING", key |-> "k1"]}

MCOperationsSet ==
    [kind : {"mode"}, mode : Modes]
    \union [kind : {"strategy"}, id : {"s1"}, state : {"ENABLED", "DISABLED"}]
    \union [kind : {"strategy"}, id : {"s2"}, state : {"DISABLED"}]
    \union [kind : {"preference"}, user : {"u1"}, severity : {"WARNING"}]
    \union [kind : {"forget"}, user : {"u1", "ops-default"}]
    \union [kind : {"risk"}, name : {"enable", "disable", "trip", "reset"}]
    \union [kind : {"status"}]

(* Requests of these kinds meet; risk controls and the rest share no state.   *)
KindsOf == [trading |-> {"mode", "strategy"}, users |-> {"preference", "forget"},
            risk |-> {"risk", "status"}]

MCCommand ==
    [id |-> "k1", client |-> "go1", operation |-> "CREATE_ORDER", action |-> "BUY",
     exchange |-> "binance", quantity |-> 1, type |-> "MARKET", tif |-> Absent,
     limit |-> Absent, trigger |-> Absent, clientId |-> "c1", exchangeId |-> Absent]
MCCommands ==
    {MCCommand,
     [MCCommand EXCEPT !.client = "go2", !.operation = "GET_ORDER_STATUS", !.clientId = Absent],
     [MCCommand EXCEPT !.quantity = 0],
     [MCCommand EXCEPT !.exchange = "bitget", !.type = "STOP_MARKET", !.trigger = 1,
                       !.action = "CLOSE", !.clientId = "c-long"],
     [MCCommand EXCEPT !.type = "LIMIT", !.limit = 1, !.tif = "GTC", !.clientId = ""],
     [MCCommand EXCEPT !.operation = "CANCEL_ORDER", !.exchange = "bitget",
                       !.exchangeId = "x1", !.clientId = Absent],
     [MCCommand EXCEPT !.operation = "CANCEL_ORDER", !.exchangeId = ""],
     [MCCommand EXCEPT !.operation = "GET_ORDER_STATUS", !.exchange = "bitget",
                       !.exchangeId = "x1"]}
MCCut == "c1" :> "c1" @@ "k1" :> "k1" @@ "None" :> "None" @@ "c-long" :> "c-lo"
(* Ready for real dispatch, and ways not to be. *)
MCConfig == [key |-> TRUE, real |-> TRUE, credentials |-> TRUE, redis |-> TRUE]
MCConfigs == {MCConfig, [MCConfig EXCEPT !.key = FALSE],
              [MCConfig EXCEPT !.real = FALSE, !.redis = FALSE], [MCConfig EXCEPT !.credentials = FALSE]}
MCOrderIds == <<"x1", "x2", "x3">>

(* config/rabbitmq/topology.json without the dead-letter queues, and the keys *)
(* the services publish with.                                                 *)
MCBindings ==
    {[exchange |-> "market.events", queue |-> "market.canonical",
      pattern |-> <<"market", "canonical">>, length |-> 16],
     [exchange |-> "strategy.events", queue |-> "strategy.events.lifecycle",
      pattern |-> <<"strategy", "decision", "#">>, length |-> 19],
     [exchange |-> "execution.events", queue |-> "execution.intent.mock",
      pattern |-> <<"execution", "intent", "mock">>, length |-> 21],
     [exchange |-> "execution.events", queue |-> "execution.intent.real",
      pattern |-> <<"execution", "intent", "real">>, length |-> 21],
     [exchange |-> "execution.events", queue |-> "execution.intent.real.lifecycle",
      pattern |-> <<"execution", "intent", "real">>, length |-> 21],
     [exchange |-> "oms.events", queue |-> "oms.events.order_updates",
      pattern |-> <<"oms", "order", "*">>, length |-> 11],
     [exchange |-> "notify.events", queue |-> "notify.events.raw",
      pattern |-> <<"notify", "#">>, length |-> 8]}
MCQueueName ==
    "market.canonical" :> <<"market", "canonical">>
    @@ "strategy.events.lifecycle" :> <<"strategy", "events", "lifecycle">>
    @@ "execution.intent.mock" :> <<"execution", "intent", "mock">>
    @@ "execution.intent.real" :> <<"execution", "intent", "real">>
    @@ "execution.intent.real.lifecycle" :> <<"execution", "intent", "real", "lifecycle">>
    @@ "oms.events.order_updates" :> <<"oms", "events", "order_updates">>
    @@ "notify.events.raw" :> <<"notify", "events", "raw">>
MCPrefixExchange ==
    "market" :> "market.events" @@ "strategy" :> "strategy.events" @@ "agent" :> "strategy.events"
    @@ "execution" :> "execution.events" @@ "oms" :> "oms.events" @@ "notify" :> "notify.events"
MCRoutingKeys ==
    {<<"market", "canonical">>, <<"execution", "intent", "mock">>,
     <<"execution", "intent", "real">>, <<"oms", "order", "created">>,
     <<"strategy", "decision", "lifecycle">>, <<"notify", "risk", "event">>,
     <<"strategy", "state", "changed">>}

PlanePart(p) == p \in DOMAIN KindsOf

OperationsInit ==
    /\ RiskInit /\ NotifyInit /\ PlaneInit /\ BridgeInit /\ BrokerInit
    /\ part \in {"policy", "notify", "bridge", "broker"} \union DOMAIN KindsOf
    /\ PlanePart(part) \/ repository
    /\ config \in MCConfigs
    /\ part = "bridge" \/ config = MCConfig

PlaneStep ==
    /\ PlaneNext
    /\ \A r \in DOMAIN requests' : requests'[r].op.kind \in KindsOf[part]

OperationsNext ==
    \/ part = "policy" /\ RiskNext /\ UNCHANGED otherThanRisk
    \/ part = "notify" /\ NotifyNext /\ UNCHANGED otherThanNotify
    \/ PlanePart(part) /\ PlaneStep /\ UNCHANGED otherThanPlane
    \/ part = "bridge" /\ BridgeNext /\ UNCHANGED otherThanBridge
    \/ part = "broker" /\ BrokerNext /\ UNCHANGED otherThanBroker

OperationsSpec ==
    /\ OperationsInit /\ [][OperationsNext]_operationsVars
    /\ WF_notifyVars(part = "notify" /\ WorkerStep /\ UNCHANGED otherThanNotify)
=============================================================================
