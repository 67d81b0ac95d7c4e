CONSTANTS
    Null = Null
    Threshold = 2
    Cooldown = 2
    MaxPositionAbs = 2
    MaxSymbolNotional = 3
    MaxLeverage = 2
    MaxDrawdownPct = 50
    MaxDailyLoss = 1
    Cases <- MCCases
    ManualCooldowns = {1}
    MaxPending = 2
    MaxEvaluations = 1
    None = None
    Preferences <- MCPreferences
    GatewayKind <- MCGatewayKind
    Sources <- MCSources
    MaxPublished = 3
    MaxAttempts = 2
    DedupeWindow = 2
    RateLimit = 1
    RateWindow = 0
    MaxFaults = 1
    Strategies = {"s1", "s2"}
    DefaultMode = "MOCK"
    StrictMode = FALSE
    Operations <- MCOperationsSet
    MaxRequests = 3
    MaxInFlight = 2
    MaxDbFaults = 1
    Absent = Absent
    Commands <- MCCommands
    Cut <- MCCut
    Exchanges = {"binance", "bitget"}
    OrderIds <- MCOrderIds
    MaxCommands = 3
    WindowSeconds = 1
    MaxPerWindow = 2
    MaxBuckets = 1
    CleanupInterval = 2
    Bindings <- MCBindings
    QueueName <- MCQueueName
    PrefixExchange <- MCPrefixExchange
    RoutingKeys <- MCRoutingKeys
    MaxMessages = 2

SPECIFICATION OperationsSpec

INVARIANTS
    BreakerArmed
    OperatorCatchesUp
    ReductionNotBlocked
    AlertsAccounted
    DuplicateOfSent
    AcknowledgedIsStored
    AnswersDescribeExchange
    
    SamePlacement

PROPERTY AlertsSettle

CHECK_DEADLOCK FALSE
