SPECIFICATION Spec
CONSTANTS
    Null = Null
    Strategy <- MCStrategy
    Payloads <- MCPayloads
    PlanReplies <- MCPlanReplies
    RiskReplies <- MCRiskReplies
    ExecReplies <- MCExecReplies
    DirectIntents <- MCDirectIntents
    DurableMemory = TRUE
    JsonBroker = TRUE
    MaxDecisions = 2
    Earlier = 1
    MaxFaults = 1
    MaxReplays = 1
    LoadLimit = 1
INVARIANTS
    IntentWithinLimits
    ArchiveAgreesWithIntents
    AuditTrailInOrder
    ReplayIsFaithful
    SimulatedOnce
PROPERTIES
    DecisionsSettle
CHECK_DEADLOCK FALSE
