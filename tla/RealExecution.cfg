SPECIFICATION FairSpec
CONSTANTS
    Replicas = {r1, r2}
    Intents <- MCIntents
    None = None
    MaxPublish <- MCMaxPublish
    Answers = {"submitted", "rejected"}
    Faults = {"crash", "lost_receive", "redis", "ttl", "bridge", "publish"}
INVARIANTS
    AtMostOnceDispatch
    EventsAgreeWithRecord
PROPERTIES
    OutcomeIsFinal
    QueueDrains
    ImplementsAtMostOnce
CHECK_DEADLOCK FALSE
