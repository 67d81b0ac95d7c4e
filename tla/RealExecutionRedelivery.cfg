SPECIFICATION Spec
CONSTANTS
    Replicas = {r1}
    Intents <- MCIntents
    None = None
    MaxPublish <- MCMaxPublish
    Answers = {"submitted"}
    Faults = {"bridge", "publish"}
INVARIANTS
    AtLeastOnceDelivery
CHECK_DEADLOCK FALSE
