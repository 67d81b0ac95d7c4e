SPECIFICATION Spec
CONSTANTS
    Orders = {"a", "b"}
    Named = {"a", "b"}
    Quantity <- MCQuantity
    Symbol <- MCOwnSymbol
    NoId = NoId
    MaxTracked = 1
    MaxPublish <- MCMaxPublish
    MaxFeed = 1
    MaxFee <- MCMaxFee
    MaxRepeats = 1
    Faults = {"lost_update"}
INVARIANT ReportedIsPublished
