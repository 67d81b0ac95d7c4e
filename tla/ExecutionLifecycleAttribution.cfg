SPECIFICATION Spec
CONSTANTS
    Orders = {"a", "b"}
    Named = {"a", "b"}
    Quantity <- MCQuantity
    Symbol <- MCOneSymbol
    NoId = NoId
    MaxTracked = 2
    MaxPublish <- MCMaxPublish
    MaxFeed = 1
    MaxFee <- MCMaxFee
    MaxRepeats = 1
    Faults = {}
INVARIANT AttributionSound
