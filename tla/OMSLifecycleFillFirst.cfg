SPECIFICATION Spec
CONSTANTS
    Events <- MCOrderA
    Orders = {"a"}
    Symbol <- MCSymbol
    UuidIds = {"a"}
    ForeignKeys = TRUE
    NoRow = NoRow
    MaxCopies <- MCMaxCopies
    Outages = FALSE
INVARIANT FillsReachPosition
