SPECIFICATION Spec
CONSTANTS
    Events <- MCEvents
    Orders = {"a", "b", "c"}
    Symbol <- MCSymbol
    UuidIds = {"a"}
    ForeignKeys = TRUE
    NoRow = NoRow
    MaxCopies <- MCMaxCopies
    Outages = TRUE
INVARIANTS RowFollowsLog StatusMatchesEvents 
PROPERTIES ReopenedOnlyByFill FilledNeverShrinks
CHECK_DEADLOCK FALSE
