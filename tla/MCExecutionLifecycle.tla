------------------------ MODULE MCExecutionLifecycle ------------------------
(* Small instances of ExecutionLifecycle for TLC. *)
EXTENDS ExecutionLifecycle

\* Order a fills in up to two steps, b in one.
MCQuantity == [o \in Orders |-> IF o = "a" THEN 2 ELSE 1]

\* The intent of b is published twice, and b is charged a fee.
MCMaxPublish == [o \in Orders |-> IF o = "b" THEN 2 ELSE 1]
MCMaxFee == [o \in Orders |-> IF o = "b" THEN 1 ELSE 0]

\* Every order has a symbol of its own.
MCOwnSymbol == [o \in Orders |-> o]

\* All orders trade one symbol.
MCOneSymbol == [o \in Orders |-> "s"]
=============================================================================
