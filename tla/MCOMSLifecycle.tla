--------------------------- MODULE MCOMSLifecycle ---------------------------
(* Small instances of OMSLifecycle for TLC. *)
EXTENDS OMSLifecycle

Event(n, o, t, q, s) == [name |-> n, order |-> o, type |-> t, quantity |-> q, side |-> s]

\* Order a is bought, reported as canceled, and filled in two
\* halves; b is sold in two fills and has an event without a quantity; c
\* carries the action CLOSE.
MCEvents ==
    { Event(1, "a", "submitted", 2, "BUY"), Event(2, "a", "partially_filled", 1, "BUY"),
      Event(3, "a", "canceled", 2, "BUY"), Event(4, "a", "filled", 1, "BUY"),
      Event(5, "b", "created", 3, "SELL"), Event(6, "b", "partially_filled", 2, "SELL"),
      Event(7, "b", "filled", 1, "SELL"), Event(8, "b", "open", 0, "SELL"),
      Event(9, "c", "created", 1, "CLOSE"), Event(10, "c", "filled", 1, "CLOSE") }

MCOrderA == {e \in MCEvents : e.order = "a"}

\* The fill of a is published twice.
MCMaxCopies == [e \in Events |-> IF e.name = 2 THEN 2 ELSE 1]

MCSymbol == [o \in Orders |-> "s"]
=============================================================================
