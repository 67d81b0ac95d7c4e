--------------------------- MODULE MCRealExecution ---------------------------
(* RealExecution with an order whose intent is published twice, and a body  *)
(* the handler refuses.                                                     *)
EXTENDS RealExecution

MCIntents ==
    {[decodes |-> TRUE, idem |-> "a", action |-> x, sized |-> TRUE,
      target |-> TRUE] : x \in {"BUY", "HOLD"}}

MCMaxPublish == [i \in MCIntents |-> IF i.action = "BUY" THEN 2 ELSE 1]
===============================================================================
