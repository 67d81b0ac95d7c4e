--------------------------- MODULE FillReconciliation ---------------------------
(***************************************************************************)
(* services/oms/fill_reconciliation.py: how an order's row is computed from *)
(* its lifecycle events, for the call without an exchange snapshot that    *)
(* the OMS worker makes.                                                   *)
(*                                                                         *)
(* An event is a record with an order, a type and a quantity; two fills    *)
(* with one fill_id are one event, so that a set of events is a log with   *)
(* its duplicates removed (_dedupe_fills).                                 *)
(***************************************************************************)
EXTENDS Integers, FiniteSetsExt

Terminal == {"FILLED", "CANCELED", "REJECTED", "EXPIRED"}

\* _STATUS_PRIORITY
Priority ==
    [s \in {"NEW", "SUBMITTED", "OPEN", "PARTIALLY_FILLED"} \cup Terminal |->
        CASE s = "NEW"              -> 0
          [] s = "SUBMITTED"        -> 1
          [] s = "OPEN"             -> 2
          [] s = "PARTIALLY_FILLED" -> 3
          [] s = "EXPIRED"          -> 4
          [] s = "REJECTED"         -> 5
          [] s = "CANCELED"         -> 6
          [] s = "FILLED"           -> 7]

OrderStatuses == DOMAIN Priority

\* _EVENT_STATUS_MAP, with "oms.order." left out of the event types.
EventStatus ==
    [t \in {"created", "submitted", "open", "partially_filled", "filled",
            "canceled", "rejected", "expired", "ignored"} |->
        CASE t \in {"created", "open"}     -> "OPEN"
          [] t = "submitted"               -> "SUBMITTED"
          [] t = "partially_filled"        -> "PARTIALLY_FILLED"
          [] t = "filled"                  -> "FILLED"
          [] t \in {"canceled", "ignored"} -> "CANCELED"
          [] t = "rejected"                -> "REJECTED"
          [] t = "expired"                 -> "EXPIRED"]

EventKinds == DOMAIN EventStatus

\* Events that _to_lifecycle_event gives a fill.
HasFill(e) == e.type \in {"filled", "partially_filled"}

Fills(log) == {e \in log : HasFill(e)}

FilledQuantity(fills) == MapThenSumSet(LAMBDA e : e.quantity, fills)

\* _pick_status
PickStatus(S) ==
    CHOOSE s \in S \cup {"NEW"} :
        \A t \in S \cup {"NEW"} : Priority[t] <= Priority[s]

\* Slip: a partial fill always makes the order partially filled.
DeriveForgetful(base, requested, filled) ==
    IF filled >= requested THEN "FILLED"
    ELSE IF filled > 0 THEN "PARTIALLY_FILLED" ELSE base

\* _derive_status, for a positive requested quantity.
DeriveStatus(base, requested, filled) ==
    CASE filled >= requested -> "FILLED"
      [] filled > 0 /\ filled < requested ->
            IF base \in Terminal \ {"FILLED"} THEN base ELSE "PARTIALLY_FILLED"
      [] OTHER -> base

\* reconcile: fills is the part of the log's fills that name this order.
Reconcile(row, log, fills) ==
    LET sum    == FilledQuantity(fills)
        filled == IF sum > 0 THEN sum ELSE row.filled
        status == PickStatus({row.status} \cup {EventStatus[e.type] : e \in log})
    IN  [row EXCEPT !.status = DeriveStatus(status, row.requested, filled),
                    !.filled = filled]
===============================================================================
