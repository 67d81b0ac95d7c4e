------------------------------ MODULE OMSLifecycle ------------------------------
(***************************************************************************)
(* services/workers/oms_lifecycle.py with its SQL store: the worker that   *)
(* turns oms.order.* events into rows of orders, fills, positions, mark    *)
(* prices and portfolio snapshots.                                         *)
(*                                                                         *)
(* The message is gone from the queue once it is read.  Every statement is *)
(* a transaction of its own, so a failing statement, an exception or a     *)
(* crash leaves the earlier ones of the cycle behind.  Several publishers  *)
(* feed the queue: events arrive in any order, possibly twice, and only    *)
(* the relative order of reads matters, so all copies wait from the start. *)
(***************************************************************************)
EXTENDS FillReconciliation

CONSTANTS Events,       \* [name, order, type, quantity, side]
          Orders,
          Symbol,       \* symbol of each order
          UuidIds,      \* orders whose id is a UUID: the store keeps it as is
          ForeignKeys,  \* fills.order_id references orders.id
          NoRow,        \* no such row
          MaxCopies,    \* bound: how often each event is published
          Outages       \* statements may fail, the worker may crash

ASSUME OMSAssumption ==
    /\ \A e \in Events :
         /\ e.order \in Orders /\ e.type \in EventKinds /\ e.quantity \in Nat
         /\ e.side \in {"BUY", "SELL", "CLOSE"}
    /\ UuidIds \subseteq Orders
    /\ {ForeignKeys, Outages} \subseteq BOOLEAN
    /\ MaxCopies \in [Events -> Nat]

Symbols == {Symbol[o] : o \in Orders}

VARIABLES
    queue,     \* oms.events.order_updates: copies published and not yet read
    rows,      \* table orders
    log,       \* table runtime_oms_lifecycle_events
    fillRows,  \* table fills: which fill, and the side stored with it
    position,  \* table positions: net quantity of each symbol
    marks,     \* table runtime_oms_mark_prices: symbols with a mark price
    snapshot,  \* the positions valued by the last portfolio snapshot
    pc,        \* where run_once is
    cur,       \* the event it handles
    existing,  \* the order row it read, or the default one
    known,     \* that row came from the store
    applied,   \* history: how often each fill was applied to its position
    raised,    \* history: cycles of each event that ended with an exception
    behind,    \* history: orders whose row misses part of their log
    trouble    \* history: kinds of mishap so far

store == <<rows, log, fillRows, position, marks, snapshot>>
local == <<cur, existing, known>>
hist  == <<applied, behind>>
mishaps == <<raised, trouble>>
vars  == <<queue, rows, log, fillRows, position, marks, snapshot, pc, cur,
           existing, known, applied, raised, behind, trouble>>

\* The row of an order the store does not know. upsert_order stores every new
\* order as a BUY and keeps the side of the others.
Default(e) == [status |-> "NEW", requested |-> e.quantity, filled |-> 0, side |-> "BUY"]

\* get_order: the row of an order, if the store has one.
GetOrder(o) == rows[o]

Init ==
    /\ queue = MaxCopies
    /\ rows = [o \in Orders |-> NoRow]
    /\ log = [o \in Orders |-> {}]
    /\ fillRows = {}
    /\ raised = [e \in Events |-> 0]
    /\ position = [s \in Symbols |-> 0]
    /\ marks = {}
    /\ snapshot = [s \in Symbols |-> 0]
    /\ pc = "idle"
    /\ cur = NoRow /\ existing = NoRow /\ known = FALSE
    /\ applied = [e \in Events |-> 0]
    /\ behind = {} /\ trouble = {}

-------------------------------------------------------------------------------
\* The cycle ends; nothing of it is kept in memory.
EndCycle == pc' = "idle" /\ cur' = NoRow /\ existing' = NoRow /\ known' = FALSE

\* The cycle of e ends with an exception, which the worker loop logs.
Raise(kind, e) ==
    /\ EndCycle
    /\ trouble' = trouble \cup {kind}
    /\ raised' = [raised EXCEPT ![e] = @ + 1]

\* Read an event and the row of its order. An event without a positive
\* quantity raises before anything is stored.
Consume(e) ==
    /\ pc = "idle" /\ queue[e] > 0
    /\ queue' = [queue EXCEPT ![e] = @ - 1]
    /\ \/ e.quantity = 0 /\ Raise("poison", e)
       \/ /\ e.quantity > 0
          /\ pc' = "append" /\ cur' = e
          /\ known' = (GetOrder(e.order) # NoRow)
          /\ existing' = IF known' THEN GetOrder(e.order) ELSE Default(e)
          /\ UNCHANGED mishaps
    /\ UNCHANGED <<store, hist>>

\* append_lifecycle_event, first statement.
AppendEvent ==
    /\ pc = "append"
    /\ log' = [log EXCEPT ![cur.order] = @ \cup {cur}]
    /\ behind' = behind \cup {cur.order}
    /\ pc' = IF HasFill(cur) THEN "fill" ELSE "reconcile"
    /\ UNCHANGED <<queue, rows, fillRows, position, marks, snapshot, local,
                   applied, mishaps>>

\* The side of the order's row, whatever action the event names.
StoredSide(o) == IF rows[o] = NoRow THEN "BUY" ELSE rows[o].side

\* append_lifecycle_event, second statement: the fill needs its order's row.
InsertFill ==
    /\ pc = "fill"
    /\ \/ /\ ForeignKeys => rows[cur.order] # NoRow
          /\ fillRows' = {f \in fillRows : f.fill # cur}
                            \cup {[fill |-> cur, side |-> StoredSide(cur.order)]}
          /\ pc' = "reconcile"
          /\ UNCHANGED <<local, mishaps>>
       \/ /\ ForeignKeys /\ rows[cur.order] = NoRow
          /\ Raise("no_order", cur)
          /\ UNCHANGED fillRows
    /\ UNCHANGED <<queue, rows, log, position, marks, snapshot, hist>>

\* Slip: only the fill at hand is reconciled.
FillsAtHand(o) == IF HasFill(cur) THEN {cur} ELSE {}

\* The fills that name the order: those loaded from the store carry the
\* stored id, which a default row has only if the order's id is a UUID.
MatchingFills(o) == IF known \/ o \in UuidIds THEN Fills(log[o]) ELSE {}

\* Load the log, reconcile and upsert the order.
ReconcileOrder ==
    /\ pc = "reconcile"
    /\ LET o == cur.order IN
       /\ rows' = [rows EXCEPT ![o] = Reconcile(existing, log[o], MatchingFills(o))]
       /\ behind' = IF known \/ o \in UuidIds \/ Fills(log[o]) = {}
                    THEN behind \ {o} ELSE behind
    /\ pc' = IF HasFill(cur) THEN "position" ELSE "snapshot"
    /\ UNCHANGED <<queue, log, fillRows, position, marks, snapshot, local,
                   applied, mishaps>>


\* _signed_quantity
Signed(e) == IF e.side = "SELL" THEN -e.quantity ELSE e.quantity

\* get_position: the newest row of the symbol; none counts as a flat position.
GetPosition(s) == position[s]

\* upsert_position: the newest row of the symbol is replaced, or the first one
\* inserted.
UpsertPosition(s, quantity) == position' = [position EXCEPT ![s] = quantity]

\* apply_fill and upsert_position; a side other than BUY and SELL raises.
ApplyFill ==
    /\ pc = "position"
    /\ \/ /\ cur.side \in {"BUY", "SELL"}
          /\ LET s == Symbol[cur.order] IN UpsertPosition(s, GetPosition(s) + Signed(cur))
          /\ applied' = [applied EXCEPT ![cur] = @ + 1]
          /\ pc' = "mark"
          /\ UNCHANGED <<local, mishaps>>
       \/ /\ cur.side \notin {"BUY", "SELL"}
          /\ Raise("side", cur)
          /\ UNCHANGED <<position, applied>>
    /\ UNCHANGED <<queue, rows, log, fillRows, marks, snapshot, behind>>

UpsertMarkPrice ==
    /\ pc = "mark"
    /\ marks' = marks \cup {Symbol[cur.order]}
    /\ pc' = "snapshot"
    /\ UNCHANGED <<queue, rows, log, fillRows, position, snapshot, local, hist,
                   mishaps>>

\* list_positions: one position per symbol, its newest row.
ListPositions == [s \in Symbols |-> GetPosition(s)]

\* build_snapshot needs a mark price for every open position.
Unmarked(positions) == {s \in Symbols : positions[s] # 0} \ marks

\* Value the positions by the mark prices and insert the snapshot.
InsertSnapshot ==
    /\ pc = "snapshot"
    /\ \/ /\ Unmarked(ListPositions) = {}
          /\ snapshot' = ListPositions
          /\ EndCycle /\ UNCHANGED mishaps
       \/ /\ Unmarked(ListPositions) # {}
          /\ Raise("no_mark", cur) /\ UNCHANGED snapshot
    /\ UNCHANGED <<queue, rows, log, fillRows, position, marks, hist>>

\* A statement fails or the process dies between two of them (bound: once).
Outage ==
    /\ Outages /\ pc # "idle" /\ "outage" \notin trouble
    /\ Raise("outage", cur)
    /\ UNCHANGED <<queue, store, hist>>

\* run_once: the statements of a cycle, in the order pc gives them.
Worker == (\E e \in Events : Consume(e)) \/ AppendEvent \/ InsertFill \/ ReconcileOrder
              \/ ApplyFill \/ UpsertMarkPrice \/ InsertSnapshot

Next == Worker \/ Outage

Spec == Init /\ [][Next]_vars

-------------------------------------------------------------------------------
(* Properties *)

\* An order's filled quantity never exceeds its logged fills, a repeated fill
\* counted once, and equals their sum as soon as a cycle for the order gets as
\* far as the upsert: a cycle that failed halfway is repaired by the order's
\* next event.
RowFollowsLog ==
    \A o \in Orders : rows[o] # NoRow =>
        /\ rows[o].filled <= FilledQuantity(Fills(log[o]))
        /\ o \notin behind => rows[o].filled = FilledQuantity(Fills(log[o]))

\* The quantity the order was placed with, which its events other than fills
\* carry.
Wanted(o) ==
    CHOOSE q \in {e.quantity : e \in {f \in Events : f.order = o /\ ~HasFill(f)}} : q > 0

\* The status of a row depends on which events were logged, not on the order
\* or the number of times they arrived: FILLED when the whole quantity is
\* filled; otherwise, once there are fills, the closing status that was seen,
\* and PARTIALLY_FILLED if none was, or if a fill claimed to be the last.
StatusMatchesEvents ==
    \A o \in Orders : rows[o] # NoRow /\ o \notin behind =>
        LET sum    == FilledQuantity(Fills(log[o]))
            seen   == {EventStatus[e.type] : e \in log[o]}
            closed == seen \cap (Terminal \ {"FILLED"})
        IN  /\ sum >= Wanted(o) => rows[o].status = "FILLED"
            /\ sum \in 1 .. Wanted(o) - 1 =>
                  rows[o].status = IF closed = {} \/ "FILLED" \in seen
                                   THEN "PARTIALLY_FILLED" ELSE PickStatus(closed)

\* Only a fill that claims to be the last one can reopen a closed order, and
\* nothing can reopen a complete one: whatever else arrives late, repeated or
\* reordered, and wherever cycles fail, a terminal status is only replaced by
\* a terminal status of higher priority.
ReopenedOnlyByFill ==
    [][\A o \in Orders : rows[o] # NoRow /\ rows[o].status \in Terminal =>
          \/ Priority[rows'[o].status] >= Priority[rows[o].status]
          \/ /\ rows[o].filled < rows[o].requested
             /\ \E e \in log[o] : e.type = "filled"]_vars

\* The filled quantity of an order never goes down.
FilledNeverShrinks ==
    [][\A o \in Orders : rows[o] # NoRow => rows'[o].filled >= rows[o].filled]_vars

Consumed(e) == MaxCopies[e] - queue[e]

\* The net of the deliveries that were applied, by the action each event names.
NetApplied(s) ==
    LET of(side) == MapThenSumSet(LAMBDA e : applied[e] * e.quantity,
                        {e \in Events : Symbol[e.order] = s /\ e.side = side})
    IN  of("BUY") - of("SELL")


\* Every fill event read from the queue is applied to its position, unless
\* the database or the process failed.
FillsReachPosition ==
    pc = "idle" /\ "outage" \notin trouble =>
        \A e \in Events : HasFill(e) => applied[e] = Consumed(e)
===============================================================================
