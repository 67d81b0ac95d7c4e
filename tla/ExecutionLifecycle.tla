-------------------------- MODULE ExecutionLifecycle --------------------------
(***************************************************************************)
(* services/workers/execution_lifecycle.py: the worker that follows the    *)
(* orders of REAL intents at the exchange and publishes their status       *)
(* changes and fills as oms.order.* events.                                *)
(*                                                                         *)
(* run_once takes at most one intent, applies what the private order       *)
(* stream brings for the symbol of the first open order, polls every open  *)
(* order over REST when the stream is stale, and evicts terminal orders.   *)
(* It is one coroutine: its phases do not overlap, but the exchange, the   *)
(* stream and the Go service move between any two of its awaits, and an    *)
(* exception from publish abandons the rest of the cycle.                  *)
(***************************************************************************)
EXTENDS Naturals, Sequences, SequencesExt

CONSTANTS Orders,       \* tracking keys, one exchange order each
          Quantity,     \* requested quantity of each order
          Symbol,       \* symbol of each order
          Named,        \* orders whose intent carries a client_order_id
          NoId,         \* an identifier the worker does not know
          MaxTracked,   \* max_tracked_orders
          MaxPublish,   \* bound: how often each order's intent is published
          MaxFeed,      \* bound: stream updates waiting per symbol
          MaxFee,       \* bound: fees the exchange charges for each order
          MaxRepeats,   \* bound: fill events the broker took although publish raised
          Faults        \* "missing_total", "publish", "lost_update"

ASSUME LifecycleAssumption ==
    /\ Quantity \in [Orders -> Nat \ {0}]
    /\ Named \subseteq Orders /\ NoId \notin Orders
    /\ MaxTracked \in Nat \ {0} /\ MaxFeed \in Nat /\ MaxRepeats \in Nat
    /\ MaxPublish \in [Orders -> Nat] /\ MaxFee \in [Orders -> Nat]

\* "canceled" stands for canceled, rejected and expired: terminal statuses
\* whose events are not fill events.
Terminal == {"filled", "canceled"}

FillTypes == {"filled", "partially_filled"}

Symbols == {Symbol[o] : o \in Orders}

-------------------------------------------------------------------------------
VARIABLES
    exch,      \* the order at the exchange: status, filled quantity and fees
    feed,      \* updates the private stream holds for a symbol
    fresh,     \* the last stream update is younger than the stale limit
    intents,   \* execution.intent.real.lifecycle
    sent,      \* history: how often each intent was published
    tracked,   \* _tracked_orders, in insertion order
    entry,     \* what the worker knows of an order it tracks
    phase,     \* where run_once is
    batch,     \* stream updates still to be applied in this cycle
    todo,      \* open orders still to be polled in this cycle
    fills,     \* quantity reported to OMS in fill events
    repeats,   \* history: how often a reported fill could become due again
    swallowed, \* history: a canceled snapshot brought new quantity
    misread    \* history: pairs of an order and another one whose update was
               \* applied to it

exchVars == <<exch, feed>>
workVars == <<tracked, entry>>
histVars == <<fills, repeats, swallowed, misread>>
vars == <<exch, feed, fresh, intents, sent, tracked, entry, phase, batch, todo,
          fills, repeats, swallowed, misread>>

\* An exchange order and its client_order_id are both written o: exid and
\* client say which ones the worker has stored for a tracking key.
NewEntry(o) == [status |-> "submitted", reported |-> 0, fee |-> 0, exid |-> NoId,
                client |-> IF o \in Named THEN o ELSE NoId]

Init ==
    /\ exch = [o \in Orders |-> [status |-> "none", filled |-> 0, fee |-> 0]]
    /\ feed = [s \in Symbols |-> <<>>]
    /\ fresh = FALSE
    /\ intents = <<>>
    /\ sent = [o \in Orders |-> 0]
    /\ tracked = <<>>
    /\ entry = [o \in Orders |-> NewEntry(o)]
    /\ phase = "intent"
    /\ batch = <<>>
    /\ todo = <<>>
    /\ fills = [o \in Orders |-> 0]
    /\ repeats = [o \in Orders |-> 0]
    /\ swallowed = [o \in Orders |-> FALSE]
    /\ misread = {}

-------------------------------------------------------------------------------
(* The exchange and the queue *)

\* A snapshot of order o: what the exchange knows, the filled quantity left
\* out by some answers.
Snapshots(o) ==
    {[order |-> o, status |-> exch[o].status, total |-> t, fee |-> exch[o].fee] :
        t \in {exch[o].filled} \cup
              (IF "missing_total" \in Faults THEN {0} ELSE {})}

\* The orchestrator publishes the intent of o, or publishes it again.
PublishIntent(o) ==
    /\ sent[o] < MaxPublish[o]
    /\ sent' = [sent EXCEPT ![o] = @ + 1]
    /\ intents' = Append(intents, o)
    /\ UNCHANGED <<exchVars, fresh, workVars, phase, batch, todo, histVars>>

ExchangeMoves(o) ==
    LET e == exch[o] q == Quantity[o] IN
    \/ e.status = "none" /\ sent[o] > 0 /\ exch' = [exch EXCEPT ![o].status = "submitted"]
    \/ /\ e.status \in {"submitted", "partially_filled"}
       /\ \/ \E n \in e.filled + 1 .. q, f \in e.fee .. MaxFee[o] :
               exch' = [exch EXCEPT ![o] =
                  [status |-> IF n = q THEN "filled" ELSE "partially_filled",
                   filled |-> n, fee |-> f]]
          \/ exch' = [exch EXCEPT ![o].status = "canceled"]

\* The exchange accepts, fills or cancels the order and tells the stream; the
\* update may be lost on the way.
Exchange(o) ==
    /\ ExchangeMoves(o)
    /\ \/ "lost_update" \in Faults /\ UNCHANGED feed
       \/ /\ Len(feed[Symbol[o]]) < MaxFeed
          /\ \E s \in Snapshots(o)' :
               feed' = [feed EXCEPT ![Symbol[o]] = Append(@, s)]
    /\ UNCHANGED <<fresh, intents, sent, workVars, phase, batch, todo, histVars>>

\* stream_stale_after_seconds pass without a stream update.
StreamGoesStale ==
    /\ fresh
    /\ fresh' = FALSE
    /\ UNCHANGED <<exchVars, intents, sent, workVars, phase, batch, todo, histVars>>

-------------------------------------------------------------------------------
(* _track_execution_intent *)

IsTerminal(o) == entry[o].status \in Terminal

OpenOrders == SelectSeq(tracked, LAMBDA o : ~IsTerminal(o))

\* _evict_terminal_orders pops the orders of E.
Evicted(E) == SelectSeq(tracked, LAMBDA o : o \notin E)

\* A new order finds room at once or after a forced eviction; otherwise its
\* intent is dropped. An order that was evicted after fills starts from zero.
Track(o) ==
    IF o \in Range(tracked)
    THEN /\ entry' = [entry EXCEPT ![o].client = IF o \in Named THEN o ELSE @]
         /\ UNCHANGED <<tracked, repeats>>
    ELSE LET E    == IF Len(tracked) >= MaxTracked
                     THEN {p \in Range(tracked) : IsTerminal(p)} ELSE {}
             room == Len(Evicted(E)) < MaxTracked
         IN  /\ tracked' = Evicted(E) \o (IF room THEN <<o>> ELSE <<>>)
             /\ entry' = [p \in Orders |-> IF p \in E THEN NewEntry(p) ELSE entry[p]]
             /\ repeats' = [repeats EXCEPT ![o] = IF room /\ fills[o] > 0 THEN @ + 1 ELSE @]

TakeIntent ==
    /\ phase = "intent"
    /\ phase' = "poll"
    /\ \/ /\ intents # <<>>
          /\ intents' = Tail(intents)
          /\ Track(Head(intents))
       \/ UNCHANGED <<intents, tracked, entry, repeats>>
    /\ UNCHANGED <<exchVars, fresh, sent, batch, todo, fills, swallowed, misread>>

-------------------------------------------------------------------------------
(* _apply_snapshot *)

\* _resolve_order: by exchange order id, by client order id, or the only order
\* tracked for the symbol.
Resolve(sn) ==
    LET byId     == SelectSeq(tracked, LAMBDA o : entry[o].exid = sn.order)
        byClient == SelectSeq(tracked, LAMBDA o : entry[o].client = sn.order)
        bySymbol == SelectSeq(tracked, LAMBDA o : Symbol[o] = Symbol[sn.order])
    IN  CASE byId # <<>>       -> Head(byId)
          [] byId = <<>> /\ byClient # <<>> -> Head(byClient)
          [] byId = <<>> /\ byClient = <<>> /\ Len(bySymbol) = 1 -> Head(bySymbol)
          [] OTHER             -> NoId

AtLeast(a, b) == IF a > b THEN a ELSE b

\* total_filled is at least what was reported: fill_delta is never negative.
FillDelta(e, sn) == AtLeast(sn.total, e.reported) - e.reported

\* A filled order whose snapshot brings no new quantity is taken to have
\* filled what remains.
EventQuantity(e, sn, requested) ==
    CASE sn.status \notin FillTypes -> requested
      [] sn.status \in FillTypes /\ FillDelta(e, sn) > 0 -> FillDelta(e, sn)
      [] sn.status = "filled" /\ FillDelta(e, sn) = 0 ->
            AtLeast(requested, e.reported) - e.reported
      [] OTHER -> 0

\* Slip: only new fills and fees make an event, not a change of status.
EmitsOnNewQuantity(e, sn, requested) ==
    /\ FillDelta(e, sn) > 0 \/ sn.fee > e.fee
    /\ EventQuantity(e, sn, requested) > 0

Emits(e, sn, requested) ==
    /\ sn.status # e.status \/ FillDelta(e, sn) > 0 \/ sn.fee > e.fee
    /\ EventQuantity(e, sn, requested) > 0

WithIds(e, sn) ==
    [e EXCEPT !.exid   = IF @ = NoId THEN sn.order ELSE @,
              !.client = IF @ = NoId THEN sn.order ELSE @]

\* Slip: the snapshot's total is recorded even if it is an older one.
RecordedLast(e, sn) ==
    [WithIds(e, sn) EXCEPT !.status = sn.status, !.reported = sn.total, !.fee = sn.fee]

Recorded(e, sn) ==
    [WithIds(e, sn) EXCEPT !.status   = sn.status,
                           !.reported = AtLeast(@, sn.total),
                           !.fee      = AtLeast(@, sn.fee)]

\* The event carries an inferred quantity, which is not recorded as reported.
Inferred(e, sn) == sn.status = "filled" /\ FillDelta(e, sn) = 0

Reported(o, sn) ==
    fills' = [fills EXCEPT ![o] = @ +
                IF sn.status \in FillTypes
                THEN EventQuantity(entry[o], sn, Quantity[o]) ELSE 0]

\* The rest of the cycle is abandoned when publish raises.
Abandon == phase' = "intent" /\ batch' = <<>> /\ todo' = <<>>

\* Slip: the order is recorded before the event is published.
RecordedBeforePublish(o, sn) ==
    /\ "publish" \in Faults
    /\ entry' = [entry EXCEPT ![o] = Recorded(@, sn)]
    /\ UNCHANGED <<fills, repeats, swallowed>>
    /\ Abandon

\* publish raised: the ids are learned and nothing else is recorded, although
\* the broker may have taken the event.
PublishRaises(o, sn) ==
    /\ "publish" \in Faults
    /\ entry' = [entry EXCEPT ![o] = WithIds(@, sn)]
    /\ \/ UNCHANGED <<fills, repeats>>
       \/ /\ sn.status \in FillTypes
          /\ repeats[o] < MaxRepeats
          /\ Reported(o, sn)
          /\ repeats' = [repeats EXCEPT ![o] = @ + 1]
    /\ UNCHANGED swallowed
    /\ Abandon

PublishAndRecord(o, sn) ==
    /\ entry' = [entry EXCEPT ![o] = Recorded(@, sn)]
    /\ Reported(o, sn)
    /\ repeats' = [repeats EXCEPT ![o] = IF Inferred(entry[o], sn) THEN @ + 1 ELSE @]
    /\ swallowed' = [swallowed EXCEPT ![o] =
                        @ \/ (sn.status \notin FillTypes /\ FillDelta(entry[o], sn) > 0)]

\* Apply sn; Proceed is what the loop around the call does next.
ApplySnapshot(sn, Proceed) ==
    LET o == Resolve(sn) IN
    /\ \/ o = NoId /\ Proceed /\ UNCHANGED <<entry, histVars>>
       \/ /\ o # NoId
          /\ misread' = IF o = sn.order THEN misread ELSE misread \cup {<<o, sn.order>>}
          /\ \/ /\ ~Emits(entry[o], sn, Quantity[o])
                /\ entry' = [entry EXCEPT ![o] = WithIds(@, sn)]
                /\ UNCHANGED <<fills, repeats, swallowed>>
                /\ Proceed
             \/ /\ Emits(entry[o], sn, Quantity[o])
                /\ \/ PublishAndRecord(o, sn) /\ Proceed
                   \/ PublishRaises(o, sn)
    /\ UNCHANGED tracked

-------------------------------------------------------------------------------
(* run_once *)

\* The stream connector watches the symbol of the first open order, and
\* returns what waits there, or nothing before its timeout.
PollStream ==
    /\ phase = "poll"
    /\ phase' = "apply"
    /\ \/ /\ OpenOrders # <<>>
          /\ LET s == Symbol[Head(OpenOrders)] IN
             /\ feed[s] # <<>>
             /\ batch' = feed[s]
             /\ feed' = [feed EXCEPT ![s] = <<>>]
          /\ fresh' = TRUE
       \/ UNCHANGED <<feed, batch, fresh>>
    /\ UNCHANGED <<exch, intents, sent, workVars, todo, histVars>>

ApplyUpdate ==
    /\ phase = "apply" /\ batch # <<>>
    /\ ApplySnapshot(Head(batch), batch' = Tail(batch) /\ UNCHANGED <<phase, todo>>)
    /\ UNCHANGED <<exchVars, fresh, intents, sent>>

\* _should_poll_rest_fallback: some order is open, the poll interval has
\* passed (at any time) and the stream is stale.
StartFallback ==
    /\ phase = "apply" /\ batch = <<>>
    /\ OpenOrders # <<>> /\ ~fresh
    /\ phase' = "rest" /\ todo' = OpenOrders
    /\ UNCHANGED <<exchVars, fresh, intents, sent, workVars, batch, histVars>>

SkipFallback ==
    /\ phase = "apply" /\ batch = <<>>
    /\ phase' = "rest"
    /\ UNCHANGED <<exchVars, fresh, intents, sent, workVars, batch, todo, histVars>>

\* fetch_status asks for the exchange order id the worker holds and the exchange
\* answers. The request of an order known by its client id alone carries the id
\* None as text, and is never answered with an order.
PollOrder(o) ==
    /\ phase = "rest" /\ todo # <<>> /\ Head(todo) = o
    /\ LET id == entry[o].exid IN
       /\ id # NoId /\ exch[id].status # "none"
       /\ \E sn \in Snapshots(id) :
            ApplySnapshot(sn, todo' = Tail(todo) /\ UNCHANGED <<phase, batch>>)
    /\ UNCHANGED <<exchVars, fresh, intents, sent>>

\* fetch_status returns None: no id, an unknown order or a failed request.
PollNothing ==
    /\ phase = "rest" /\ todo # <<>>
    /\ todo' = Tail(todo)
    /\ UNCHANGED <<exchVars, fresh, intents, sent, workVars, phase, batch, histVars>>

\* _evict_terminal_orders: the terminal orders whose retention has passed go.
EndCycle ==
    /\ phase = "rest" /\ todo = <<>>
    /\ phase' = "intent"
    /\ \E E \in SUBSET {o \in Range(tracked) : IsTerminal(o)} :
         /\ tracked' = Evicted(E)
         /\ entry' = [o \in Orders |-> IF o \in E THEN NewEntry(o) ELSE entry[o]]
    /\ UNCHANGED <<exchVars, fresh, intents, sent, batch, todo, histVars>>

Worker == TakeIntent \/ PollStream \/ ApplyUpdate \/ StartFallback \/ SkipFallback
              \/ (\E o \in Orders : PollOrder(o)) \/ PollNothing \/ EndCycle

Next ==
    \/ \E o \in Orders : PublishIntent(o) \/ Exchange(o)
    \/ StreamGoesStale
    \/ Worker

Spec == Init /\ [][Next]_vars

\* The worker loop never stops, time passes, and the poll interval ends; the
\* exchange and the broker answer again and again.
FairSpec ==
    /\ Spec
    /\ WF_vars(Worker) /\ WF_vars(StreamGoesStale) /\ SF_vars(StartFallback)
    /\ \A o \in Orders : SF_vars(PollOrder(o) /\ phase' = "rest")

-------------------------------------------------------------------------------
(* Properties *)

\* The fill events of an order add up to reported_filled_quantity, which the
\* exchange has reached, however stream and REST snapshots interleave, repeat,
\* arrive late or fail to publish. Three things make a fill due again: a publish
\* that raised although the broker took the event, a quantity inferred from a
\* snapshot without a total, and an order tracked anew after its eviction. Each
\* of them repeats at most the order's quantity, once. Nothing reported is
\* missing from the events unless a canceled snapshot swallowed it.
FillConservation ==
    \A o \in Orders :
        LET excess == repeats[o] * Quantity[o]
        IN  /\ fills[o] <= exch[o].filled + excess
            /\ o \in Range(tracked) => fills[o] <= entry[o].reported + excess
            /\ o \in Range(tracked) /\ ~swallowed[o] => fills[o] >= entry[o].reported

\* When the worker holds an order to be filled, OMS has been told of fills
\* for its whole quantity, even if no snapshot carried that quantity.
FilledIsComplete ==
    \A o \in Range(tracked) :
        entry[o].status = "filled" => fills[o] >= Quantity[o]

\* Every snapshot is applied to the order it is about (_resolve_order).
AttributionSound == misread = {}

\* An order canceled at the exchange ends up canceled in the tracker for good,
\* even if a late stream update has reopened it, once the worker has learned its
\* exchange order id from the stream: REST answers for no other order.
CanceledSettles ==
    \A o \in Orders :
        <>[](exch[o].status = "canceled" /\ o \in Range(tracked) /\ entry[o].exid # NoId
                => entry[o].status = "canceled")

\* reported_filled_quantity is what was reported: every quantity the worker
\* has recorded as reported has been published in a fill event.
ReportedIsPublished ==
    \A o \in Range(tracked) : fills[o] >= entry[o].reported
===============================================================================
