--------------------------- MODULE MarketIngestion ---------------------------
(* The market data worker of services/workers/runtime_pipeline.py for one    *)
(* exchange and symbol: bootstrap from a REST snapshot, poll the stream,     *)
(* check its sequence numbers, fall back to REST, publish the delta, store   *)
(* it, poll the candles.  The exchange is external: a history of books, of   *)
(* which REST answers a recent one and the stream any (updates are lost,     *)
(* repeated and reordered).  Bids and asks are handled alike, so a book has  *)
(* one side.  Clocks are the ages and countdowns the worker compares.        *)
EXTENDS Integers, Sequences, SequencesExt, FiniteSets, FiniteSetsExt

CONSTANTS Null,
          Feeds,          \* the configurations of the worker (see Configurations)
          Prices,         \* price levels
          Intervals,      \* kline_intervals
          MaxSequence,    \* bound: updates of the exchange's book
          RestLag,        \* how many updates a REST answer may be behind
          StaleAfter,     \* ws_stale_after_seconds
          ProbeInterval,  \* ws_probe_interval_seconds
          MaxDelay,       \* BackoffConfig.max_delay_seconds
          KlinePoll,      \* kline_poll_interval_seconds
          MaxMarketFaults \* bound: failing REST calls, publishes, statements, restarts

(* Fetch mode, what the stream sends, whether REST answers carry a nonce,    *)
(* and whether candles are polled.                                           *)
Configurations == [mode : {"rest", "websocket"}, stream : {"full", "incremental"},
                   sequenced : BOOLEAN, klines : BOOLEAN]

ASSUME MarketAssumption ==
    /\ Feeds \subseteq Configurations
    /\ MaxSequence \in Nat \ {0} /\ RestLag \in Nat /\ MaxMarketFaults \in Nat
    /\ {StaleAfter, ProbeInterval, MaxDelay, KlinePoll} \subseteq Nat \ {0}

VARIABLES hist,      \* hist[k]: the exchange's book at sequence k
          feed,      \* the configuration
          engine,    \* OrderBookSyncEngine
          bootstrapped,
          mpc,       \* where run_once is
          delta,     \* the OrderBookDelta in hand
          age,       \* time since the heartbeat
          probe,     \* time until _next_ws_probe_monotonic
          attempts,  \* _disconnect_attempts
          klineAge,  \* time since _last_kline_poll_monotonic
          rowAge,    \* time since the rows of an interval were written
          barren,    \* history: intervals whose last answer held no usable bar
          klinesLeft,\* intervals the running candle poll has still to do
          reached,   \* history: the sequence number that subscribers have reached
          hidden,    \* history: the engine moved without an envelope reaching the broker
          loose,     \* history: the book holds updates whose place was not known
          mfaults

marketVars == <<hist, feed, engine, bootstrapped, mpc, delta, age, probe, attempts,
                klineAge, rowAge, barren, klinesLeft, reached, hidden, loose, mfaults>>

NoSequence == 0  \* `nonce or sequence`: a missing or zero nonce is None
Min2(a, b) == IF a < b THEN a ELSE b
Max2(a, b) == IF a > b THEN a ELSE b

---------------------------------------------------------------------------
(* Books, snapshots and deltas. *)

Levels(book) == [p \in {q \in Prices : book[q] > 0} |-> book[p]]
Touched(from, to) == {p \in Prices : \E k \in from..to : hist[k][p] # hist[k - 1][p]}

(* fetch_order_book and _normalize_snapshot / _snapshot_to_delta. *)
RestSnapshot(k) ==
    LET seq == IF feed.sequenced THEN k ELSE NoSequence
    IN  [from |-> "rest", start |-> seq, end |-> seq, levels |-> Levels(hist[k])]
RestSnapshots == {RestSnapshot(k) : k \in Max2(1, Len(hist) - RestLag)..Len(hist)}

(* watch_order_book and _normalize_delta: a whole book under one nonce (the  *)
(* HTTP and ccxt.pro clients) or the levels changed by updates U..u. Each of *)
(* the numbers may be missing from a message.                                *)
StreamDeltas ==
    IF feed.stream = "full"
    THEN UNION {{[from |-> "websocket", start |-> n, end |-> n, levels |-> Levels(hist[k])] :
                     n \in {k, NoSequence}} : k \in 1..Len(hist)}
    ELSE UNION {{[from |-> "websocket", start |-> m, end |-> n,
                  levels |-> [p \in Touched(r[1], r[2]) |-> hist[r[2]][p]]] :
                     m \in {r[1], NoSequence}, n \in {r[2], NoSequence}} :
             r \in {s \in (2..Len(hist)) \X (2..Len(hist)) : s[1] <= s[2]}}

\* Slip: a snapshot is merged into the book instead of replacing it.
LoadSnapshotMerges(snapshot) ==
    [seq |-> snapshot.end,
     book |-> [p \in Prices |-> IF p \in DOMAIN snapshot.levels THEN snapshot.levels[p]
                                ELSE engine.book[p]]]

(* OrderBookSyncEngine.load_snapshot. *)
LoadSnapshot(snapshot) ==
    [seq |-> snapshot.end,
     book |-> [p \in Prices |-> IF p \in DOMAIN snapshot.levels THEN snapshot.levels[p] ELSE 0]]

Sequenced(d) == engine.seq # NoSequence /\ d.start # NoSequence /\ d.end # NoSequence

(* GapDetectionModule.evaluate. *)
EvaluateGap(d) ==
    IF ~Sequenced(d) THEN "accept"
    ELSE IF d.end < engine.seq + 1 THEN "ignore_stale"
    ELSE IF d.start > engine.seq + 1 THEN "resync"
    ELSE "accept"

(* OrderBookSyncEngine.apply_delta: whether it takes the delta. *)
Accepts(d) == Sequenced(d) => d.end >= engine.seq + 1 /\ d.start <= engine.seq + 1

\* Slip: the engine advances to the first update of the delta.
ApplyDeltaFirst(d) ==
    [seq |-> IF d.end # NoSequence THEN d.start ELSE engine.seq,
     book |-> [p \in Prices |-> IF p \in DOMAIN d.levels THEN d.levels[p] ELSE engine.book[p]]]

ApplyDelta(d) ==
    [seq |-> IF d.end # NoSequence THEN d.end ELSE engine.seq,
     book |-> [p \in Prices |-> IF p \in DOMAIN d.levels THEN d.levels[p] ELSE engine.book[p]]]

(* A whole book without a number cannot be placed; a change cannot if its    *)
(* numbers were not compared with the engine's, nor can what follows it.     *)
Loosens(d) == IF feed.stream = "full" THEN d.end = NoSequence ELSE loose \/ ~Sequenced(d)

---------------------------------------------------------------------------
(* ConnectionResilienceManager. *)

IsStale == age > StaleAfter
Backoff(attempt) == Min2(2 ^ (attempt - 1), MaxDelay)
MaxAttempts == MaxDelay  \* 2^(MaxDelay-1) >= MaxDelay: later attempts back off alike

---------------------------------------------------------------------------
(* run_once. *)

(* run_worker_loop catches the exception and calls run_once again. *)
Raise == mpc' = "idle" /\ delta' = Null /\ klinesLeft' = {}

Faulty == mfaults < MaxMarketFaults /\ mfaults' = mfaults + 1

TimersUnchanged == UNCHANGED <<age, probe, attempts, klineAge, rowAge, barren>>

Bootstrap ==
    /\ mpc = "idle" /\ ~bootstrapped
    /\ \E s \in RestSnapshots :
           engine' = IF feed.mode = "websocket" THEN LoadSnapshot(s) ELSE engine
    /\ age' = IF feed.mode = "websocket" THEN 0 ELSE age
    /\ bootstrapped' = TRUE /\ hidden' = TRUE /\ loose' = FALSE /\ mpc' = "poll"
    /\ UNCHANGED <<hist, feed, delta, probe, attempts, klineAge, rowAge, barren, klinesLeft,
                   reached, mfaults>>

RunOnce ==
    /\ mpc = "idle" /\ bootstrapped
    /\ mpc' = "poll"
    /\ TimersUnchanged
    /\ UNCHANGED <<hist, feed, engine, bootstrapped, delta, klinesLeft, reached, hidden, loose, mfaults>>

(* poll_delta in REST mode: no engine, no integrity check. *)
PollRest ==
    /\ mpc = "poll" /\ feed.mode = "rest"
    /\ delta' \in RestSnapshots
    /\ mpc' = "publish"
    /\ TimersUnchanged
    /\ UNCHANGED <<hist, feed, engine, bootstrapped, klinesLeft, reached, hidden, loose, mfaults>>

(* _poll_websocket_delta_with_integrity: a stale stream is left alone until  *)
(* the next probe.                                                           *)
UsesRest == IsStale /\ probe > 0

CutOver ==
    /\ mpc = "poll" /\ feed.mode = "websocket" /\ UsesRest
    /\ mpc' = "rest"
    /\ TimersUnchanged
    /\ UNCHANGED <<hist, feed, engine, bootstrapped, delta, klinesLeft, reached, hidden, loose, mfaults>>

WatchFails ==
    /\ mpc = "poll" /\ feed.mode = "websocket" /\ ~UsesRest
    /\ attempts' = Min2(attempts + 1, MaxAttempts)
    /\ probe' = Max2(ProbeInterval, Backoff(attempts'))
    /\ mpc' = "rest"
    /\ UNCHANGED <<hist, feed, engine, bootstrapped, delta, age, klineAge, rowAge, barren,
                   klinesLeft, reached, hidden, loose, mfaults>>

(* _apply_integrity_to_websocket_delta. *)
WatchDelta ==
    /\ mpc = "poll" /\ feed.mode = "websocket" /\ ~UsesRest
    /\ \E d \in StreamDeltas :
           IF EvaluateGap(d) = "accept" /\ Accepts(d)
           THEN /\ engine' = ApplyDelta(d) /\ delta' = d /\ loose' = Loosens(d)
                /\ attempts' = 0 /\ age' = 0 /\ mpc' = "publish"
           ELSE /\ mpc' = "rest"
                /\ UNCHANGED <<engine, delta, loose, attempts, age>>
    /\ UNCHANGED <<hist, feed, bootstrapped, probe, klineAge, rowAge, barren, klinesLeft,
                   reached, hidden, mfaults>>

(* _fetch_rest_snapshot_delta: every snapshot, whatever asked for it, puts   *)
(* the next probe off.                                                       *)
FetchRestSnapshot ==
    /\ mpc = "rest"
    /\ \E s \in RestSnapshots : engine' = LoadSnapshot(s) /\ delta' = s
    /\ loose' = FALSE
    /\ probe' = ProbeInterval
    /\ mpc' = "publish"
    /\ UNCHANGED <<hist, feed, bootstrapped, age, attempts, klineAge, rowAge, barren, klinesLeft,
                   reached, hidden, mfaults>>

RestFails ==
    /\ \/ mpc = "idle" /\ ~bootstrapped
       \/ mpc = "poll" /\ feed.mode = "rest"
       \/ mpc = "rest"
    /\ Faulty /\ Raise
    /\ TimersUnchanged
    /\ UNCHANGED <<hist, feed, engine, bootstrapped, reached, hidden, loose>>

(* What subscribers learn from an envelope: a stream delta without a number  *)
(* leaves them where they are.                                               *)
Subscribers ==
    IF delta.from = "rest" \/ delta.end # NoSequence
    THEN reached' = delta.end /\ hidden' = FALSE
    ELSE UNCHANGED <<reached, hidden>>

(* publish_order_book_delta; a failing publish may have reached the broker. *)
Publish ==
    /\ mpc = "publish"
    /\ Subscribers /\ mpc' = "persist"
    /\ TimersUnchanged
    /\ UNCHANGED <<hist, feed, engine, bootstrapped, delta, klinesLeft, loose, mfaults>>

PublishFails ==
    /\ mpc = "publish"
    /\ \/ Subscribers
       \/ reached' = reached /\ hidden' = TRUE
    /\ Faulty /\ Raise
    /\ TimersUnchanged
    /\ UNCHANGED <<hist, feed, engine, bootstrapped, loose>>

(* persist_orderbook_envelope (the row repeats the envelope), then whether   *)
(* the candles are due.                                                      *)
Persist ==
    /\ mpc = "persist"
    /\ IF feed.klines /\ klineAge >= KlinePoll
       THEN mpc' = "klines" /\ klinesLeft' = Intervals /\ delta' = Null
       ELSE Raise
    /\ TimersUnchanged
    /\ UNCHANGED <<hist, feed, engine, bootstrapped, reached, hidden, loose, mfaults>>

\* Slip: the poll counts as done once its first interval is stored.
PollKlinesEarly(i, usable) ==
    /\ mpc = "klines" /\ i \in klinesLeft
    /\ rowAge' = IF usable THEN [rowAge EXCEPT ![i] = 0] ELSE rowAge
    /\ barren' = IF usable THEN barren \ {i} ELSE barren \cup {i}
    /\ klinesLeft' = klinesLeft \ {i}
    /\ klineAge' = 0
    /\ mpc' = IF klinesLeft' = {} THEN "idle" ELSE "klines"
    /\ UNCHANGED <<hist, feed, engine, bootstrapped, delta, age, probe, attempts, reached,
                   hidden, loose, mfaults>>

(* _poll_klines_if_due, one interval: fetch, store the usable bars of the    *)
(* answer, which may hold none, and after the last interval remember when    *)
(* the poll began (within the same unit of time).                            *)
PollKlines(i, usable) ==
    /\ mpc = "klines" /\ i \in klinesLeft
    /\ rowAge' = IF usable THEN [rowAge EXCEPT ![i] = 0] ELSE rowAge
    /\ barren' = IF usable THEN barren \ {i} ELSE barren \cup {i}
    /\ klinesLeft' = klinesLeft \ {i}
    /\ klineAge' = IF klinesLeft' = {} THEN 0 ELSE klineAge
    /\ mpc' = IF klinesLeft' = {} THEN "idle" ELSE "klines"
    /\ UNCHANGED <<hist, feed, engine, bootstrapped, delta, age, probe, attempts, reached,
                   hidden, loose, mfaults>>

StoreFails ==
    /\ mpc \in {"persist", "klines"}
    /\ Faulty /\ Raise
    /\ TimersUnchanged
    /\ UNCHANGED <<hist, feed, engine, bootstrapped, reached, hidden, loose>>

(* The worker process is restarted: its memory is gone. *)
Restart ==
    /\ Faulty /\ Raise
    /\ engine' = [seq |-> NoSequence, book |-> [p \in Prices |-> 0]]
    /\ bootstrapped' = FALSE /\ age' = StaleAfter + 1 /\ probe' = 0 /\ attempts' = 0
    /\ klineAge' = KlinePoll /\ hidden' = TRUE /\ loose' = FALSE
    /\ UNCHANGED <<hist, feed, rowAge, barren, reached>>

---------------------------------------------------------------------------
(* The exchange and the clock. *)

UpdateBook ==
    /\ Len(hist) < MaxSequence
    /\ \E p \in Prices, a \in 0..1 :
           /\ hist[Len(hist)][p] # a
           /\ hist' = Append(hist, [hist[Len(hist)] EXCEPT ![p] = a])
    /\ TimersUnchanged
    /\ UNCHANGED <<feed, engine, bootstrapped, mpc, delta, klinesLeft, reached, hidden, loose,
                   mfaults>>

(* Ages stop where no comparison tells them apart. *)
Tick ==
    /\ mpc = "idle"
    /\ age' = Min2(age + 1, StaleAfter + 1)
    /\ probe' = Max2(probe - 1, 0)
    /\ klineAge' = Min2(klineAge + 1, KlinePoll)
    /\ rowAge' = [i \in Intervals |-> Min2(rowAge[i] + 1, KlinePoll)]
    /\ UNCHANGED <<hist, feed, engine, bootstrapped, mpc, delta, attempts, barren, klinesLeft,
                   reached, hidden, loose, mfaults>>

MarketInit ==
    /\ hist \in {<<b>> : b \in [Prices -> 0..1]}
    /\ feed \in Feeds
    /\ engine = [seq |-> NoSequence, book |-> [p \in Prices |-> 0]]
    /\ bootstrapped = FALSE /\ mpc = "idle" /\ delta = Null
    /\ age = StaleAfter + 1 /\ probe = 0 /\ attempts = 0
    /\ klineAge = KlinePoll /\ rowAge = [i \in Intervals |-> KlinePoll] /\ klinesLeft = {}
    /\ barren = {} /\ reached = NoSequence /\ hidden = TRUE /\ loose = FALSE /\ mfaults = 0

WorkerStep ==
    \/ Bootstrap \/ RunOnce \/ PollRest \/ CutOver \/ WatchFails \/ WatchDelta
    \/ FetchRestSnapshot \/ RestFails \/ Publish \/ PublishFails \/ Persist
    \/ (\E i \in Intervals, usable \in BOOLEAN : PollKlines(i, usable))
    \/ StoreFails

MarketNext == WorkerStep \/ Restart \/ UpdateBook \/ Tick

(* The worker loop calls run_once again whatever happened, and time passes   *)
(* between one call and another.                                             *)
MarketSpec == MarketInit /\ [][MarketNext]_marketVars /\ WF_marketVars(WorkerStep)
              /\ SF_marketVars(Tick)

---------------------------------------------------------------------------
(* KlineReconstructionValidator.validate, on bars [open, sound] where sound  *)
(* stands for consistent high, low and volume; step is interval_ms.          *)

Monotonic(bars) == \A i \in 2..Len(bars) : bars[i].open > bars[i - 1].open

\* Slip: gaps are only looked for between bars that are in order.
MissingInOrder(bars, step) ==
    UNION {{t \in (bars[i - 1].open + step)..(bars[i].open - 1) :
               (t - bars[i - 1].open) % step = 0} : i \in 3..Len(bars)}

MissingOpenTimes(bars, step) ==
    LET sorted == SortSeq(bars, LAMBDA a, b : a.open < b.open)
    IN  UNION {{t \in (sorted[i - 1].open + step)..(sorted[i].open - 1) :
                   (t - sorted[i - 1].open) % step = 0} : i \in 2..Len(bars)}

IntervalMismatch(bars, step) ==
    LET sorted == SortSeq(bars, LAMBDA a, b : a.open < b.open)
    IN  \E i \in 2..Len(bars) : (sorted[i].open - sorted[i - 1].open) % step # 0

ValidBars(bars, step) ==
    /\ Monotonic(bars) /\ \A i \in 1..Len(bars) : bars[i].sound
    /\ ~IntervalMismatch(bars, step)
    /\ MissingOpenTimes(bars, step) = {}

---------------------------------------------------------------------------
(* Properties. *)

(* OrderBookSyncEngine's contract over lost, repeated and reordered updates  *)
(* and resyncs: at sequence k it holds every level the exchange had at k,    *)
(* and nothing else when the stream sends changes rather than whole books.   *)
(* (A whole book is applied as if it were changes: levels it no longer       *)
(* lists stay until the next snapshot.)  An update without its numbers is    *)
(* applied unchecked and leaves the book off, but only until the next        *)
(* snapshot or, on a stream of whole books, the next numbered book.          *)
BookFollowsExchange ==
    (feed.mode = "websocket" /\ engine.seq # NoSequence /\ ~loose) =>
        LET truth == hist[engine.seq]
        IN  /\ \A p \in Prices : truth[p] > 0 => engine.book[p] = truth[p]
            /\ feed.stream = "incremental" => engine.book = truth

(* A numbered delta taken from the stream is published right after what      *)
(* subscribers have, whatever deltas without numbers they were sent since:   *)
(* ahead of it and leaving out no update, unless the engine moved unseen     *)
(* (bootstrap, or a publish that did not arrive).                            *)
StreamContinuesPublication ==
    (/\ mpc = "publish" /\ delta.from = "websocket"
     /\ delta.start # NoSequence /\ delta.end # NoSequence
     /\ ~hidden /\ reached # NoSequence) =>
        delta.end > reached /\ delta.start <= reached + 1

(* While the worker believes the candles fresh, the rows of every interval   *)
(* are at least as fresh, or the exchange had no usable bar to give: a poll  *)
(* that failed half way is not remembered as done (runtime_pipeline.py sets  *)
(* _last_kline_poll_monotonic at the end).                                   *)
KlinesFresh ==
    klineAge < KlinePoll => \A i \in Intervals \ barren : rowAge[i] <= klineAge

=============================================================================
