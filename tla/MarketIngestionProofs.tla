------------------------ MODULE MarketIngestionProofs ------------------------
(***************************************************************************)
(* Proofs about the market data worker, for any history of the exchange's  *)
(* book, any set of prices and intervals, and any loss, repetition and     *)
(* reordering of the stream.                                               *)
(***************************************************************************)
EXTENDS MarketIngestion, TLAPS

Book == [Prices -> 0..1]

\* Types, and where the engine has a sequence number: not before the bootstrap, and from
\* then on if REST answers carry one.
EngineInv ==
    /\ hist \in Seq(Book) /\ Len(hist) >= 1
    /\ feed \in Configurations
    /\ engine \in [seq : Nat, book : Book] /\ engine.seq <= Len(hist)
    /\ mpc # "idle" => bootstrapped
    /\ feed.sequenced /\ bootstrapped /\ feed.mode = "websocket" => engine.seq # NoSequence

-----------------------------------------------------------------------------
(* What arrives *)

\* A REST answer is the book of the exchange at some update, under its number or none.
LEMMA RestAnswers ==
    ASSUME EngineInv, NEW s \in RestSnapshots
    PROVE  \E k \in 1..Len(hist) :
             /\ s.from = "rest" /\ s.levels = Levels(hist[k])
             /\ s.start = s.end /\ s.end = IF feed.sequenced THEN k ELSE NoSequence
<1>1. PICK k \in Max2(1, Len(hist) - RestLag)..Len(hist) : s = RestSnapshot(k)
  BY DEF RestSnapshots
<1>2. Len(hist) \in Nat
  BY DEF EngineInv
<1>3. k \in 1..Len(hist)
  BY <1>1, <1>2, MarketAssumption DEF Max2
<1> QED
  BY <1>1, <1>3 DEF RestSnapshot

\* A stream message is a whole book, or the levels that a range of updates changed; its
\* numbers are theirs, or missing.
LEMMA StreamMessages ==
    ASSUME EngineInv, NEW d \in StreamDeltas
    PROVE  \E j, k \in 1..Len(hist) :
             /\ d.from = "websocket" /\ j <= k
             /\ d.start \in {j, NoSequence} /\ d.end \in {k, NoSequence}
             /\ feed.stream = "full" => d.levels = Levels(hist[k])
             /\ feed.stream # "full" =>
                  j >= 2 /\ d.levels = [p \in Touched(j, k) |-> hist[k][p]]
<1>0. Len(hist) \in Nat
  BY DEF EngineInv
<1>1. CASE feed.stream = "full"
  <2>1. PICK k \in 1..Len(hist) : \E n \in {k, NoSequence} :
           d = [from |-> "websocket", start |-> n, end |-> n, levels |-> Levels(hist[k])]
    BY <1>1 DEF StreamDeltas
  <2>2. /\ d.from = "websocket" /\ d.start \in {k, NoSequence} /\ d.end \in {k, NoSequence}
        /\ d.levels = Levels(hist[k])
    BY <2>1
  <2>3. k <= k
    BY <1>0
  <2> QED
    BY <1>1, <2>2, <2>3
<1>2. CASE feed.stream # "full"
  <2>1. PICK r \in (2..Len(hist)) \X (2..Len(hist)) :
           /\ r[1] <= r[2]
           /\ \E m \in {r[1], NoSequence}, n \in {r[2], NoSequence} :
                d = [from |-> "websocket", start |-> m, end |-> n,
                     levels |-> [p \in Touched(r[1], r[2]) |-> hist[r[2]][p]]]
    BY <1>2 DEF StreamDeltas
  <2>2. r[1] \in 1..Len(hist) /\ r[2] \in 1..Len(hist) /\ r[1] >= 2
    BY <1>0, <2>1
  <2>3. /\ d.from = "websocket" /\ d.start \in {r[1], NoSequence} /\ d.end \in {r[2], NoSequence}
        /\ d.levels = [p \in Touched(r[1], r[2]) |-> hist[r[2]][p]]
    BY <2>1
  <2> QED
    BY <1>2, <2>1, <2>2, <2>3
<1> QED
  BY <1>1, <1>2

\* Applying a message: a level it does not carry keeps the engine's amount, and the others
\* get the exchange's; without a number the engine keeps its own.
LEMMA AppliedBook ==
    ASSUME EngineInv, NEW d \in StreamDeltas
    PROVE  \E j, k \in 1..Len(hist) :
             /\ d.from = "websocket" /\ j <= k
             /\ d.start \in {j, NoSequence} /\ d.end \in {k, NoSequence}
             /\ feed.stream = "full" => DOMAIN d.levels = {p \in Prices : hist[k][p] > 0}
             /\ feed.stream # "full" => j >= 2 /\ DOMAIN d.levels = Touched(j, k)
             /\ ApplyDelta(d).seq = IF d.end # NoSequence THEN k ELSE engine.seq
             /\ ApplyDelta(d).book \in Book
             /\ \A p \in Prices : ApplyDelta(d).book[p] =
                   IF p \in DOMAIN d.levels THEN hist[k][p] ELSE engine.book[p]
<1>1. PICK j \in 1..Len(hist), k \in 1..Len(hist) :
         /\ d.from = "websocket" /\ j <= k
         /\ d.start \in {j, NoSequence} /\ d.end \in {k, NoSequence}
         /\ feed.stream = "full" => d.levels = Levels(hist[k])
         /\ feed.stream # "full" =>
              j >= 2 /\ d.levels = [p \in Touched(j, k) |-> hist[k][p]]
  BY StreamMessages
<1>2. \A p \in Prices : p \in DOMAIN d.levels => d.levels[p] = hist[k][p]
  BY <1>1 DEF Levels
<1>3. hist[k] \in Book /\ engine.book \in Book
  BY <1>1 DEF EngineInv
<1>4. /\ ApplyDelta(d).book \in Book
      /\ \A p \in Prices : ApplyDelta(d).book[p] =
            IF p \in DOMAIN d.levels THEN hist[k][p] ELSE engine.book[p]
  BY <1>2, <1>3 DEF ApplyDelta, Book
<1>5. ApplyDelta(d).seq = IF d.end # NoSequence THEN k ELSE engine.seq
  BY <1>1 DEF ApplyDelta
<1>6. /\ feed.stream = "full" => DOMAIN d.levels = {p \in Prices : hist[k][p] > 0}
      /\ feed.stream # "full" => j >= 2 /\ DOMAIN d.levels = Touched(j, k)
  BY <1>1 DEF Levels
<1> QED
  BY <1>1, <1>4, <1>5, <1>6

\* A snapshot replaces the book by the exchange's book of its update.
LEMMA LoadedBook ==
    ASSUME EngineInv, NEW s \in RestSnapshots
    PROVE  \E k \in 1..Len(hist) :
             /\ LoadSnapshot(s).seq = IF feed.sequenced THEN k ELSE NoSequence
             /\ LoadSnapshot(s).book = hist[k] /\ hist[k] \in Book
<1>1. PICK k \in 1..Len(hist) : /\ s.levels = Levels(hist[k])
                                /\ s.end = IF feed.sequenced THEN k ELSE NoSequence
  BY RestAnswers
<1>2. hist[k] \in Book
  BY <1>1 DEF EngineInv
<1>3. LoadSnapshot(s).book
        = [p \in Prices |-> IF p \in DOMAIN s.levels THEN s.levels[p] ELSE 0]
  BY DEF LoadSnapshot
<1>4. \A p \in Prices : (IF p \in DOMAIN s.levels THEN s.levels[p] ELSE 0) = hist[k][p]
  BY <1>1, <1>2 DEF Levels, Book
<1>5. LoadSnapshot(s).book = hist[k]
  BY <1>2, <1>3, <1>4 DEF Book
<1> QED
  BY <1>1, <1>2, <1>5 DEF LoadSnapshot

-----------------------------------------------------------------------------
(* The engine and its sequence number *)

LEMMA EngineInvInit == MarketInit => EngineInv
<1> SUFFICES ASSUME MarketInit PROVE EngineInv
  OBVIOUS
<1>1. PICK b \in Book : hist = <<b>>
  BY DEF MarketInit, Book
<1>2. hist \in Seq(Book) /\ Len(hist) = 1
  BY <1>1
<1>3. engine \in [seq : Nat, book : Book] /\ engine.seq = 0
  BY DEF MarketInit, NoSequence, Book
<1> QED
  BY <1>2, <1>3, MarketAssumption DEF MarketInit, EngineInv

\* Every step keeps the types, and only a restart takes the sequence number away.
LEMMA EngineInvStep == EngineInv /\ [MarketNext]_marketVars => EngineInv'
<1> SUFFICES ASSUME EngineInv, [MarketNext]_marketVars PROVE EngineInv'
  OBVIOUS
<1>1. CASE UNCHANGED <<hist, feed, engine, bootstrapped>> /\ (mpc' = "idle" \/ mpc' = mpc)
  BY <1>1 DEF EngineInv
<1>2. CASE UNCHANGED <<hist, feed, engine, bootstrapped>> /\ bootstrapped
  BY <1>2 DEF EngineInv
<1>3. CASE Bootstrap
  <2>1. PICK s \in RestSnapshots :
           engine' = IF feed.mode = "websocket" THEN LoadSnapshot(s) ELSE engine
    BY <1>3 DEF Bootstrap
  <2>2. PICK k \in 1..Len(hist) :
           /\ LoadSnapshot(s).seq = IF feed.sequenced THEN k ELSE NoSequence
           /\ LoadSnapshot(s).book = hist[k] /\ hist[k] \in Book
    BY LoadedBook
  <2>3. LoadSnapshot(s) \in [seq : Nat, book : Book] /\ LoadSnapshot(s).seq <= Len(hist)
    BY <2>2 DEF LoadSnapshot, NoSequence, EngineInv
  <2> QED
    BY <1>3, <2>1, <2>2, <2>3 DEF Bootstrap, EngineInv, NoSequence
<1>4. CASE WatchDelta
  <2>1. PICK d \in StreamDeltas :
           IF EvaluateGap(d) = "accept" /\ Accepts(d)
           THEN engine' = ApplyDelta(d) ELSE engine' = engine
    BY <1>4 DEF WatchDelta
  <2>2. UNCHANGED <<hist, feed, bootstrapped>> /\ mpc # "idle"
    BY <1>4 DEF WatchDelta
  <2>4. PICK k \in 1..Len(hist) : /\ ApplyDelta(d).seq \in {k, engine.seq}
                                  /\ ApplyDelta(d).book \in Book
    BY AppliedBook
  <2>5. /\ ApplyDelta(d) \in [seq : Nat, book : Book] /\ ApplyDelta(d).seq <= Len(hist)
        /\ ApplyDelta(d).seq = NoSequence => engine.seq = NoSequence
    BY <2>4 DEF ApplyDelta, EngineInv, NoSequence
  <2> QED
    BY <2>1, <2>2, <2>5 DEF EngineInv, NoSequence
<1>5. CASE FetchRestSnapshot
  <2>1. PICK s \in RestSnapshots : engine' = LoadSnapshot(s)
    BY <1>5 DEF FetchRestSnapshot
  <2>2. PICK k \in 1..Len(hist) :
           /\ LoadSnapshot(s).seq = IF feed.sequenced THEN k ELSE NoSequence
           /\ LoadSnapshot(s).book = hist[k] /\ hist[k] \in Book
    BY LoadedBook
  <2>3. LoadSnapshot(s) \in [seq : Nat, book : Book] /\ LoadSnapshot(s).seq <= Len(hist)
    BY <2>2 DEF LoadSnapshot, NoSequence, EngineInv
  <2> QED
    BY <1>5, <2>1, <2>2, <2>3 DEF FetchRestSnapshot, EngineInv, NoSequence
<1>6. CASE Restart
  BY <1>6 DEF Restart, Raise, EngineInv, NoSequence, Book
<1>7. CASE UpdateBook
  <2>1. PICK p \in Prices, a \in 0..1 :
           hist' = Append(hist, [hist[Len(hist)] EXCEPT ![p] = a])
    BY <1>7, ZenonT(60) DEF UpdateBook
  <2>2. [hist[Len(hist)] EXCEPT ![p] = a] \in Book
    BY DEF EngineInv, Book
  <2>3. hist' \in Seq(Book) /\ Len(hist') = Len(hist) + 1 /\ Len(hist) \in Nat
    BY <2>1, <2>2 DEF EngineInv
  <2> QED
    BY <1>7, <2>3 DEF UpdateBook, EngineInv
<1>8. CASE MarketNext /\ ~ Bootstrap /\ ~ WatchDelta /\ ~ FetchRestSnapshot /\ ~ Restart
           /\ ~ UpdateBook
  BY <1>1, <1>2, <1>8 DEF MarketNext, WorkerStep, RunOnce, PollRest, CutOver, WatchFails,
    RestFails, Publish, PublishFails, Persist, PollKlines, StoreFails, Tick, Raise, EngineInv
<1>9. CASE UNCHANGED marketVars
  BY <1>1, <1>9 DEF marketVars
<1> QED
  BY <1>3, <1>4, <1>5, <1>6, <1>7, <1>8, <1>9

-----------------------------------------------------------------------------
(* The book *)

\* A level whose amount differs between two updates was changed by an update in between:
\* stated of the history as a whole, so that it is kept as the history grows.
HistoryInv ==
    \A p \in Prices : \A j, k \in 1..Len(hist) :
        j <= k => \/ hist[j][p] = hist[k][p]
                  \/ \E i \in (j + 1)..k : hist[i][p] # hist[i - 1][p]

LEMMA HistoryInvStep == EngineInv /\ HistoryInv /\ [MarketNext]_marketVars => HistoryInv'
<1> SUFFICES ASSUME EngineInv, HistoryInv, [MarketNext]_marketVars PROVE HistoryInv'
  OBVIOUS
<1>1. CASE hist' = hist
  BY <1>1 DEF HistoryInv
<1>2. CASE UpdateBook
  <2>1. PICK b : hist' = Append(hist, b)
    BY <1>2 DEF UpdateBook
  <2> DEFINE n == Len(hist)
  <2>2. /\ n \in Nat /\ n >= 1 /\ Len(hist') = n + 1
        /\ \A i \in 1..n : hist'[i] = hist[i]
    BY <2>1 DEF EngineInv
  <2> HIDE DEF n
  <2> SUFFICES ASSUME NEW p \in Prices, NEW j \in 1..(n + 1), NEW k \in 1..(n + 1), j <= k
               PROVE  \/ hist'[j][p] = hist'[k][p]
                      \/ \E i \in (j + 1)..k : hist'[i][p] # hist'[i - 1][p]
    BY <2>2 DEF HistoryInv
  <2>3. \A m \in 1..n : j <= m => \/ hist'[j][p] = hist'[m][p]
                                 \/ \E i \in (j + 1)..m : hist'[i][p] # hist'[i - 1][p]
    <3> SUFFICES ASSUME NEW m \in 1..n, j <= m, hist'[j][p] # hist'[m][p]
                 PROVE  \E i \in (j + 1)..m : hist'[i][p] # hist'[i - 1][p]
      OBVIOUS
    <3>1. j \in 1..n /\ hist[j][p] # hist[m][p]
      BY <2>2
    <3>2. PICK i \in (j + 1)..m : hist[i][p] # hist[i - 1][p]
      BY <3>1 DEF HistoryInv, n
    <3>3. i \in 1..n /\ i - 1 \in 1..n
      BY <2>2, <3>1, <3>2
    <3> QED
      BY <2>2, <3>2, <3>3
  <2>4. CASE k = n + 1 /\ j <= n
    <3>1. CASE hist'[n + 1][p] # hist'[n][p]
      <4>1. n + 1 \in (j + 1)..k /\ (n + 1) - 1 = n
        BY <2>2, <2>4
      <4> QED
        BY <3>1, <4>1
    <3>2. CASE hist'[n + 1][p] = hist'[n][p]
      <4>1. n \in 1..n /\ j <= n
        BY <2>2, <2>4
      <4>2. \A i \in (j + 1)..n : i \in (j + 1)..k
        BY <2>2, <2>4
      <4> QED
        BY <2>3, <2>4, <3>2, <4>1, <4>2
    <3> QED
      BY <3>1, <3>2
  <2>5. CASE j = n + 1
    BY <2>2, <2>5
  <2>6. CASE k \in 1..n
    BY <2>3, <2>6
  <2> QED
    BY <2>2, <2>4, <2>5, <2>6
<1> QED
  BY <1>1, <1>2 DEF MarketNext, WorkerStep, marketVars, Bootstrap, RunOnce, PollRest, CutOver,
    WatchFails, WatchDelta, FetchRestSnapshot, RestFails, Publish, PublishFails, Persist,
    PollKlines, StoreFails, Restart, Tick

\* What BookFollowsExchange asks of an engine e over a history h.
Follows(e, h) ==
    /\ \A p \in Prices : h[e.seq][p] > 0 => e.book[p] = h[e.seq][p]
    /\ feed.stream = "incremental" => e.book = h[e.seq]

\* An update whose place is known, and which the gap detection and the engine accept, takes
\* the engine from the book of one update to that of a later one: the levels it does not
\* carry did not change on the way (evaluate, apply_delta).
LEMMA AcceptedFollows ==
    ASSUME EngineInv, HistoryInv, NEW d \in StreamDeltas, Accepts(d), ~Loosens(d),
           ApplyDelta(d).seq # NoSequence,
           feed.stream # "full" => engine.book = hist[engine.seq]
    PROVE  Follows(ApplyDelta(d), hist)
<1>1. PICK j \in 1..Len(hist), k \in 1..Len(hist) :
         /\ j <= k
         /\ d.start \in {j, NoSequence} /\ d.end \in {k, NoSequence}
         /\ feed.stream = "full" => DOMAIN d.levels = {p \in Prices : hist[k][p] > 0}
         /\ feed.stream # "full" => j >= 2 /\ DOMAIN d.levels = Touched(j, k)
         /\ ApplyDelta(d).seq = IF d.end # NoSequence THEN k ELSE engine.seq
         /\ ApplyDelta(d).book \in Book
         /\ \A p \in Prices : ApplyDelta(d).book[p] =
               IF p \in DOMAIN d.levels THEN hist[k][p] ELSE engine.book[p]
  BY AppliedBook
<1>2. d.end # NoSequence /\ d.end = k /\ ApplyDelta(d).seq = k
  BY <1>1 DEF Loosens, Sequenced
<1>3. hist[k] \in Book
  BY <1>1 DEF EngineInv
<1>4. CASE feed.stream = "full"
  <2>1. \A p \in Prices : hist[k][p] > 0 => p \in DOMAIN d.levels
    BY <1>1, <1>4
  <2> QED
    BY <1>1, <1>2, <1>4, <2>1 DEF Follows
<1>5. CASE feed.stream # "full"
  <2>0. Sequenced(d)
    BY <1>5 DEF Loosens
  <2>1. /\ engine.seq \in 1..Len(hist) /\ Len(hist) \in Nat
        /\ k >= engine.seq + 1 /\ j <= engine.seq + 1
    BY <1>1, <1>2, <2>0 DEF Accepts, Sequenced, NoSequence, EngineInv
  <2>2. ASSUME NEW p \in Prices PROVE ApplyDelta(d).book[p] = hist[k][p]
    <3>1. CASE p \in Touched(j, k)
      BY <1>1, <1>5, <3>1
    <3>2. CASE p \notin Touched(j, k)
      <4>1. \A i \in j..k : hist[i][p] = hist[i - 1][p]
        BY <3>2 DEF Touched
      <4>2. \A i \in (engine.seq + 1)..k : i \in j..k
        BY <1>1, <2>1
      <4>3. hist[engine.seq][p] = hist[k][p]
        <5>1. engine.seq <= k
          BY <1>1, <2>1
        <5>2. \A m, n \in 1..Len(hist) :
                 m <= n => \/ hist[m][p] = hist[n][p]
                           \/ \E i \in (m + 1)..n : hist[i][p] # hist[i - 1][p]
          BY DEF HistoryInv
        <5>3. \/ hist[engine.seq][p] = hist[k][p]
              \/ \E i \in (engine.seq + 1)..k : hist[i][p] # hist[i - 1][p]
          BY <1>1, <2>1, <5>1, <5>2, ZenonT(60)
        <5>4. ~ \E i \in (engine.seq + 1)..k : hist[i][p] # hist[i - 1][p]
          BY <4>1, <4>2
        <5> QED
          BY <5>3, <5>4
      <4>4. ApplyDelta(d).book[p] = engine.book[p]
        BY <1>1, <1>5, <3>2
      <4> QED
        BY <1>5, <4>3, <4>4
    <3> QED
      BY <3>1, <3>2
  <2>3. ApplyDelta(d).book = hist[k]
    BY <1>1, <1>3, <2>2 DEF Book
  <2> QED
    BY <1>2, <2>3 DEF Follows
<1> QED
  BY <1>4, <1>5

BookInv == EngineInv /\ HistoryInv /\ BookFollowsExchange

LEMMA BookInvInit == MarketInit => BookInv
<1> SUFFICES ASSUME MarketInit PROVE BookInv
  OBVIOUS
<1>1. Len(hist) = 1
  BY DEF MarketInit
<1>2. HistoryInv
  BY <1>1 DEF HistoryInv
<1>3. BookFollowsExchange
  BY DEF MarketInit, BookFollowsExchange
<1> QED
  BY <1>2, <1>3, EngineInvInit DEF BookInv

\* Bootstrap, resynchronisation, accepted updates and restarts keep the book of the
\* engine the book of the exchange at the engine's sequence number.
LEMMA BookInvStep == BookInv /\ [MarketNext]_marketVars => BookInv'
<1> SUFFICES ASSUME BookInv, [MarketNext]_marketVars PROVE BookInv'
  OBVIOUS
<1>1. EngineInv' /\ HistoryInv'
  BY EngineInvStep, HistoryInvStep DEF BookInv
<1>2. ASSUME NEW e, engine' = e, UNCHANGED <<hist, feed>>,
             feed.mode = "websocket" /\ e.seq # NoSequence /\ ~loose' => Follows(e, hist)
      PROVE  BookFollowsExchange'
  BY <1>2 DEF BookFollowsExchange, Follows
<1>3. ASSUME NEW s \in RestSnapshots, LoadSnapshot(s).seq # NoSequence
      PROVE  Follows(LoadSnapshot(s), hist)
  <2>1. PICK k \in 1..Len(hist) :
           /\ LoadSnapshot(s).seq = IF feed.sequenced THEN k ELSE NoSequence
           /\ LoadSnapshot(s).book = hist[k]
    BY LoadedBook DEF BookInv
  <2> QED
    BY <1>3, <2>1 DEF Follows
<1>4. CASE UNCHANGED <<hist, feed, engine, loose>>
  BY <1>1, <1>4 DEF BookInv, BookFollowsExchange
<1>5. CASE Bootstrap
  BY <1>1, <1>2, <1>3, <1>5 DEF Bootstrap, BookInv, BookFollowsExchange
<1>6. CASE FetchRestSnapshot
  BY <1>1, <1>2, <1>3, <1>6 DEF FetchRestSnapshot, BookInv
<1>7. CASE WatchDelta
  <2>1. PICK d \in StreamDeltas :
           IF EvaluateGap(d) = "accept" /\ Accepts(d)
           THEN engine' = ApplyDelta(d) /\ loose' = Loosens(d) ELSE UNCHANGED <<engine, loose>>
    BY <1>7 DEF WatchDelta
  <2>2. UNCHANGED <<hist, feed>> /\ feed.mode = "websocket" /\ mpc # "idle"
    BY <1>7 DEF WatchDelta
  <2>3. CASE UNCHANGED <<engine, loose>>
    BY <1>4, <2>2, <2>3
  <2>4. CASE Accepts(d) /\ engine' = ApplyDelta(d) /\ loose' = Loosens(d)
    <3>1. feed.stream \in {"full", "incremental"}
      BY DEF BookInv, EngineInv, Configurations
    <3>2. ASSUME ~Loosens(d), ApplyDelta(d).seq # NoSequence PROVE Follows(ApplyDelta(d), hist)
      <4>1. feed.stream # "full" => ~loose /\ engine.seq # NoSequence
        BY <3>2 DEF Loosens, Sequenced
      <4>2. feed.stream # "full" => engine.book = hist[engine.seq]
        BY <2>2, <3>1, <4>1 DEF BookInv, BookFollowsExchange
      <4> QED
        BY <2>4, <3>2, <4>2, AcceptedFollows DEF BookInv
    <3> QED
      BY <1>1, <1>2, <2>2, <2>4, <3>2 DEF BookInv
  <2> QED
    BY <2>1, <2>3, <2>4
<1>8. CASE Restart
  BY <1>1, <1>8 DEF Restart, BookInv, BookFollowsExchange, NoSequence
<1>9. CASE UpdateBook
  <2>1. PICK b : hist' = Append(hist, b)
    BY <1>9 DEF UpdateBook
  <2>2. UNCHANGED <<engine, feed, loose>>
    BY <1>9 DEF UpdateBook
  <2>3. engine.seq # NoSequence => hist'[engine.seq] = hist[engine.seq]
    BY <2>1 DEF BookInv, EngineInv, NoSequence
  <2> QED
    BY <1>1, <2>2, <2>3 DEF BookInv, BookFollowsExchange
<1> QED
  BY <1>4, <1>5, <1>6, <1>7, <1>8, <1>9 DEF MarketNext, WorkerStep, marketVars, RunOnce,
    PollRest, CutOver, WatchFails, RestFails, Publish, PublishFails, Persist, PollKlines,
    StoreFails, Tick

\* For every history of the exchange the engine holds the exchange's book of its sequence
\* number, whatever the stream loses, repeats and reorders and whenever REST is asked.
THEOREM BookIsExchanges == MarketSpec => []BookFollowsExchange
<1>1. BookInv => BookFollowsExchange
  BY DEF BookInv
<1> QED
  BY BookInvInit, BookInvStep, <1>1, PTL DEF MarketSpec

-----------------------------------------------------------------------------
(* What subscribers have *)

\* Unless the engine moved unseen, subscribers have reached the engine's number, up to the
\* delta that is being published; and that delta, if it is numbered, continues from there.
EnvelopeInv ==
    /\ feed.mode = "rest" /\ mpc = "publish" => delta.from = "rest"
    /\ feed.mode = "websocket" /\ mpc = "publish" =>
         IF delta.from = "rest" \/ delta.end # NoSequence
         THEN delta.end = engine.seq
         ELSE ~hidden => reached = engine.seq
    /\ feed.mode = "websocket" /\ ~hidden /\ mpc # "publish" => reached = engine.seq
    /\ StreamContinuesPublication

PublicationInv == EngineInv /\ EnvelopeInv

LEMMA PublicationInvStep ==
    PublicationInv /\ [MarketNext]_marketVars => PublicationInv'
<1> SUFFICES ASSUME PublicationInv, [MarketNext]_marketVars PROVE PublicationInv'
  OBVIOUS
<1>1. EngineInv /\ EnvelopeInv /\ EngineInv'
  BY EngineInvStep DEF PublicationInv
<1> SUFFICES EnvelopeInv'
  BY <1>1 DEF PublicationInv
<1>2. feed.mode \in {"rest", "websocket"} /\ engine.seq \in Nat
  BY <1>1 DEF EngineInv, Configurations
<1>3. CASE UNCHANGED <<feed, engine, reached, hidden>> /\ mpc # "publish" /\ mpc' # "publish"
  BY <1>1, <1>3 DEF EnvelopeInv, StreamContinuesPublication
<1>4. CASE UNCHANGED <<feed, engine, reached, hidden, mpc, delta>>
  BY <1>1, <1>4 DEF EnvelopeInv, StreamContinuesPublication
<1>5. CASE Bootstrap
  BY <1>1, <1>5 DEF Bootstrap, EnvelopeInv, StreamContinuesPublication
<1>6. CASE PollRest
  <2>1. delta' \in RestSnapshots
    BY <1>6 DEF PollRest
  <2>2. delta'.from = "rest"
    BY <1>1, <2>1, RestAnswers
  <2> QED
    BY <1>6, <2>2 DEF PollRest, EnvelopeInv, StreamContinuesPublication
<1>7. CASE WatchDelta
  <2>1. PICK d \in StreamDeltas :
           IF EvaluateGap(d) = "accept" /\ Accepts(d)
           THEN engine' = ApplyDelta(d) /\ delta' = d /\ mpc' = "publish"
           ELSE UNCHANGED <<engine, delta>> /\ mpc' = "rest"
    BY <1>7 DEF WatchDelta
  <2>2. UNCHANGED <<feed, reached, hidden>> /\ feed.mode = "websocket" /\ mpc = "poll"
    BY <1>7 DEF WatchDelta
  <2>3. CASE UNCHANGED <<engine, delta>> /\ mpc' = "rest"
    BY <1>3, <2>2, <2>3
  <2>4. CASE Accepts(d) /\ engine' = ApplyDelta(d) /\ delta' = d /\ mpc' = "publish"
    <3>1. PICK j \in 1..Len(hist), k \in 1..Len(hist) :
             /\ d.from = "websocket"
             /\ d.start \in {j, NoSequence} /\ d.end \in {k, NoSequence}
             /\ ApplyDelta(d).seq = IF d.end # NoSequence THEN k ELSE engine.seq
      BY <1>1, AppliedBook, ZenonT(60)
    <3>2. ~hidden => reached = engine.seq
      BY <1>1, <2>2 DEF EnvelopeInv
    <3>3. ~hidden /\ reached # NoSequence /\ d.start # NoSequence /\ d.end # NoSequence =>
             d.end > reached /\ d.start <= reached + 1
      BY <1>2, <2>4, <3>1, <3>2 DEF Accepts, Sequenced, NoSequence
    <3>4. IF d.end # NoSequence THEN d.end = engine'.seq ELSE ~hidden => reached = engine'.seq
      BY <2>4, <3>1, <3>2
    <3> QED
      BY <2>2, <2>4, <3>1, <3>3, <3>4 DEF EnvelopeInv, StreamContinuesPublication
  <2> QED
    BY <2>1, <2>3, <2>4
<1>8. CASE FetchRestSnapshot
  <2>1. PICK s \in RestSnapshots : engine' = LoadSnapshot(s) /\ delta' = s
    BY <1>8 DEF FetchRestSnapshot
  <2>2. s.from = "rest" /\ LoadSnapshot(s).seq = s.end
    BY <1>1, RestAnswers DEF LoadSnapshot
  <2> QED
    BY <1>8, <2>1, <2>2 DEF FetchRestSnapshot, EnvelopeInv, StreamContinuesPublication
<1>9. CASE Publish \/ PublishFails
  <2>1. /\ mpc = "publish" /\ mpc' # "publish" /\ UNCHANGED <<feed, engine>>
        /\ Subscribers \/ hidden'
    BY <1>9 DEF Publish, PublishFails, Raise
  <2> QED
    BY <1>1, <2>1 DEF EnvelopeInv, StreamContinuesPublication, Subscribers
<1>10. CASE Restart
  BY <1>10 DEF Restart, Raise, EnvelopeInv, StreamContinuesPublication
<1>11. CASE RunOnce \/ CutOver \/ WatchFails \/ RestFails \/ Persist \/ StoreFails
            \/ \E i \in Intervals, usable \in BOOLEAN : PollKlines(i, usable)
  BY <1>3, <1>11 DEF RunOnce, CutOver, WatchFails, RestFails, Persist, StoreFails, PollKlines,
    Raise
<1>12. CASE UpdateBook \/ Tick
  BY <1>4, <1>12 DEF UpdateBook, Tick
<1>13. CASE UNCHANGED marketVars
  BY <1>4, <1>13 DEF marketVars
<1> QED
  BY <1>5, <1>6, <1>7, <1>8, <1>9, <1>10, <1>11, <1>12, <1>13 DEF MarketNext, WorkerStep

\* What the worker takes from the stream it publishes without a gap and without going
\* back, unless the engine moved without an envelope.
THEOREM PublicationContinues == MarketSpec => []StreamContinuesPublication
<1>1. MarketInit => PublicationInv
  BY EngineInvInit DEF MarketInit, PublicationInv, EnvelopeInv, StreamContinuesPublication
<1>2. PublicationInv => StreamContinuesPublication
  BY DEF PublicationInv, EnvelopeInv
<1> QED
  BY <1>1, <1>2, PublicationInvStep, PTL DEF MarketSpec

-----------------------------------------------------------------------------
(* Candles *)

\* While candles are polled, the intervals already stored have fresh rows.
KlineInv ==
    /\ klineAge \in 0..KlinePoll /\ rowAge \in [Intervals -> 0..KlinePoll]
    /\ mpc = "klines" => \A i \in Intervals \ (klinesLeft \cup barren) : rowAge[i] = 0
    /\ KlinesFresh

LEMMA KlineInvStep == KlineInv /\ [MarketNext]_marketVars => KlineInv'
<1> SUFFICES ASSUME KlineInv, [MarketNext]_marketVars PROVE KlineInv'
  OBVIOUS
<1>1. CASE UNCHANGED <<klineAge, rowAge, barren>> /\ mpc' # "klines"
  BY <1>1 DEF KlineInv, KlinesFresh
<1>2. CASE UNCHANGED <<klineAge, rowAge, barren, klinesLeft, mpc>>
  BY <1>2 DEF KlineInv, KlinesFresh
<1>3. CASE Persist
  BY <1>3 DEF Persist, Raise, TimersUnchanged, KlineInv, KlinesFresh
<1>4. ASSUME NEW i \in Intervals, NEW usable \in BOOLEAN, PollKlines(i, usable)
      PROVE  KlineInv'
  <2>1. /\ mpc = "klines" /\ rowAge' = IF usable THEN [rowAge EXCEPT ![i] = 0] ELSE rowAge
        /\ barren' = IF usable THEN barren \ {i} ELSE barren \cup {i}
        /\ klinesLeft' = klinesLeft \ {i}
        /\ klineAge' = IF klinesLeft' = {} THEN 0 ELSE klineAge
    BY <1>4 DEF PollKlines
  <2>2. rowAge' \in [Intervals -> 0..KlinePoll]
    BY <2>1, MarketAssumption DEF KlineInv
  <2>3. \A k \in Intervals \ (klinesLeft' \cup barren') : rowAge'[k] = 0
    BY <2>1 DEF KlineInv
  <2>4. klineAge' \in 0..KlinePoll
    BY <2>1, MarketAssumption DEF KlineInv
  <2>5. KlinesFresh'
    <3>1. CASE klinesLeft' = {}
      BY <2>1, <2>3, <3>1 DEF KlinesFresh
    <3>2. CASE klinesLeft' # {}
      <4> SUFFICES ASSUME klineAge < KlinePoll, NEW k \in Intervals \ barren'
                   PROVE  rowAge'[k] <= klineAge
        BY <2>1, <3>2 DEF KlinesFresh
      <4> QED
        BY <2>1 DEF KlineInv, KlinesFresh
    <3> QED
      BY <3>1, <3>2
  <2> QED
    BY <2>2, <2>3, <2>4, <2>5 DEF KlineInv
<1>5. CASE Restart
  BY <1>5, MarketAssumption DEF Restart, Raise, KlineInv, KlinesFresh
<1>6. CASE Tick
  <2>1. /\ mpc' = "idle" /\ UNCHANGED barren /\ klineAge' = Min2(klineAge + 1, KlinePoll)
        /\ rowAge' = [i \in Intervals |-> Min2(rowAge[i] + 1, KlinePoll)]
    BY <1>6 DEF Tick
  <2>2. /\ KlinePoll \in Nat /\ klineAge \in 0..KlinePoll
        /\ \A i \in Intervals : rowAge[i] \in 0..KlinePoll
    BY MarketAssumption DEF KlineInv
  <2>3. /\ klineAge' \in 0..KlinePoll
        /\ \A i \in Intervals : Min2(rowAge[i] + 1, KlinePoll) \in 0..KlinePoll
    BY <2>1, <2>2 DEF Min2
  <2>4. klineAge' < KlinePoll =>
           \A i \in Intervals \ barren : Min2(rowAge[i] + 1, KlinePoll) <= klineAge'
    BY <2>1, <2>2 DEF Min2, KlineInv, KlinesFresh
  <2> QED
    BY <2>1, <2>3, <2>4 DEF KlineInv, KlinesFresh
<1> QED
  BY <1>1, <1>2, <1>3, <1>4, <1>5, <1>6 DEF MarketNext, WorkerStep, marketVars, Bootstrap,
    RunOnce, PollRest, CutOver, WatchFails, WatchDelta, FetchRestSnapshot, RestFails, Publish,
    PublishFails, StoreFails, UpdateBook, Raise, TimersUnchanged

\* A candle poll that failed half way is never remembered as done, for any set of
\* intervals.
THEOREM KlinesAreFresh == MarketSpec => []KlinesFresh
<1>1. MarketInit => KlineInv
  BY MarketAssumption DEF MarketInit, KlineInv, KlinesFresh
<1>2. KlineInv => KlinesFresh
  BY DEF KlineInv
<1> QED
  BY <1>1, <1>2, KlineInvStep, PTL DEF MarketSpec
=============================================================================
