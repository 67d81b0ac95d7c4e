----------------------------- MODULE MCIngestion -----------------------------
(* The market and the news worker for TLC.  They are separate processes and  *)
(* share no state, so a behaviour follows one of them, or gives one sequence *)
(* of candles to the validator.                                              *)
EXTENDS MarketIngestion, NewsIngestion

CONSTANTS p1, p2, m1, h1

VARIABLES worker, bars

allVars == <<marketVars, newsVars, worker, bars>>

(* Every stream with candles off; REST polling with candles on. *)
MCFeeds ==
    [mode : {"websocket"}, stream : {"full", "incremental"}, sequenced : BOOLEAN,
     klines : {FALSE}]
    \cup [mode : {"rest"}, stream : {"full"}, sequenced : {TRUE}, klines : {TRUE}]

MCBarSequences == UNION {[1..n -> [open : 0..4, sound : BOOLEAN]] : n \in 0..3}

(* Source "b" repeats a story of source "a"; one entry lacks its link. *)
Entry(s, i, h, c) == [source |-> s, id |-> i, hash |-> h, complete |-> c]
MCEntries == <<Entry("a", 1, "x", TRUE), Entry("a", 2, "y", TRUE), Entry("a", 3, "w", FALSE),
               Entry("a", 4, "z", TRUE), Entry("b", 1, "x", TRUE), Entry("b", 2, "v", TRUE)>>

MCInit ==
    /\ MarketInit /\ NewsInit
    /\ \/ worker = "market" /\ bars = <<>>
       \/ /\ \/ worker = "news" /\ bars = <<>>
             \/ worker = "validator" /\ bars \in MCBarSequences
          /\ hist = <<[p \in Prices |-> 0]>>
          /\ feed = CHOOSE f \in Feeds : TRUE

MCNext ==
    \/ worker = "market" /\ MarketNext /\ UNCHANGED <<newsVars, worker, bars>>
    \/ worker = "news" /\ NewsNext /\ UNCHANGED <<marketVars, worker, bars>>
    \/ worker = "validator" /\ UNCHANGED allVars

MCSpec == MCInit /\ [][MCNext]_allVars

(* The validator of reconstructed candles accepts a sequence of bars iff     *)
(* every bar is sound and the bars are one interval apart, first to last,    *)
(* and, when they lie on the grid, names exactly the open times absent       *)
(* between the earliest and the latest bar.                                  *)
KlineValidationExact ==
    \A step \in 1..2 :
        /\ ValidBars(bars, step) <=>
               \A i \in 1..Len(bars) :
                   bars[i].sound /\ bars[i].open = bars[1].open + (i - 1) * step
        /\ (bars # <<>> /\ ~IntervalMismatch(bars, step)) =>
               LET opens == {bars[i].open : i \in 1..Len(bars)}
               IN  MissingOpenTimes(bars, step) =
                       {t \in Min(opens)..Max(opens) : (t - Min(opens)) % step = 0} \ opens
=============================================================================
