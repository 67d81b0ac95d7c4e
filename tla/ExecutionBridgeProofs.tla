------------------------ MODULE ExecutionBridgeProofs ------------------------
(***************************************************************************)
(* Theorem about ExecutionBridge: what the bridge answered is so at the    *)
(* exchange, for every set of commands, exchange ids and limits.           *)
(***************************************************************************)
EXTENDS ExecutionBridge, FiniteSetTheorems, TLAPS

OrderFields == {"id", "client", "side", "type", "status"}
Words == {"NEW", "CANCELED", "FILLED"}

\* What answer a says of the orders held.
Described(a, held) ==
    a.code = 200 => Silent(a) \/ \E o \in held : Describes(a, o)

Counts(a) == a.command.operation = "CREATE_ORDER" /\ a.code \in {200, 502}

\* Creates that were acknowledged or whose outcome is open.
Counted(given) == {i \in DOMAIN given : Counts(given[i])}

BridgeInv ==
    /\ config \in [key : BOOLEAN, real : BOOLEAN, credentials : BOOLEAN, redis : BOOLEAN]
    /\ \E S : answers \in Seq(S)
    /\ IsFiniteSet(orders)
    /\ \A o \in orders : DOMAIN o = OrderFields /\ o.status \in Words
    /\ config.real => \A i \in DOMAIN answers : Described(answers[i], orders)
    /\ Cardinality(orders) <= Cardinality(Counted(answers))

LEMMA BridgeInvImplies == BridgeInv => AnswersDescribeExchange
BY DEF BridgeInv, AnswersDescribeExchange, Described, Counted, Counts

\* Creates counted among n answers, and among these and one more.
LEMMA CountedIsFinite ==
    ASSUME NEW n \in Nat, NEW given, DOMAIN given = 1..n
    PROVE  /\ IsFiniteSet(Counted(given)) /\ Cardinality(Counted(given)) \in Nat
           /\ n + 1 \notin Counted(given)
<1>1. IsFiniteSet(1..n) /\ Counted(given) \subseteq 1..n
  BY FS_Interval DEF Counted
<1>2. IsFiniteSet(Counted(given)) /\ Cardinality(Counted(given)) \in Nat
  BY <1>1, FS_Subset, FS_CardinalityType
<1> QED
  BY <1>1, <1>2

LEMMA CountedGrows ==
    ASSUME NEW n \in Nat, NEW given, NEW more, DOMAIN given = 1..n, DOMAIN more = 1..(n + 1),
           \A i \in 1..n : more[i] = given[i]
    PROVE  Cardinality(Counted(more)) =
               IF Counts(more[n + 1]) THEN Cardinality(Counted(given)) + 1
                                      ELSE Cardinality(Counted(given))
<1>1. /\ IsFiniteSet(Counted(given)) /\ Cardinality(Counted(given)) \in Nat
      /\ n + 1 \notin Counted(given)
  BY CountedIsFinite
<1>2. CASE Counts(more[n + 1])
  <2>1. Counted(more) = Counted(given) \union {n + 1}
    BY <1>2 DEF Counted
  <2> QED
    BY <1>1, <1>2, <2>1, FS_AddElement, ZenonT(60)
<1>3. CASE ~Counts(more[n + 1])
  <2>1. Counted(more) = Counted(given)
    BY <1>3 DEF Counted
  <2> QED
    BY <1>3, <2>1
<1> QED
  BY <1>2, <1>3

\* Which order an answer is about depends on the ids of the order alone.
LEMMA SameIds ==
    ASSUME NEW a, NEW o, NEW q, q.id = o.id, q.client = o.client, About(a, o)
    PROVE  About(a, q)
BY DEF About, Asked, Names

\* The exchange changes an order that was new: there are no more orders than before, and
\* what was answered earlier still holds.
LEMMA StatusChanges ==
    ASSUME BridgeInv, NEW o \in orders, o.status = "NEW", NEW word \in {"CANCELED", "FILLED"},
           orders' = SetStatus(o, word)
    PROVE  /\ IsFiniteSet(orders') /\ Cardinality(orders') <= Cardinality(orders)
           /\ Cardinality(orders') \in Nat
           /\ \A p \in orders' : DOMAIN p = OrderFields /\ p.status \in Words
           /\ \A a : Described(a, orders) => Described(a, orders')
           /\ \E p \in orders' : p.id = o.id /\ p.client = o.client /\ p.status = word
<1> DEFINE q == [o EXCEPT !.status = word]
<1>1. orders' = (orders \ {o}) \union {q}
  BY DEF SetStatus
<1>2. DOMAIN q = OrderFields /\ q.status = word /\ q.id = o.id /\ q.client = o.client
  BY DEF BridgeInv, OrderFields
<1> HIDE DEF q
<1>3. IsFiniteSet(orders) /\ Cardinality(orders) \in Nat
  BY FS_CardinalityType DEF BridgeInv
<1>4. IsFiniteSet(orders \ {o}) /\ Cardinality(orders \ {o}) = Cardinality(orders) - 1
  BY <1>3, FS_RemoveElement
<1>5. /\ IsFiniteSet(orders')
      /\ Cardinality(orders') \in {Cardinality(orders), Cardinality(orders) - 1}
  BY <1>1, <1>3, <1>4, FS_AddElement
<1>6. Cardinality(orders') \in Nat
  BY <1>5, FS_CardinalityType
<1>7. \A p \in orders' : DOMAIN p = OrderFields /\ p.status \in Words
  BY <1>1, <1>2 DEF BridgeInv, Words
<1>8. ASSUME NEW a, Described(a, orders) PROVE Described(a, orders')
  <2> SUFFICES ASSUME a.code = 200, ~Silent(a)
               PROVE  \E p \in orders' : Describes(a, p)
    BY DEF Described
  <2>1. PICK p \in orders : Describes(a, p)
    BY <1>8 DEF Described
  <2>2. CASE p = o
    <3>1. About(a, q)
      BY <1>2, <2>1, <2>2, SameIds DEF Describes
    <3>2. Describes(a, q)
      BY <1>2, <2>1, <2>2, <3>1 DEF Describes
    <3> QED
      BY <1>1, <3>2
  <2>3. CASE p # o
    BY <1>1, <2>1, <2>3
  <2> QED
    BY <2>2, <2>3
<1>9. \A a : Described(a, orders) => Described(a, orders')
  BY <1>8
<1>10. \E p \in orders' : p.id = o.id /\ p.client = o.client /\ p.status = word
  BY <1>1, <1>2
<1>11. Cardinality(orders') <= Cardinality(orders)
  BY <1>3, <1>5
<1> QED
  BY <1>5, <1>6, <1>7, <1>9, <1>10, <1>11

\* The exchange takes one more order.
LEMMA OrderAdded ==
    ASSUME BridgeInv, NEW c, NEW word \in Words, orders' = orders \union {NewOrder(c, word)}
    PROVE  /\ IsFiniteSet(orders') /\ Cardinality(orders') <= Cardinality(orders) + 1
           /\ Cardinality(orders') \in Nat
           /\ \A p \in orders' : DOMAIN p = OrderFields /\ p.status \in Words
           /\ orders \subseteq orders' /\ NewOrder(c, word) \in orders'
           /\ NewOrder(c, word).status = word
           /\ NewOrder(c, word).client = CreateRequest(c).client
<1> DEFINE q == NewOrder(c, word)
<1>1. DOMAIN q = OrderFields /\ q.status = word /\ q.client = CreateRequest(c).client
  BY DEF NewOrder, OrderFields
<1> HIDE DEF q
<1>2. orders' = orders \union {q}
  BY DEF q
<1>3. IsFiniteSet(orders) /\ Cardinality(orders) \in Nat
  BY FS_CardinalityType DEF BridgeInv
<1>4. /\ IsFiniteSet(orders')
      /\ Cardinality(orders') \in {Cardinality(orders), Cardinality(orders) + 1}
  BY <1>2, <1>3, FS_AddElement
<1>5. \A p \in orders' : DOMAIN p = OrderFields /\ p.status \in Words
  BY <1>1, <1>2 DEF BridgeInv
<1> QED
  BY <1>1, <1>2, <1>3, <1>4, <1>5 DEF q

\* An answer is appended and the orders grow no faster than the creates it counts.
LEMMA AnswerKeeps ==
    ASSUME BridgeInv, NEW a, answers' = Append(answers, a), UNCHANGED config,
           IsFiniteSet(orders'), Cardinality(orders') \in Nat,
           \A p \in orders' : DOMAIN p = OrderFields /\ p.status \in Words,
           \/ Cardinality(orders') <= Cardinality(orders)
           \/ /\ Cardinality(orders') <= Cardinality(orders) + 1
              /\ Counts(a),
           config.real => Described(a, orders'),
           \A b : Described(b, orders) => Described(b, orders')
    PROVE  BridgeInv'
<1>1. PICK S : answers \in Seq(S)
  BY DEF BridgeInv
<1> DEFINE n == Len(answers)
<1>2. n \in Nat /\ DOMAIN answers = 1..n
  BY <1>1
<1>7. /\ answers' \in Seq(S \union {a}) /\ DOMAIN answers' = 1..(n + 1) /\ answers'[n + 1] = a
      /\ \A i \in 1..n : answers'[i] = answers[i]
  <2>1. answers \in Seq(S \union {a})
    BY <1>1
  <2> QED
    BY <2>1
<1> HIDE DEF n
<1>8. Cardinality(Counted(answers)) \in Nat
  BY <1>2, CountedIsFinite
<1>9. Cardinality(Counted(answers')) =
          IF Counts(answers'[n + 1]) THEN Cardinality(Counted(answers)) + 1
                                     ELSE Cardinality(Counted(answers))
  BY <1>2, <1>7, CountedGrows, ZenonT(60)
<1>3. Cardinality(orders) \in Nat /\ Cardinality(orders) <= Cardinality(Counted(answers))
  BY FS_CardinalityType DEF BridgeInv
<1>4. Cardinality(orders') <= Cardinality(Counted(answers'))
  <2>1. CASE Counts(a)
    BY <1>3, <1>7, <1>8, <1>9, <2>1
  <2>2. CASE ~Counts(a)
    BY <1>3, <1>7, <1>8, <1>9, <2>2
  <2> QED
    BY <2>1, <2>2
<1>5. config.real => \A i \in DOMAIN answers' : Described(answers'[i], orders')
  BY <1>2, <1>7 DEF BridgeInv
<1>6. Counted(answers') = Counted(answers)'
  BY DEF Counted
<1> QED
  BY <1>4, <1>5, <1>6, <1>7, ZenonT(60) DEF BridgeInv

LEMMA BridgeInvStep == BridgeInv /\ [BridgeNext]_bridgeVars => BridgeInv'
<1> SUFFICES ASSUME BridgeInv, [BridgeNext]_bridgeVars PROVE BridgeInv'
  OBVIOUS
<1>0. /\ IsFiniteSet(orders) /\ Cardinality(orders) \in Nat /\ config.real \in BOOLEAN
      /\ \A p \in orders : DOMAIN p = OrderFields /\ p.status \in Words
  BY FS_CardinalityType DEF BridgeInv
<1>1. CASE UNCHANGED <<config, orders, answers>>
  BY <1>1 DEF BridgeInv, Counted
<1>2. CASE DispatchExecutionCommand
  <2>1. UNCHANGED <<config, orders>>
    BY <1>2 DEF DispatchExecutionCommand
  <2>2. \/ UNCHANGED answers
        \/ \E c, code, id, status, by :
               /\ answers' = Reply(c, code, id, status, by) /\ (config.real => code # 200)
    BY <1>2 DEF DispatchExecutionCommand
  <2>3. ASSUME NEW c, NEW code, NEW id, NEW status, NEW by,
               answers' = Reply(c, code, id, status, by), config.real => code # 200
        PROVE  BridgeInv'
    <3> DEFINE a == [command |-> c, code |-> code, order |-> id, status |-> status,
                     by |-> by]
    <3>1. answers' = Append(answers, a) /\ a.code = code
      BY <2>3 DEF Reply
    <3> HIDE DEF a
    <3>2. config.real => Described(a, orders')
      BY <2>3, <3>1 DEF Described
    <3> QED
      BY <1>0, <2>1, <3>1, <3>2, AnswerKeeps
  <2> QED
    BY <1>1, <2>1, <2>2, <2>3
<1>3. CASE CreateOrder
  <2>1. PICK word \in {"NEW", "FILLED"}, by \in {"exchange", "command"} :
           LET o == NewOrder(calling, word)
               said == IF by = "exchange" THEN word ELSE ""
           IN  /\ orders' = orders \union {o}
               /\ Return(200, AnsweredId(calling, o.id, by),
                         IF calling.exchange = "binance" THEN BinanceStatus(said)
                                                         ELSE BitgetCreated, by)
    BY <1>3 DEF CreateOrder
  <2> DEFINE o == NewOrder(calling, word)
             said == IF by = "exchange" THEN word ELSE ""
             id == AnsweredId(calling, o.id, by)
             status == IF calling.exchange = "binance" THEN BinanceStatus(said) ELSE BitgetCreated
             a == [command |-> calling, code |-> 200, order |-> id, status |-> status,
                   by |-> by]
  <2>2. /\ orders' = orders \union {o} /\ answers' = Append(answers, a) /\ UNCHANGED config
        /\ calling.operation = "CREATE_ORDER"
    BY <1>3, <2>1 DEF Return, Reply, CreateOrder
  <2>3. /\ IsFiniteSet(orders') /\ Cardinality(orders') <= Cardinality(orders) + 1
        /\ Cardinality(orders') \in Nat
        /\ \A p \in orders' : DOMAIN p = OrderFields /\ p.status \in Words
        /\ orders \subseteq orders' /\ o \in orders' /\ o.status = word
        /\ o.client = CreateRequest(calling).client
    BY <2>2, OrderAdded, ZenonT(60) DEF Words
  <2> HIDE DEF o
  <2>4. status # "canceled" /\ (status = "filled" => o.status = "FILLED")
    BY <2>3 DEF BinanceStatus, BitgetCreated, NormalizeExchangeStatus
  <2>8. by = "exchange" => id = o.id
    BY DEF AnsweredId
  <2> HIDE DEF status, id
  <2>5. /\ a.command = calling /\ a.code = 200 /\ a.order = id
        /\ a.status = status /\ a.by = by
    BY <2>2
  <2> HIDE DEF a
  <2>9. About(a, o)
    BY <2>2, <2>3, <2>5, <2>8 DEF About, Asked
  <2>6. Described(a, orders')
    BY <2>3, <2>4, <2>5, <2>9 DEF Described, Describes
  <2>7. \A b : Described(b, orders) => Described(b, orders')
    BY <2>3 DEF Described
  <2>10. Counts(a)
    BY <2>2, <2>5 DEF Counts
  <2> QED
    BY <2>2, <2>3, <2>6, <2>7, <2>10, AnswerKeeps, ZenonT(60)
<1>4. CASE CancelOrder
  <2>1. PICK o \in Found(LookupRequest(calling)), by \in {"exchange", "command"} :
           /\ o.status = "NEW" /\ orders' = SetStatus(o, "CANCELED")
           /\ Return(200, AnsweredId(calling, o.id, by),
                     IF calling.exchange = "binance"
                     THEN BinanceCanceled(IF by = "exchange" THEN "CANCELED" ELSE "")
                     ELSE BitgetCanceled, by)
    BY <1>4 DEF CancelOrder
  <2> DEFINE id == AnsweredId(calling, o.id, by)
             a == [command |-> calling, code |-> 200, order |-> id, status |-> "canceled",
                   by |-> by]
  <2>2. o \in orders /\ Names(LookupRequest(calling), o)
    BY DEF Found
  <2>3. answers' = Append(answers, a) /\ UNCHANGED config
    BY <2>1 DEF Return, Reply, BinanceCanceled, BitgetCanceled, NormalizeExchangeStatus
  <2>4. /\ IsFiniteSet(orders') /\ Cardinality(orders') <= Cardinality(orders)
        /\ Cardinality(orders') \in Nat
        /\ \A p \in orders' : DOMAIN p = OrderFields /\ p.status \in Words
        /\ \A b : Described(b, orders) => Described(b, orders')
        /\ \E p \in orders' : p.id = o.id /\ p.client = o.client /\ p.status = "CANCELED"
    BY <2>1, <2>2, StatusChanges
  <2>5. calling.operation = "CANCEL_ORDER" /\ (by = "exchange" => id = o.id)
    BY <1>4 DEF CancelOrder, AnsweredId
  <2> HIDE DEF id
  <2>6. /\ a.command = calling /\ a.code = 200 /\ a.order = id
        /\ a.status = "canceled" /\ a.by = by
    OBVIOUS
  <2> HIDE DEF a
  <2>7. About(a, o)
    BY <2>2, <2>5, <2>6 DEF About, Asked
  <2>8. PICK p \in orders' : p.id = o.id /\ p.client = o.client /\ p.status = "CANCELED"
    BY <2>4
  <2>9. About(a, p)
    BY <2>7, <2>8, SameIds
  <2>10. Described(a, orders')
    BY <2>6, <2>8, <2>9 DEF Described, Describes
  <2> QED
    BY <2>3, <2>4, <2>10, AnswerKeeps
<1>5. CASE GetOrderStatus
  <2> DEFINE Status(word) == IF calling.exchange = "binance" THEN BinanceStatus(word)
                                                            ELSE BitgetStatus(word)
  <2>1. /\ calling.operation = "GET_ORDER_STATUS" /\ UNCHANGED orders
        /\ \/ \E o \in Found(LookupRequest(calling)) :
                 Return(200, AnsweredId(calling, o.id, "exchange"), Status(o.status), "exchange")
           \/ Return(200, AnsweredId(calling, Absent, "command"), Status(""), "command")
    BY <1>5 DEF GetOrderStatus
  <2>4. /\ IsFiniteSet(orders') /\ Cardinality(orders') <= Cardinality(orders)
        /\ Cardinality(orders') \in Nat
        /\ \A p \in orders' : DOMAIN p = OrderFields /\ p.status \in Words
        /\ \A b : Described(b, orders) => Described(b, orders')
    <3>1. orders' = orders
      BY <2>1
    <3> HIDE DEF Status
    <3>2. Cardinality(orders') <= Cardinality(orders)
      BY <1>0, <3>1
    <3> QED
      BY <1>0, <3>1, <3>2, Zenon
  <2>2. CASE \E o \in Found(LookupRequest(calling)) :
                Return(200, AnsweredId(calling, o.id, "exchange"), Status(o.status), "exchange")
    <3>1. PICK o \in Found(LookupRequest(calling)) :
             Return(200, AnsweredId(calling, o.id, "exchange"), Status(o.status), "exchange")
      BY <2>2
    <3> DEFINE status == Status(o.status)
               a == [command |-> calling, code |-> 200, order |-> o.id, status |-> status,
                     by |-> "exchange"]
    <3>2. o \in orders /\ o.status \in Words
      BY <1>0 DEF Found
    <3>3. answers' = Append(answers, a) /\ UNCHANGED config
      BY <3>1 DEF Return, Reply, AnsweredId
    <3>4. /\ status = "canceled" => o.status = "CANCELED"
          /\ status = "filled" => o.status = "FILLED"
      BY <3>2 DEF BinanceStatus, BitgetStatus, NormalizeExchangeStatus, Words
    <3> HIDE DEF status
    <3>5. Described(a, orders')
      BY <2>1, <3>2, <3>4 DEF Described, Describes, About
    <3> HIDE DEF a
    <3> QED
      BY <2>4, <3>3, <3>5, AnswerKeeps
  <2>3. CASE Return(200, AnsweredId(calling, Absent, "command"), Status(""), "command")
    <3> DEFINE a == [command |-> calling, code |-> 200,
                     order |-> AnsweredId(calling, Absent, "command"), status |-> "submitted",
                     by |-> "command"]
    <3>1. Status("") = "submitted"
      BY DEF BinanceStatus, BitgetStatus, NormalizeExchangeStatus
    <3>2. answers' = Append(answers, a) /\ UNCHANGED config
      BY <2>3, <3>1 DEF Return, Reply
    <3>3. Described(a, orders')
      BY <2>1 DEF Described, Silent
    <3> HIDE DEF a
    <3> QED
      BY <2>4, <3>2, <3>3, AnswerKeeps
  <2> QED
    BY <2>1, <2>2, <2>3
<1>6. CASE UpstreamError
  <2> DEFINE a == [command |-> calling, code |-> 502, order |-> Absent, status |-> Absent,
                   by |-> "command"]
  <2>1. answers' = Append(answers, a) /\ UNCHANGED config
    BY <1>6 DEF UpstreamError, Return, Reply
  <2>2. a.code = 502 /\ a.command = calling
    OBVIOUS
  <2> HIDE DEF a
  <2>3. Described(a, orders')
    BY <2>2 DEF Described
  <2>4. CASE UNCHANGED orders
    BY <1>0, <2>1, <2>3, <2>4, AnswerKeeps
  <2>5. CASE calling.operation = "CREATE_ORDER" /\ orders' = orders \union {NewOrder(calling, "NEW")}
    <3>1. /\ IsFiniteSet(orders') /\ Cardinality(orders') <= Cardinality(orders) + 1
          /\ Cardinality(orders') \in Nat /\ orders \subseteq orders'
          /\ \A p \in orders' : DOMAIN p = OrderFields /\ p.status \in Words
      BY <2>5, OrderAdded, ZenonT(60) DEF Words
    <3>2. \A b : Described(b, orders) => Described(b, orders')
      BY <3>1 DEF Described
    <3>3. Counts(a)
      BY <2>2, <2>5 DEF Counts
    <3> QED
      BY <2>1, <2>3, <3>1, <3>2, <3>3, AnswerKeeps
  <2>6. CASE \E o \in Found(LookupRequest(calling)) :
                o.status = "NEW" /\ orders' = SetStatus(o, "CANCELED")
    <3>1. PICK o \in orders : o.status = "NEW" /\ orders' = SetStatus(o, "CANCELED")
      BY <2>6 DEF Found
    <3>2. /\ IsFiniteSet(orders') /\ Cardinality(orders') <= Cardinality(orders)
          /\ Cardinality(orders') \in Nat
          /\ \A p \in orders' : DOMAIN p = OrderFields /\ p.status \in Words
          /\ \A b : Described(b, orders) => Described(b, orders')
      BY <3>1, StatusChanges
    <3> QED
      BY <2>1, <2>3, <3>2, AnswerKeeps
  <2> QED
    BY <1>6, <2>4, <2>5, <2>6 DEF UpstreamError
<1>7. CASE ExchangeFills
  <2>1. PICK o \in orders : o.status = "NEW" /\ orders' = SetStatus(o, "FILLED")
    BY <1>7 DEF ExchangeFills
  <2>2. UNCHANGED <<config, answers>>
    BY <1>7 DEF ExchangeFills
  <2>3. /\ IsFiniteSet(orders') /\ Cardinality(orders') <= Cardinality(orders)
        /\ Cardinality(orders') \in Nat
        /\ \A p \in orders' : DOMAIN p = OrderFields /\ p.status \in Words
        /\ \A b : Described(b, orders) => Described(b, orders')
    BY <2>1, StatusChanges
  <2>4. Cardinality(Counted(answers)) \in Nat
    <3>1. PICK S : answers \in Seq(S)
      BY DEF BridgeInv
    <3>2. Len(answers) \in Nat /\ DOMAIN answers = 1..Len(answers)
      BY <3>1
    <3> QED
      BY <3>2, CountedIsFinite
  <2>5. Cardinality(orders') <= Cardinality(Counted(answers))
    BY <1>0, <2>3, <2>4 DEF BridgeInv
  <2>6. Counted(answers)' = Counted(answers)
    BY <2>2 DEF Counted
  <2> QED
    BY <2>2, <2>3, <2>5, <2>6 DEF BridgeInv
<1>8. CASE BridgeTimePasses
  BY <1>1, <1>8 DEF BridgeTimePasses
<1>9. CASE UNCHANGED bridgeVars
  BY <1>1, <1>9 DEF bridgeVars
<1> QED
  BY <1>2, <1>3, <1>4, <1>5, <1>6, <1>7, <1>8, <1>9 DEF BridgeNext

\* What the bridge answered is so at the exchange, and only an upstream error leaves the
\* outcome of a create open: for every command, any number of them, and every set of ids the
\* exchange may give, repeated ones included.
THEOREM BridgeAnswersHold == BridgeSpec => []AnswersDescribeExchange
<1>1. BridgeInit => BridgeInv
  <2> SUFFICES ASSUME BridgeInit PROVE BridgeInv
    OBVIOUS
  <2>1. orders = {} /\ answers = <<>>
    BY DEF BridgeInit
  <2>2. Counted(answers) = {} /\ answers \in Seq({})
    BY <2>1 DEF Counted
  <2>3. DOMAIN answers = {}
    BY <2>1
  <2>4. IsFiniteSet(orders) /\ Cardinality(orders) = 0 /\ Cardinality(Counted(answers)) = 0
    BY <2>1, <2>2, FS_EmptySet
  <2> QED
    BY <2>1, <2>2, <2>3, <2>4 DEF BridgeInit, BridgeInv
<1> QED
  BY <1>1, BridgeInvStep, BridgeInvImplies, PTL DEF BridgeSpec
=============================================================================
