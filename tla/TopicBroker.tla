----------------------------- MODULE TopicBroker ----------------------------
(***************************************************************************)
(* The two brokers behind the publisher protocol: the in-process topic     *)
(* broker the tests and the single-process runtime use, and the adapter    *)
(* that publishes to RabbitMQ through its management API. Both are loaded  *)
(* from one topology; a routing key is the sequence of its tokens. Every   *)
(* message is published to both here, so that the queues can be compared.  *)
(***************************************************************************)
EXTENDS Integers, FiniteSets, SequencesExt

CONSTANTS
    Bindings,        \* of the topology: [exchange, queue, pattern, length], length in characters
    QueueName,       \* name of a queue as tokens
    PrefixExchange,  \* _DEFAULT_EXCHANGE_BY_PREFIX: first token to exchange
    RoutingKeys,     \* keys the services publish with
    MaxMessages      \* bound: messages published

VARIABLES
    memory,     \* queues of the in-process broker
    bootstrap,  \* bindings bootstrap_topology still has to make
    bound,      \* external: bindings RabbitMQ has
    rabbit,     \* external: queues of RabbitMQ
    failed,     \* history: messages whose publish to RabbitMQ raised
    count       \* messages published

brokerVars == <<memory, bootstrap, bound, rabbit, failed, count>>

Queues == DOMAIN QueueName

RECURSIVE MatchTokens(_, _)
MatchTokens(pattern, key) ==
    CASE pattern = <<>> -> key = <<>>
      [] pattern # <<>> /\ Head(pattern) = "#" ->
             \/ Len(pattern) = 1
             \/ \E i \in 0..Len(key) : MatchTokens(Tail(pattern), SubSeq(key, i + 1, Len(key)))
      [] OTHER -> /\ key # <<>>
                  /\ Head(pattern) \in {"*", Head(key)}
                  /\ MatchTokens(Tail(pattern), Tail(key))

\* Slip: # stands for one token, as * does.
TopicMatchesOneToken(pattern, key) ==
    MatchTokens([i \in DOMAIN pattern |-> IF pattern[i] = "#" THEN "*" ELSE pattern[i]], key)

TopicMatches(pattern, key) == MatchTokens(pattern, key)

ResolveQueues(key) ==
    {b.queue : b \in {c \in Bindings : TopicMatches(c.pattern, key)}}
        \union {q \in Queues : QueueName[q] = key}

PatternWeight(pattern) == Cardinality({i \in DOMAIN pattern : pattern[i] \notin {"*", "#"}})

\* _exchange_routes_from_topology orders the routes by weight, then by length.
Precedes(b, c) ==
    \/ PatternWeight(b.pattern) > PatternWeight(c.pattern)
    \/ PatternWeight(b.pattern) = PatternWeight(c.pattern) /\ b.length >= c.length

\* The exchange of the first route that matches, else the one its first token names.
ResolveExchange(key) ==
    LET routes == {b \in Bindings : TopicMatches(b.pattern, key)}
    IN  IF routes # {} THEN (CHOOSE b \in routes : \A c \in routes : Precedes(b, c)).exchange
        ELSE IF Len(key) > 1 /\ Head(key) \in DOMAIN PrefixExchange THEN PrefixExchange[Head(key)] ELSE "none"

\* External: RabbitMQ matches a pattern by cutting the key into one piece per token.
RabbitMatches(pattern, key) ==
    \E cut \in [0..Len(pattern) -> 0..Len(key)] :
        /\ cut[0] = 0 /\ cut[Len(pattern)] = Len(key)
        /\ \A i \in DOMAIN pattern :
               IF pattern[i] = "#" THEN cut[i] >= cut[i - 1]
               ELSE /\ cut[i] = cut[i - 1] + 1
                    /\ pattern[i] \in {"*", key[cut[i]]}

RabbitQueues(exchange, key) ==
    {b.queue : b \in {c \in bound : c.exchange = exchange /\ RabbitMatches(c.pattern, key)}}

Empty == [waiting |-> [q \in Queues |-> <<>>], received |-> [q \in Queues |-> <<>>]]

Deliver(broker, targets, m) ==
    [broker EXCEPT !.waiting = [q \in Queues |-> IF q \in targets THEN Append(@[q], m) ELSE @[q]]]

\* A worker takes the first message of a queue; the fetch from RabbitMQ acknowledges it.
Take(broker, q) ==
    [waiting |-> [broker.waiting EXCEPT ![q] = Tail(@)],
     received |-> [broker.received EXCEPT ![q] = Append(@, Head(broker.waiting[q]))]]

BrokerInit ==
    /\ memory = Empty /\ rabbit = Empty /\ failed = {} /\ count = 0
    /\ bootstrap = SetToSeq(Bindings) /\ bound = {}

\* bootstrap_topology, one binding at a time.
BootstrapTopology ==
    /\ bootstrap # <<>>
    /\ bound' = bound \union {Head(bootstrap)} /\ bootstrap' = Tail(bootstrap)
    /\ UNCHANGED <<memory, rabbit, failed, count>>

\* A message that RabbitMQ places in no queue is an error to its publisher.
PublishMessage ==
    /\ count < MaxMessages /\ count' = count + 1
    /\ \E key \in RoutingKeys :
           LET m == [key |-> key, n |-> count, ready |-> bootstrap = <<>>]
               targets == RabbitQueues(ResolveExchange(key), key)
           IN  /\ memory' = Deliver(memory, ResolveQueues(key), m)
               /\ rabbit' = Deliver(rabbit, targets, m)
               /\ failed' = IF targets = {} THEN failed \union {m} ELSE failed
    /\ UNCHANGED <<bootstrap, bound>>

ConsumeFromMemory ==
    /\ \E q \in Queues : memory.waiting[q] # <<>> /\ memory' = Take(memory, q)
    /\ UNCHANGED <<bootstrap, bound, rabbit, failed, count>>

ConsumeFromRabbit ==
    /\ \E q \in Queues : rabbit.waiting[q] # <<>> /\ rabbit' = Take(rabbit, q)
    /\ UNCHANGED <<bootstrap, bound, memory, failed, count>>

BrokerNext == BootstrapTopology \/ PublishMessage \/ ConsumeFromMemory \/ ConsumeFromRabbit

BrokerSpec == BrokerInit /\ [][BrokerNext]_brokerVars

-----------------------------------------------------------------------------
\* The in-process broker is a faithful stand-in for RabbitMQ (_resolve_queues against
\* _resolve_exchange_for_routing_key and the server's own matching): of the messages
\* published once the topology is bound, every queue of both has seen the same ones in the
\* same order, and a publisher gets an error exactly for those that no queue wants.
SamePlacement ==
    LET Seen(broker, q) == SelectSeq(broker.received[q] \o broker.waiting[q], LAMBDA m : m.ready)
    IN  /\ \A q \in Queues : Seen(memory, q) = Seen(rabbit, q)
        /\ \A m \in failed : m.ready => ResolveQueues(m.key) = {}
=============================================================================
