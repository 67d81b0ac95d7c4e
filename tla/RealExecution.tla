---------------------------- MODULE RealExecution ----------------------------
(***************************************************************************)
(* services/real_execution_go: replicas that take execution intents from   *)
(* the queue execution.intent.real, reserve a dispatch key in an           *)
(* idempotency store, send the command to the exchange over the HTTP       *)
(* bridge, record the outcome and publish one oms.order.* event.           *)
(*                                                                         *)
(* A replica runs Runner.Run over Handler.Handle one delivery at a time;   *)
(* every call that leaves the process (receive, TryStart, Execute, Mark*,  *)
(* Publish) is a step of its own, so replicas interleave, and a replica    *)
(* may crash, between any two of them.                                     *)
(***************************************************************************)
EXTENDS Naturals, Sequences, FiniteSets

CONSTANTS Replicas,     \* running instances of the service
          Intents,      \* bodies the orchestrator may publish
          None,         \* no delivery in hand
          MaxPublish,   \* bound: how often each intent is published
          Answers,      \* the results the bridge may return
          Faults        \* the faults this instance is exposed to

FaultKinds == {"crash", "lost_receive", "redis", "ttl", "bridge", "publish"}

Actions == {"BUY", "SELL", "CLOSE", "CANCEL", "HOLD"}

\* An intent body, reduced to what the handler branches on: whether it passes
\* DecodeEnvelope, its key and action, whether its quantity is non-zero and
\* whether it names an order to cancel.
Intent == [decodes : BOOLEAN, idem : STRING, action : Actions,
           sized : BOOLEAN, target : BOOLEAN]

\* What Bridge.Execute returns: a result status, or an error.
Results == {"submitted", "partially_filled", "filled", "canceled",
            "rejected", "error"}

ASSUME RealExecutionAssumption ==
    /\ IsFiniteSet(Replicas)
    /\ Intents \subseteq Intent
    /\ None \notin Intents /\ None \notin Results
    /\ MaxPublish \in [Intents -> Nat]
    /\ Answers \subseteq Results \ {"error"}
    /\ Faults \subseteq FaultKinds

-------------------------------------------------------------------------------
(* Commands *)

Operation(i) == IF i.action = "CANCEL" THEN "CANCEL_ORDER" ELSE "CREATE_ORDER"

\* toBridgeCommand succeeds: a supported action, with a quantity for an order
\* to create or an identifier for an order to cancel.
Executable(i) ==
    /\ i.decodes
    /\ \/ i.action \in {"BUY", "SELL", "CLOSE"} /\ i.sized
       \/ i.action = "CANCEL" /\ i.target

DispatchKey(i) == <<i.idem, Operation(i)>>

Keys == {DispatchKey(i) : i \in {j \in Intents : Executable(j)}}

\* Slip: the bridge error is not looked at, so the default type is used.
EventIgnoringError(result) == IF result = "error" THEN "submitted" ELSE result

\* publishLifecycleEvent: the event type for a bridge result.
EventOf(result) == IF result = "error" THEN "rejected" ELSE result

EventTypes == {EventOf(x) : x \in Results}

Statuses == {"NONE", "STARTED", "COMPLETED", "FAILED"}

-------------------------------------------------------------------------------
VARIABLES
    queue,       \* execution.intent.real
    published,   \* history: how often each intent was put on it
    pc,          \* where each replica is in Run/Handle
    inhand,      \* the delivery each replica is handling
    result,      \* what the bridge answered it
    redisUp,     \* Redis answers
    kind,        \* the store a replica resolved at start-up
    redis,       \* status of each key's record in Redis
    memory,      \* status of each key's record in a replica's own store
    dispatched,  \* commands executed by the exchange, by key
    events,      \* lifecycle events published, by key and type
    lapses       \* history: admissions without a reservation in Redis, and
                 \* reservations lost

vars == <<queue, published, pc, inhand, result, redisUp, kind, redis, memory,
          dispatched, events, lapses>>

storeVars == <<redisUp, kind, redis, memory, lapses>>

PCs == {"idle", "received", "admitted", "executed", "marked"}

\* resolveIdempotencyStore: Redis when it answers the ping, else memory.
ResolvedKind(up) == IF up THEN "redis" ELSE "memory"

EmptyStore == [k \in Keys |-> "NONE"]

Init ==
    /\ queue = <<>>
    /\ published = [i \in Intents |-> 0]
    /\ pc = [r \in Replicas |-> "idle"]
    /\ inhand = [r \in Replicas |-> None]
    /\ result = [r \in Replicas |-> None]
    /\ redisUp \in IF "redis" \in Faults THEN BOOLEAN ELSE {TRUE}
    /\ kind = [r \in Replicas |-> ResolvedKind(redisUp)]
    /\ redis = EmptyStore
    /\ memory = [r \in Replicas |-> EmptyStore]
    /\ dispatched = [k \in Keys |-> 0]
    /\ events = [k \in Keys |-> [e \in EventTypes |-> 0]]
    /\ lapses = [k \in Keys |-> 0]

-------------------------------------------------------------------------------
(* The environment *)

\* The orchestrator publishes an intent, or publishes one again.
PublishIntent(i) ==
    /\ published[i] < MaxPublish[i]
    /\ published' = [published EXCEPT ![i] = @ + 1]
    /\ queue' = Append(queue, i)
    /\ UNCHANGED <<pc, inhand, result, storeVars, dispatched, events>>

\* Redis stops or starts answering; it keeps its data.
RedisToggle ==
    /\ "redis" \in Faults
    /\ redisUp' = ~redisUp
    /\ UNCHANGED <<queue, published, pc, inhand, result, kind, redis, memory,
                   dispatched, events, lapses>>

\* The 24 hour time to live of a record runs out.
Expire(k) ==
    /\ "ttl" \in Faults
    /\ redis[k] # "NONE"
    /\ redis' = [redis EXCEPT ![k] = "NONE"]
    /\ lapses' = [lapses EXCEPT ![k] = @ + 1]
    /\ UNCHANGED <<queue, published, pc, inhand, result, redisUp, kind, memory,
                   dispatched, events>>

-------------------------------------------------------------------------------
(* A replica *)

\* Runner.Run is done with the delivery: Ack and Nack both do nothing, for
\* the consumer acknowledged the delivery when it fetched it.
Settle(r) ==
    /\ pc' = [pc EXCEPT ![r] = "idle"]
    /\ inhand' = [inhand EXCEPT ![r] = None]
    /\ result' = [result EXCEPT ![r] = None]

\* Receive: the delivery leaves the queue for good (ack_requeue_false).
Receive(r) ==
    /\ pc[r] = "idle"
    /\ queue # <<>>
    /\ queue' = Tail(queue)
    /\ pc' = [pc EXCEPT ![r] = "received"]
    /\ inhand' = [inhand EXCEPT ![r] = Head(queue)]
    /\ UNCHANGED <<published, result, storeVars, dispatched, events>>

\* The broker dequeued the delivery but the HTTP answer did not arrive.
LoseReceive(r) ==
    /\ "lost_receive" \in Faults
    /\ pc[r] = "idle"
    /\ queue # <<>>
    /\ queue' = Tail(queue)
    /\ UNCHANGED <<published, pc, inhand, result, storeVars, dispatched, events>>

\* Slip: the negative acknowledgement puts a refused body back.
RequeueBody(r) ==
    /\ pc[r] = "received"
    /\ ~Executable(inhand[r])
    /\ queue' = Append(queue, inhand[r])
    /\ Settle(r)
    /\ UNCHANGED <<published, storeVars, dispatched, events>>

\* DecodeEnvelope or toBridgeCommand fails.
RejectBody(r) ==
    /\ pc[r] = "received"
    /\ ~Executable(inhand[r])
    /\ Settle(r)
    /\ UNCHANGED <<queue, published, storeVars, dispatched, events>>

\* Slip: a key whose dispatch failed may be dispatched again.
RedisRetryFailed(k, admitted) ==
    /\ redisUp
    /\ admitted = (redis[k] \in {"NONE", "FAILED"})
    /\ redis' = [redis EXCEPT ![k] = IF admitted THEN "STARTED" ELSE @]
    /\ UNCHANGED lapses

\* TryStart on Redis (SetNX): the first caller for a key is admitted; on an
\* error the caller is admitted whatever the record says, and the write may
\* or may not have been applied.
RedisTryStart(k, admitted) ==
    \/ /\ redisUp
       /\ admitted = (redis[k] = "NONE")
       /\ redis' = [redis EXCEPT ![k] = IF @ = "NONE" THEN "STARTED" ELSE @]
       /\ UNCHANGED lapses
    \/ /\ ~redisUp
       /\ admitted
       /\ \/ /\ UNCHANGED redis
             /\ lapses' = [lapses EXCEPT ![k] = @ + 1]
          \/ /\ redis[k] = "NONE"
             /\ redis' = [redis EXCEPT ![k] = "STARTED"]
             /\ UNCHANGED lapses

\* TryStart on the store of one process.
MemoryTryStart(r, k, admitted) ==
    /\ admitted = (memory[r][k] = "NONE")
    /\ memory' = [memory EXCEPT ![r][k] = IF @ = "NONE" THEN "STARTED" ELSE @]
    /\ lapses' = [lapses EXCEPT ![k] = IF admitted THEN @ + 1 ELSE @]

StoreTryStart(r, k, admitted) ==
    \/ kind[r] = "redis" /\ RedisTryStart(k, admitted) /\ UNCHANGED memory
    \/ kind[r] = "memory" /\ MemoryTryStart(r, k, admitted) /\ UNCHANGED redis

\* A duplicate is skipped and acknowledged.
TryStart(r) ==
    /\ pc[r] = "received"
    /\ Executable(inhand[r])
    /\ \E admitted \in BOOLEAN :
          /\ StoreTryStart(r, DispatchKey(inhand[r]), admitted)
          /\ IF admitted
               THEN /\ pc' = [pc EXCEPT ![r] = "admitted"]
                    /\ UNCHANGED <<inhand, result>>
               ELSE Settle(r)
    /\ UNCHANGED <<queue, published, redisUp, kind, dispatched, events>>

\* Slip: the bridge client repeats a call that failed.
ExecuteWithRetry(r, res) ==
    /\ pc[r] = "admitted"
    /\ res \in Answers \/ (res = "error" /\ "bridge" \in Faults)
    /\ \E executed \in 0 .. 2 :
          dispatched' = [dispatched EXCEPT ![DispatchKey(inhand[r])] = @ + executed]
    /\ result' = [result EXCEPT ![r] = res]
    /\ pc' = [pc EXCEPT ![r] = "executed"]
    /\ UNCHANGED <<queue, published, inhand, storeVars, events>>

\* Bridge.Execute: the exchange executed the command and the answer arrived,
\* or the call failed before or after the exchange executed it.
Execute(r, res) ==
    /\ pc[r] = "admitted"
    /\ res \in Answers \/ (res = "error" /\ "bridge" \in Faults)
    /\ \E executed \in IF res = "error" THEN {0, 1} ELSE {1} :
          dispatched' = [dispatched EXCEPT ![DispatchKey(inhand[r])] = @ + executed]
    /\ result' = [result EXCEPT ![r] = res]
    /\ pc' = [pc EXCEPT ![r] = "executed"]
    /\ UNCHANGED <<queue, published, inhand, storeVars, events>>

MarkAs(res) == IF res = "error" THEN "FAILED" ELSE "COMPLETED"

\* MarkCompleted or MarkFailed: an unconditional write, whose error is
\* ignored.
Mark(r) ==
    LET k == DispatchKey(inhand[r]) IN
    /\ pc[r] = "executed"
    /\ pc' = [pc EXCEPT ![r] = "marked"]
    /\ redis' = IF kind[r] = "redis" /\ redisUp
                THEN [redis EXCEPT ![k] = MarkAs(result[r])] ELSE redis
    /\ memory' = IF kind[r] = "memory"
                 THEN [memory EXCEPT ![r][k] = MarkAs(result[r])] ELSE memory
    /\ UNCHANGED <<queue, published, inhand, result, redisUp, kind, lapses,
                   dispatched, events>>

\* publishLifecycleEvent, then Ack or Nack.
PublishEvent(r) ==
    /\ pc[r] = "marked"
    /\ events' = [events EXCEPT
                    ![DispatchKey(inhand[r])][EventOf(result[r])] = @ + 1]
    /\ Settle(r)
    /\ UNCHANGED <<queue, published, storeVars, dispatched>>

\* The broker refuses the event: Handle returns the error, the event is lost.
FailPublish(r) ==
    /\ "publish" \in Faults
    /\ pc[r] = "marked"
    /\ Settle(r)
    /\ UNCHANGED <<queue, published, storeVars, dispatched, events>>

\* The process dies and is started again; its delivery and its own store are
\* gone.
Crash(r) ==
    /\ "crash" \in Faults
    /\ Settle(r)
    /\ kind' = [kind EXCEPT ![r] = ResolvedKind(redisUp)]
    /\ memory' = [memory EXCEPT ![r] = EmptyStore]
    /\ UNCHANGED <<queue, published, redisUp, redis, dispatched, events,
                   lapses>>

-------------------------------------------------------------------------------
Step(r) ==
    \/ Receive(r) \/ RejectBody(r) \/ TryStart(r)
    \/ \E res \in Results : Execute(r, res)
    \/ Mark(r) \/ PublishEvent(r) \/ FailPublish(r)

Next ==
    \/ \E i \in Intents : PublishIntent(i)
    \/ RedisToggle
    \/ \E k \in Keys : Expire(k)
    \/ \E r \in Replicas : Step(r) \/ LoseReceive(r) \/ Crash(r)

Spec == Init /\ [][Next]_vars

\* A replica that has work goes on: every call it makes has a timeout.
FairSpec == Spec /\ \A r \in Replicas : WF_vars(Step(r))

-------------------------------------------------------------------------------
(* Properties *)

\* The queue, the replicas' control states, the records and the counters keep
\* their types; a record is never in a status other than those of store.go.
TypeOK ==
    /\ queue \in Seq(Intents)
    /\ published \in [Intents -> Nat]
    /\ pc \in [Replicas -> PCs]
    /\ inhand \in [Replicas -> Intents \cup {None}]
    /\ result \in [Replicas -> Results \cup {None}]
    /\ redisUp \in BOOLEAN
    /\ kind \in [Replicas -> {"redis", "memory"}]
    /\ redis \in [Keys -> Statuses]
    /\ memory \in [Replicas -> [Keys -> Statuses]]
    /\ dispatched \in [Keys -> Nat]
    /\ events \in [Keys -> [EventTypes -> Nat]]
    /\ lapses \in [Keys -> Nat]

\* Replicas admitted for k that have not called the bridge yet.
InFlight(k) ==
    {r \in Replicas : pc[r] = "admitted" /\ DispatchKey(inhand[r]) = k}

Reserved(k) == IF redis[k] = "NONE" THEN 0 ELSE 1

\* What entitles the replicas to execute k: its reservation, and its lapses.
Permit(k) == lapses[k] + Reserved(k)

\* As long as no reservation of a key lapsed (Redis answered every TryStart,
\* no record expired, no replica ran on its own store), the exchange executes
\* the key's command at most once, whatever was published again, failed or
\* crashed.
AtMostOnceDispatch == \A k \in Keys : lapses[k] = 0 => dispatched[k] <= 1

\* As long as no reservation of a key lapsed, OMS gets at most one event for
\* it, of one type, and an event that says the exchange took the command is
\* never published for a key whose record says FAILED.
EventsAgreeWithRecord ==
    \A k \in Keys : lapses[k] = 0 =>
        /\ \A e, f \in EventTypes :
              events[k][e] + (IF e = f THEN 0 ELSE events[k][f]) <= 1
        /\ redis[k] = "FAILED" =>
              \A e \in EventTypes \ {"rejected"} : events[k][e] = 0

\* A record that says COMPLETED or FAILED is never rewritten while no
\* reservation of its key lapsed: there is one attempt, and it is final.
OutcomeIsFinal ==
    [][\A k \in Keys : redis[k] \in {"COMPLETED", "FAILED"} /\ lapses'[k] = 0
         => redis'[k] = redis[k]]_vars

\* The queue drains and every replica comes to rest: no body, however
\* malformed or failing, circulates between queue and handler for ever.
QueueDrains == <>[](queue = <<>> /\ \A r \in Replicas : pc[r] = "idle")

\* Each execution of a command uses up a permit: a reservation in Redis, or a
\* lapse.
Permits == INSTANCE AtMostOnce
             WITH permits <- [k \in Keys |-> Permit(k)]

ImplementsAtMostOnce == Permits!Spec

\* A delivery whose handling did not succeed is delivered again: every intent
\* published is queued, in a replica's hand, or was executed to completion.
AtLeastOnceDelivery ==
    \A i \in Intents :
        \/ ~Executable(i)
        \/ published[i] = 0
        \/ \E n \in DOMAIN queue : queue[n] = i
        \/ \E r \in Replicas : inhand[r] = i
        \/ \E e \in EventTypes : events[DispatchKey(i)][e] > 0
===============================================================================
