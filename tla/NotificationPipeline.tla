------------------------ MODULE NotificationPipeline ------------------------
(***************************************************************************)
(* The notification service: the bridge that turns events of other         *)
(* services into alerts, the queue, the worker that takes an alert off it  *)
(* (the broker forgets it at once), routes it by preference, duplicate     *)
(* window and rate budget, sends it to the gateways with bounded retries,  *)
(* dead-letters what no gateway takes and writes rows on a best-effort     *)
(* basis. Timestamps are kept as the time that is left of their window.    *)
(***************************************************************************)
EXTENDS Integers, Sequences, FiniteSets, SequencesExt

CONSTANTS
    None,          \* a value that is absent
    Preferences,   \* sequence of notification preferences, in order
    GatewayKind,   \* registered gateways, and the protocol each one speaks
    Sources,       \* events other services pass to the bridge
    MaxPublished,  \* bound: alerts published
    MaxAttempts, DedupeWindow, RateLimit, RateWindow,  \* settings of the worker
    MaxFaults      \* bound: lost fetches, failed writes and restarts together

ASSUME WorkerSettings ==
    /\ MaxAttempts \in Nat \ {0} /\ RateLimit \in Nat \ {0}
    /\ DedupeWindow \in Nat \ {0} /\ RateWindow \in Nat

VARIABLES
    published,  \* history: every alert, numbered by its place
    queue,      \* alerts the broker holds
    seen,       \* _dedupe_seen_at: time left of the duplicate window
    budget,     \* _rate_events: time left of each counted message
    event,      \* alert in process, or None
    messages,   \* its messages that have no result yet
    attempt,    \* attempt number of the first of them
    results,    \* DeliveryResults so far
    dlq,        \* dead letters in memory
    totals,     \* counters of the collector
    rows,       \* tables: alerts, deliveries and dead letters
    settled,    \* history: how each message of each alert of this process ended
    lost,       \* history: alerts taken off the queue and never answered for
    faults

notifyVars == <<published, queue, seen, budget, event, messages, attempt, results, dlq,
                totals, rows, settled, lost, faults>>

Severities == <<"INFO", "WARNING", "CRITICAL">>
SeverityRank(severity) == CHOOSE r \in DOMAIN Severities : Severities[r] = severity

\* An event type is its family and whether it holds one of the words that raise it.
ClassifySeverity(family, urgent, declared) ==
    CASE family = "risk" -> IF urgent THEN "CRITICAL" ELSE "WARNING"
      [] family = "notify.risk" /\ declared = None -> IF urgent THEN "CRITICAL" ELSE "WARNING"
      [] family = "notify.risk" /\ declared # None -> declared
      [] family \in {"system", "notify.system"} -> "CRITICAL"
      [] family \in {"oms.order", "agent.decision"} -> IF urgent THEN "WARNING" ELSE "INFO"
      [] OTHER -> IF declared = None THEN "INFO" ELSE declared

\* _publish_from_source: the source's payload moves one level down, so the alert has no
\* strategy_id of its own; a source without an idempotency key gets a fresh one.
NotificationEnvelope(source, id) ==
    [id |-> id, family |-> source.notify,
     key |-> <<source.notify, IF source.key = None THEN id ELSE source.key>>,
     declared |-> ClassifySeverity(source.family, source.urgent, source.declared),
     strategy |-> None]

Normalize(envelope) ==
    [id |-> envelope.id, type |-> envelope.family, key |-> envelope.key,
     strategy |-> envelope.strategy,
     severity |-> ClassifySeverity(envelope.family, FALSE, envelope.declared)]

MatchesPreference(pref, e) ==
    /\ SeverityRank(e.severity) >= SeverityRank(pref.min)
    /\ pref.types = {} \/ e.type \in pref.types
    /\ pref.strategies = {} \/ e.strategy \in pref.strategies

ActivePreferences ==
    IF Preferences = <<>> THEN <<[user |-> "ops-default", min |-> "INFO", types |-> {},
                                  strategies |-> {}, gateways |-> <<"telegram">>]>>
    ELSE Preferences

\* The preferences and their gateways, in the order in which route visits them.
Subscriptions ==
    FlattenSeq([p \in DOMAIN ActivePreferences |->
        LET pref == ActivePreferences[p]
        IN  [g \in DOMAIN pref.gateways |->
                [pref |-> pref, target |-> <<pref.user, pref.gateways[g]>>]]])

\* The (user, gateway) pairs an alert is for.
Targets(e) ==
    LET wanted == SelectSeq(Subscriptions, LAMBDA s : MatchesPreference(s.pref, e))
    IN  [i \in DOMAIN wanted |-> wanted[i].target]

Get(f, k, default) == IF k \in DOMAIN f THEN f[k] ELSE default
Put(f, k, v) == [x \in DOMAIN f \union {k} |-> IF x = k THEN v ELSE f[x]]

WithinBudget(r, target) == Len(Get(r.budget, target, <<>>)) < RateLimit

\* Slip: an alert that the rate limit drops counts as seen.
RouteTargetMarksFirst(e, r, target) ==
    LET key == <<target, e.key>>
    IN  IF key \in DOMAIN r.seen THEN [r EXCEPT !.dedupe = Append(@, target)]
        ELSE IF ~ WithinBudget(r, target)
             THEN [r EXCEPT !.limited = Append(@, target),
                            !.seen = Put(@, key, DedupeWindow)]
        ELSE [r EXCEPT !.budget = Put(@, target, Append(Get(@, target, <<>>), RateWindow + 1)),
                       !.seen = Put(@, key, DedupeWindow),
                       !.messages = Append(@, target)]

\* One turn of the loop in route: r is the router and what it has decided so far.
RouteTarget(e, r, target) ==
    LET key == <<target, e.key>>
    IN  IF key \in DOMAIN r.seen THEN [r EXCEPT !.dedupe = Append(@, target)]
        ELSE IF ~ WithinBudget(r, target) THEN [r EXCEPT !.limited = Append(@, target)]
        ELSE [r EXCEPT !.budget = Put(@, target, Append(Get(@, target, <<>>), RateWindow + 1)),
                       !.seen = Put(@, key, DedupeWindow),
                       !.messages = Append(@, target)]

Route(e) ==
    LET targets == Targets(e)
        after[n \in 0 .. Len(targets)] ==
            IF n = 0 THEN [seen |-> seen, budget |-> budget, messages |-> <<>>,
                           dedupe |-> <<>>, limited |-> <<>>]
            ELSE RouteTarget(e, after[n - 1], targets[n])
    IN  after[Len(targets)]

\* What a gateway makes of the answer of its service: http holds the class of the
\* answer, no_answer that the call failed or timed out.
SendTelegram(http) == CASE http = "ok" -> "DELIVERED"
                        [] http \in {"busy", "no_answer"} -> "RETRYABLE_ERROR"
                        [] OTHER -> "FAILED_TERMINAL"

SendWebhook(http) == CASE http \in {"ok", "not_ok"} -> "DELIVERED"
                       [] http \in {"busy", "no_answer"} -> "RETRYABLE_ERROR"
                       [] OTHER -> "FAILED_TERMINAL"

SendEmail(http) == CASE http = "ok" -> "DELIVERED"
                     [] http \in {"busy", "no_answer"} -> "RETRYABLE_ERROR"
                     [] OTHER -> "FAILED_TERMINAL"

GatewaySend(gateway, http) ==
    CASE GatewayKind[gateway] = "telegram" -> SendTelegram(http)
      [] GatewayKind[gateway] = "webhook" -> SendWebhook(http)
      [] GatewayKind[gateway] = "email" -> SendEmail(http)

\* The counters of the collector.
RecordPolicyResult(t, filtered) == [t EXCEPT !.received = @ + 1, !.filtered = @ + filtered]

Failed(rs) == SelectSeq(rs, LAMBDA r : r.status = "FAILED")

RecordDispatchResult(t, rs) ==
    [t EXCEPT !.delivered = @ + Len(rs) - Len(Failed(rs)), !.failed = @ + Len(Failed(rs))]

\* The rows _persist writes for an alert: the alert itself once per identity.
PersistNotificationEvent(e) == {<<e.key, e.severity>>}
PersistNotificationDelivery(e, rs) ==
    {<<e.id, rs[i].target, rs[i].status>> : i \in DOMAIN rs}
PersistNotificationDlqEntry(e, rs) == {<<e.id, Failed(rs)[i].target>> : i \in DOMAIN Failed(rs)}

Idle == event = None

NotifyInit ==
    /\ published = <<>> /\ queue = <<>>
    /\ seen = <<>> /\ budget = <<>>
    /\ event = None /\ messages = <<>> /\ attempt = 0 /\ results = <<>>
    /\ dlq = {} /\ totals = [received |-> 0, filtered |-> 0, delivered |-> 0, failed |-> 0]
    /\ rows = [events |-> {}, deliveries |-> {}, deadLetters |-> {}]
    /\ settled = {} /\ lost = {} /\ faults = 0

PublishAlert ==
    /\ Len(published) < MaxPublished
    /\ \E source \in Sources :
           LET envelope == NotificationEnvelope(source, Len(published) + 1)
           IN  published' = Append(published, envelope) /\ queue' = Append(queue, envelope)
    /\ UNCHANGED <<seen, budget, event, messages, attempt, results, dlq, totals, rows,
                   settled, lost, faults>>

Ended(e, target, how) == [id |-> e.id, key |-> e.key, target |-> target, how |-> how]

\* run_once up to the first await of dispatch: take the alert off the queue, normalise
\* it, route it. Nothing is put back whatever happens next.
ReceiveEnvelope ==
    /\ Idle /\ queue # <<>>
    /\ \E e \in {Normalize(Head(queue))} : \E r \in {Route(e)} :
           /\ event' = e /\ messages' = r.messages
           /\ seen' = r.seen /\ budget' = r.budget
           /\ totals' = RecordPolicyResult(totals, Len(r.dedupe) + Len(r.limited))
           /\ settled' = settled \union {Ended(e, t, "dedupe") : t \in ToSet(r.dedupe)}
                                 \union {Ended(e, t, "rate_limit") : t \in ToSet(r.limited)}
    /\ queue' = Tail(queue) /\ attempt' = 1 /\ results' = <<>>
    /\ UNCHANGED <<published, dlq, rows, lost, faults>>

\* The broker forgot the alert when it answered the fetch, and the answer was lost or
\* could not be read.
FetchLost ==
    /\ Idle /\ queue # <<>> /\ faults < MaxFaults
    /\ lost' = lost \union {Head(queue).id} /\ queue' = Tail(queue) /\ faults' = faults + 1
    /\ UNCHANGED <<published, seen, budget, event, messages, attempt, results, dlq, totals,
                   rows, settled>>

\* _dispatch_single is done with the first message.
FinishMessage(status) ==
    /\ results' = Append(results, [target |-> Head(messages), status |-> status])
    /\ messages' = Tail(messages) /\ attempt' = 1
    /\ settled' = settled \union
           {Ended(event, Head(messages), IF status = "FAILED" THEN "dead_letter" ELSE "delivered")}
    /\ dlq' = IF status = "FAILED" THEN dlq \union {<<event.id, Head(messages)>>} ELSE dlq

\* Slip: a message that used up its attempts starts over.
AttemptStartsOver ==
    /\ ~ Idle /\ messages # <<>>
    /\ LET gateway == Head(messages)[2]
       IN  IF gateway \notin DOMAIN GatewayKind THEN FinishMessage("FAILED")
           ELSE \E http \in {"ok", "not_ok", "busy", "refused", "no_answer"} :
                    LET status == GatewaySend(gateway, http)
                    IN  IF status = "RETRYABLE_ERROR"
                        THEN /\ attempt' = (attempt % MaxAttempts) + 1
                             /\ UNCHANGED <<messages, results, dlq, settled>>
                        ELSE FinishMessage(IF status = "DELIVERED" THEN status ELSE "FAILED")
    /\ UNCHANGED <<published, queue, seen, budget, event, totals, rows, lost, faults>>

\* Slip: a message that used up its attempts is given up without a dead letter.
AttemptGivesUp ==
    /\ ~ Idle /\ messages # <<>>
    /\ LET gateway == Head(messages)[2]
       IN  IF gateway \notin DOMAIN GatewayKind THEN FinishMessage("FAILED")
           ELSE \E http \in {"ok", "not_ok", "busy", "refused", "no_answer"} :
                    LET status == GatewaySend(gateway, http)
                    IN  IF status = "RETRYABLE_ERROR"
                        THEN IF attempt < MaxAttempts
                             THEN /\ attempt' = attempt + 1
                                  /\ UNCHANGED <<messages, results, dlq, settled>>
                             ELSE /\ messages' = Tail(messages) /\ attempt' = 1
                                  /\ UNCHANGED <<results, dlq, settled>>
                        ELSE FinishMessage(IF status = "DELIVERED" THEN status ELSE "FAILED")
    /\ UNCHANGED <<published, queue, seen, budget, event, totals, rows, lost, faults>>

\* One attempt of _dispatch_single, or the refusal of a gateway nobody registered. An
\* exception of a gateway counts as a retryable answer.
AttemptDelivery ==
    /\ ~ Idle /\ messages # <<>>
    /\ LET gateway == Head(messages)[2]
       IN  IF gateway \notin DOMAIN GatewayKind THEN FinishMessage("FAILED")
           ELSE \E http \in {"ok", "not_ok", "busy", "refused", "no_answer"} :
                    LET status == GatewaySend(gateway, http)
                    IN  IF status = "RETRYABLE_ERROR" /\ attempt < MaxAttempts
                        THEN /\ attempt' = attempt + 1
                             /\ UNCHANGED <<messages, results, dlq, settled>>
                        ELSE FinishMessage(IF status = "DELIVERED" THEN status ELSE "FAILED")
    /\ UNCHANGED <<published, queue, seen, budget, event, totals, rows, lost, faults>>

\* record_dispatch_result, then _persist: each insert in its own try. A process that
\* cannot reach its database loses the rows, not the alert.
FinishEnvelope ==
    /\ ~ Idle /\ messages = <<>>
    /\ totals' = RecordDispatchResult(totals, results)
    /\ \E written \in SUBSET DOMAIN rows :
           /\ written # DOMAIN rows => faults < MaxFaults
           /\ faults' = IF written = DOMAIN rows THEN faults ELSE faults + 1
           /\ rows' = [table \in DOMAIN rows |->
                  IF table \notin written THEN rows[table]
                  ELSE rows[table] \union
                       CASE table = "events" -> PersistNotificationEvent(event)
                         [] table = "deliveries" -> PersistNotificationDelivery(event, results)
                         [] table = "deadLetters" -> PersistNotificationDlqEntry(event, results)]
    /\ event' = None /\ attempt' = 0 /\ results' = <<>>
    /\ UNCHANGED <<published, queue, seen, budget, messages, dlq, settled, lost>>

\* The worker stops and is started again: what it held in memory is gone.
Restart ==
    /\ faults < MaxFaults /\ faults' = faults + 1
    /\ published # <<>>
    /\ lost' = lost \union {id \in DOMAIN published : id \notin {queue[i].id : i \in DOMAIN queue}}
    /\ seen' = <<>> /\ budget' = <<>>
    /\ event' = None /\ messages' = <<>> /\ attempt' = 0 /\ results' = <<>> /\ dlq' = {}
    /\ totals' = [received |-> 0, filtered |-> 0, delivered |-> 0, failed |-> 0]
    /\ settled' = {}
    /\ UNCHANGED <<published, queue, rows>>

\* Time passes: windows run out.
WindowsElapse ==
    /\ seen # <<>> \/ \E t \in DOMAIN budget : budget[t] # <<>>
    /\ seen' = [k \in {x \in DOMAIN seen : seen[x] > 1} |-> seen[k] - 1]
    /\ budget' = [t \in DOMAIN budget |->
                     LET live == SelectSeq(budget[t], LAMBDA left : left > 1)
                     IN  [i \in DOMAIN live |-> live[i] - 1]]
    /\ UNCHANGED <<published, queue, event, messages, attempt, results, dlq, totals, rows,
                   settled, lost, faults>>

WorkerStep == ReceiveEnvelope \/ AttemptDelivery \/ FinishEnvelope

NotifyNext == PublishAlert \/ WorkerStep \/ FetchLost \/ Restart \/ WindowsElapse

NotifySpec == NotifyInit /\ [][NotifyNext]_notifyVars /\ WF_notifyVars(WorkerStep)

-----------------------------------------------------------------------------
Taken == {published[i] : i \in DOMAIN published} \ ToSet(queue)

\* Every alert the worker took off the queue is answered for, unless a restart or a lost
\* fetch swallowed it: each user and gateway it is for got it, refused it into a dead
\* letter, or was spared it as a duplicate or for the rate limit, exactly one of these;
\* and the counters of the collector add up to that (process_envelope, dispatch).
AlertsAccounted ==
    /\ \A envelope \in Taken :
           \/ envelope.id \in lost
           \/ ~ Idle /\ event.id = envelope.id
           \/ \A t \in ToSet(Targets(Normalize(envelope))) :
                  Cardinality({s \in settled : s.id = envelope.id /\ s.target = t}) = 1
    /\ \A s \in settled : s.how = "dead_letter" <=> <<s.id, s.target>> \in dlq
    /\ rows.deadLetters = {<<d[1], d[2]>> : d \in {x \in rows.deliveries : x[3] = "FAILED"}}
           \/ faults > 0
    /\ Idle => /\ totals.filtered =
                      Cardinality({s \in settled : s.how \in {"dedupe", "rate_limit"}})
               /\ totals.failed = Cardinality(dlq)
               /\ totals.filtered + totals.delivered + totals.failed = Cardinality(settled)

\* A message is dropped as a duplicate only if an earlier alert with its key was sent to
\* the same user and gateway: delivered, or dead-lettered. A message that only the rate
\* limit stopped never silences its repetition (route marks a key after the budget).
DuplicateOfSent ==
    \A s \in settled : s.how = "dedupe" =>
        \E t \in settled : /\ t.id < s.id /\ t.key = s.key /\ t.target = s.target
                           /\ t.how \in {"delivered", "dead_letter"}

\* Every alert is eventually taken off the queue and processed to its end: the attempts
\* of a message are bounded, whatever the gateways answer (max_attempts).
AlertsSettle == []<>(queue = <<>> /\ Idle)
=============================================================================
