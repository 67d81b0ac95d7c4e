----------------------------- MODULE DecisionPath -----------------------------
(***************************************************************************)
(* From a market event to simulated order events: the orchestrator worker, *)
(* the simulation worker behind the queue execution.intent.mock, and the   *)
(* replay of a decision that the API serves from the trace tables and the  *)
(* archive while both may still be writing.                                *)
(***************************************************************************)
EXTENDS AgentOrchestrator, SequencesExt

CONSTANTS
    DirectIntents,    \* intents of other publishers on execution.intent.mock
    LoadLimit,        \* rows a query of the replay returns; the code's is 500
    MaxReplays

ASSUME DirectAssumption == \A intent \in DirectIntents : "id" \in DOMAIN intent
ASSUME LimitAssumption == LoadLimit \in Nat \ {0}

Engine == INSTANCE SimulationEngine WITH NoValue <- Null

VARIABLES
    sim,         \* the intent the simulation worker is publishing events for
    orders,      \* intent -> events published as oms.order.mock
    produced,    \* history: intent -> events the engine made of it
    handled,     \* intent -> "no", "simulated", "failed" or "lost"
    direct,      \* the intent that waited when the workers were started, or Null
    replay,      \* what the replay request has read so far
    replays

simVars == <<sim, orders, produced, handled>>
replayVars == <<replay, replays>>
vars == <<orchVars, simVars, direct, replayVars>>

DirectId == MaxDecisions + 1
IntentIds == 1..DirectId
MockQueue == intents["execution.intent.mock"]

\* A replay reads nothing that the simulator writes, so an execution explores
\* either replays or a waiting intent.
Init ==
    /\ direct \in {Null} \union DirectIntents
    /\ OrchInit(IF direct = Null THEN <<>> ELSE <<[direct EXCEPT !.id = DirectId]>>)
    /\ sim = Null
    /\ orders = [i \in IntentIds |-> <<>>]
    /\ produced = [i \in IntentIds |-> <<>>]
    /\ handled = [i \in IntentIds |-> "no"]
    /\ replay = Null
    /\ replays = IF direct = Null THEN 0 ELSE MaxReplays

-----------------------------------------------------------------------------
(* simulation_execution/worker.py *)

\* safety_guard.py: only a MOCK intent taken from the mock queue.
AssertMockIntent(intent) == intent.mode = "MOCK"

SimConsume ==
    /\ sim = Null /\ MockQueue # <<>>
    /\ LET intent == Head(MockQueue)
           result == Engine!ExecuteIntent(intent)
       IN  IF AssertMockIntent(intent) /\ result.status # "ERROR"
           THEN /\ sim' = [id |-> intent.id, events |-> result.events]
                /\ produced' = [produced EXCEPT ![intent.id] = result.events]
                /\ UNCHANGED handled
           ELSE /\ handled' = [handled EXCEPT ![intent.id] = "failed"]
                /\ UNCHANGED <<sim, produced>>
    /\ intents' = [intents EXCEPT !["execution.intent.mock"] = Tail(@)]
    /\ UNCHANGED <<market, issued, pc, work, short, long, announced, trace, outcome, faults,
                   orders, direct, replayVars>>

\* consume raises after the broker forgot the message, before the try of run_once:
\* not even a failure is counted.
SimLoses ==
    /\ sim = Null /\ MockQueue # <<>>
    /\ faults < MaxFaults /\ faults' = faults + 1
    /\ handled' = [handled EXCEPT ![Head(MockQueue).id] = "lost"]
    /\ intents' = [intents EXCEPT !["execution.intent.mock"] = Tail(@)]
    /\ UNCHANGED <<market, issued, pc, work, short, long, announced, trace, outcome,
                   sim, orders, produced, direct, replayVars>>

\* Slip: a failure after the first event still counts as a success.
SimPublishLenient(delivered, confirmed) ==
    /\ sim # Null
    /\ orders' = IF delivered THEN [orders EXCEPT ![sim.id] = Append(@, Head(sim.events))]
                              ELSE orders
    /\ IF confirmed /\ Len(sim.events) > 1
       THEN sim' = [sim EXCEPT !.events = Tail(@)] /\ UNCHANGED handled
       ELSE /\ sim' = Null
            /\ handled' = [handled EXCEPT ![sim.id] =
                              IF confirmed \/ orders[sim.id] # <<>> THEN "simulated" ELSE "failed"]
    /\ IF confirmed THEN UNCHANGED faults
                    ELSE faults < MaxFaults /\ faults' = faults + 1
    /\ UNCHANGED <<market, issued, pc, work, short, long, intents, announced, trace, outcome,
                   produced, direct, replayVars>>

\* The events go out one by one; the metrics count the intent as a success only
\* after the last.
SimPublish(delivered, confirmed) ==
    /\ sim # Null
    /\ orders' = IF delivered THEN [orders EXCEPT ![sim.id] = Append(@, Head(sim.events))]
                              ELSE orders
    /\ IF confirmed /\ Len(sim.events) > 1
       THEN sim' = [sim EXCEPT !.events = Tail(@)] /\ UNCHANGED handled
       ELSE /\ sim' = Null
            /\ handled' = [handled EXCEPT ![sim.id] =
                              IF confirmed THEN "simulated" ELSE "failed"]
    /\ IF confirmed THEN UNCHANGED faults
                    ELSE faults < MaxFaults /\ faults' = faults + 1
    /\ UNCHANGED <<market, issued, pc, work, short, long, intents, announced, trace, outcome,
                   produced, direct, replayVars>>

-----------------------------------------------------------------------------
(* A replay request: dependencies.py reloads the state of the API from the    *)
(* database, one action per query of repositories.py that the replay uses,    *)
(* and replay_service.py works on what was loaded.                            *)

\* Slip: the last run is left out.
RunsButLast(rows) == Cardinality({k \in DOMAIN Agents : rows.written >= 3 * k + 2})

RunsWritten(rows) == Cardinality({k \in DOMAIN Agents : rows.written >= 3 * k - 1})

\* Decisions are started and archived in the order of their ids.
Newest(rows) == {d \in rows : Cardinality({e \in rows : e > d}) < LoadLimit}

Traced == {d \in Decisions : trace[d].written > 0}
Archived == {d \in Decisions : long[d] # Null}

\* A decision whose row is missing or is not among the newest is answered with 404
\* and changes nothing.
LoadTraces(d) ==
    /\ replay # Null => replay.step = "done"
    /\ replays < MaxReplays /\ replays' = replays + 1
    /\ d \in Newest(Traced)
    /\ replay' = [id |-> d, step |-> "runs", status |-> trace[d].status,
                  settled |-> outcome[d] = "completed",
                  summary |-> Null, runs |-> 0, messages |-> 0, diff |-> FALSE]
    /\ UNCHANGED <<orchVars, simVars, direct>>

LoadAgentRuns ==
    /\ replay # Null /\ replay.step = "runs"
    /\ replay' = [replay EXCEPT !.step = "messages", !.runs = RunsWritten(trace[replay.id])]
    /\ UNCHANGED <<orchVars, simVars, direct, replays>>

\* The query selects agent_run_id among the keys of the loaded runs, which are
\* decision ids: no row matches, whatever the worker has written.
LoadAgentMessages ==
    /\ replay # Null /\ replay.step = "messages"
    /\ replay' = [replay EXCEPT !.step = "summary", !.messages = 0]
    /\ UNCHANGED <<orchVars, simVars, direct, replays>>

LoadSummaries ==
    /\ replay # Null /\ replay.step = "summary"
    /\ replay' = [replay EXCEPT !.step = "replay",
                               !.summary = IF replay.id \in Newest(Archived) THEN long[replay.id]
                                           ELSE Null]
    /\ UNCHANGED <<orchVars, simVars, direct, replays>>

\* The statuses "failed" and "error" it looks for are never written by the worker,
\* so a difference is reported for missing runs only.
ComputeReplayDiff(runs) == runs = 0

ReplayDecision ==
    /\ replay # Null /\ replay.step = "replay"
    /\ replay' = [replay EXCEPT !.step = "done", !.diff = ComputeReplayDiff(replay.runs)]
    /\ UNCHANGED <<orchVars, simVars, direct, replays>>

ReplayStep == LoadAgentRuns \/ LoadAgentMessages \/ LoadSummaries \/ ReplayDecision

-----------------------------------------------------------------------------

Orchestrate == OrchStep /\ UNCHANGED <<simVars, direct, replayVars>>
Simulate == SimConsume \/ SimPublish(TRUE, TRUE)

Next ==
    \/ Orchestrate
    \/ Simulate
    \/ ReplayStep
    \/ (OrchFault \/ OrchEnv) /\ UNCHANGED <<simVars, direct, replayVars>>
    \/ SimLoses
    \/ \E delivered \in BOOLEAN : SimPublish(delivered, FALSE)
    \/ \E d \in Decisions : LoadTraces(d)

\* The two workers poll their queues for ever and every await returns or raises.
Spec == Init /\ [][Next]_vars /\ WF_vars(Orchestrate) /\ WF_vars(Simulate)

-----------------------------------------------------------------------------

InFlight(d) ==
    \/ \E k \in RoutingKeys : \E i \in DOMAIN intents[k] : intents[k][i].id = d
    \/ sim # Null /\ sim.id = d

\* guardrail_validation.py promises that no intent leaves the orchestrator with
\* more than the strategy allows, whatever the LLM answered: the right queue for
\* its mode, the strategy's symbol and actions, the sign of its action, and the
\* confidence, notional, position and leverage limits.
IntentWithinLimits ==
    /\ \A k \in RoutingKeys : \A i \in DOMAIN intents[k] :
         LET intent == intents[k][i]
         IN  intent.id # DirectId =>
               /\ RouteExecutionIntent(intent.mode) = k
               /\ intent.symbol = Strategy.symbol
               /\ intent.action \in Executable \intersect Strategy.allowed_actions
               /\ intent.action = "BUY" => intent.quantity > 0
               /\ intent.action = "SELL" => intent.quantity < 0
               /\ intent.confidence >= Strategy.risk_min_confidence
               /\ Abs(intent.quantity) * AtLeast(intent.mid_price, 0)
                    <= Strategy.risk_max_notional_usd * Unit
    /\ work.intent # Null =>
         LET projected == work.ctx.current_position + work.intent.quantity
         IN  /\ Abs(projected) <= Strategy.risk_max_position_size * Unit
             /\ ProjectedLeverageWithin(projected, AtLeast(work.ctx.mid_price, 0))

Sent(d) == InFlight(d) \/ handled[d] # "no"

\* The intent is published before the decision is archived (orchestrator.py:469).
\* An archived decision records intent_published exactly when its intent went out
\* (it is on a queue, or the simulator took, failed or lost it); and an intent went
\* out without the archive knowing only if the handler raised after that, or is
\* about to archive it.
ArchiveAgreesWithIntents ==
    \A d \in Decisions :
        IF long[d] # Null
        THEN Contains(long[d].lifecycle, "intent_published") <=> Sent(d)
        ELSE Sent(d) => outcome[d] = "failed" \/ (work.id = d /\ pc = "archive")

\* A decision leaves its marks in one order, whatever fails between them: the
\* archive first, then the lifecycle events one by one, then the trace. What
\* subscribers have seen is a prefix of what the archive says; a decision found in
\* decision_traces is archived under the same status and was announced in full.
AuditTrailInOrder ==
    \A d \in Decisions :
        /\ announced[d] # <<>> => long[d] # Null /\ IsPrefix(announced[d], long[d].lifecycle)
        /\ trace[d].written > 0 =>
             /\ long[d] # Null /\ long[d].status = trace[d].status
             /\ announced[d] = long[d].lifecycle

\* The state of the API is loaded one query after another, each with its own
\* limit, against a worker that may still be writing: a finished replay has the
\* archived summary with the status of the trace, unless LoadLimit later decisions
\* have been archived, and one of a settled decision shows all five agents and
\* reports no difference.
ReplayIsFaithful ==
    replay # Null /\ replay.step = "done" =>
        /\ IF replay.summary = Null
           THEN Cardinality({d \in Archived : d > replay.id}) >= LoadLimit
           ELSE replay.summary.status = replay.status
        /\ replay.settled => ~replay.diff /\ replay.runs = Len(Agents)

Unpriced(intent) ==
    /\ intent.action # "HOLD" /\ intent.quantity # 0
    /\ \A f \in DOMAIN intent \intersect {"mid_price", "limit_price", "price", "reference_price"} :
           intent[f] = Null \/ intent[f] <= 0

\* The simulator emits for an intent a prefix of the events its engine made of it,
\* each once, and counts the intent as a success only when all of them are out; an
\* intent that is waiting or being published has not been counted, and nothing is
\* emitted for one whose mode is REAL, that has no price, or that no decision
\* approved.
SimulatedOnce ==
    /\ \A i \in IntentIds :
         /\ IsPrefix(orders[i], produced[i])
         /\ handled[i] = "simulated" => orders[i] = produced[i] /\ orders[i] # <<>>
         /\ InFlight(i) => handled[i] = "no"
         /\ orders[i] # <<>> /\ i # DirectId /\ outcome[i] = "completed" =>
              long[i].status = "RISK_APPROVED" /\ long[i].mode = "MOCK"
    /\ direct # Null /\ (direct.mode # "MOCK" \/ Unpriced(direct)) => orders[DirectId] = <<>>

\* Every market event is handled to its end, recorded as failed or lost in the
\* fetch, and so is every intent that reaches the mock queue: no stage leaves a
\* decision hanging.
DecisionsSettle ==
    /\ \A d \in Decisions : issued >= d ~> outcome[d] # "pending"
    /\ \A i \in IntentIds :
         (\E k \in DOMAIN MockQueue : MockQueue[k].id = i) ~> handled[i] # "no"

=============================================================================
