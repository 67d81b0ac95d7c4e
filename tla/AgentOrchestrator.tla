-------------------------- MODULE AgentOrchestrator --------------------------
(***************************************************************************)
(* The orchestrator worker: services/agent_orchestrator/orchestrator.py    *)
(* driven by services/workers/orchestrator.py, one market event at a time. *)
(*                                                                         *)
(* handle_market_event is one action per await: whatever lies between two  *)
(* awaits cannot be interrupted, and every await can raise. An exception   *)
(* ends the cycle (workers/main.py logs it and goes on to the next         *)
(* message); the event has left the queue and is never handled again.      *)
(***************************************************************************)
EXTENDS DecisionAgents

CONSTANTS
    Payloads,         \* market payloads
    PlanReplies,      \* what the LLM may answer the planner; Null: it raised
    RiskReplies, ExecReplies,
    DurableMemory,    \* memory and traces in SQL; otherwise in the process
    JsonBroker,       \* RabbitMQ; otherwise the in-memory broker
    MaxDecisions,     \* market events
    Earlier,          \* how many of them were settled before the workers were started
    MaxFaults         \* awaits that raise although the code is right

ASSUME BoundAssumption ==
    /\ MaxDecisions \in Nat \ {0} /\ MaxFaults \in Nat
    /\ DurableMemory \in BOOLEAN /\ JsonBroker \in BOOLEAN
    /\ Earlier \in 0..MaxDecisions /\ (Earlier > 0 => DurableMemory)

VARIABLES
    market,      \* queue market.canonical
    issued,      \* decision ids handed out so far
    pc,          \* the await the worker is about to reach
    work,        \* the locals of handle_market_event
    short,       \* short-term memory: decision -> slots written
    long,        \* long-term memory: decision -> archived summary
    intents,     \* queues execution.intent.mock and execution.intent.real
    announced,   \* decision -> events published as strategy.decision.lifecycle
    trace,       \* decision -> its rows in the trace tables
    outcome,     \* decision -> "pending", "completed", "failed" or "lost"
    faults

orchVars == <<market, issued, pc, work, short, long, intents, announced, trace,
              outcome, faults>>

Decisions == 1..MaxDecisions
Modes == {"MOCK", "REAL"}
RoutingKeys == {"execution.intent.mock", "execution.intent.real"}
Statuses == {"RISK_REJECTED", "GUARDRAIL_REJECTED", "RISK_APPROVED"}
LifecycleEvents ==
    {"received", "context_enriched", "planned", "risk_approved", "risk_rejected",
     "action_proposed", "guardrail_passed", "guardrail_rejected", "intent_published"}
Agents == <<"context", "planner", "risk", "execution", "guardrail">>

ASSUME SummaryAssumption ==
    Null \notin [mode : Modes, status : Statuses, lifecycle : Seq(LifecycleEvents)]

NoWork == [id |-> Null, mode |-> Null, payload |-> Null, ctx |-> Null, plan |-> Null,
           risk |-> Null, decision |-> Null, guardrail |-> Null, status |-> Null,
           lifecycle |-> <<>>, intent |-> Null, sent |-> 0]

\* persist_cycle commits statement by statement: the decision row, then for each
\* of the five agents its run, its input and its output message, then the link
\* to the news it saw.
TraceStatements(news) == 1 + 3 * Len(Agents) + (IF news = Null THEN 0 ELSE 1)

\* An earlier decision that ended without an intent.
EarlierSummary ==
    [mode |-> "MOCK", status |-> "RISK_REJECTED",
     lifecycle |-> <<"received", "context_enriched", "planned", "risk_rejected",
                     "action_proposed", "guardrail_passed">>]

\* waiting: intents left on the mock queue from before.
OrchInit(waiting) ==
    /\ market = <<>> /\ issued = Earlier
    /\ pc = "idle" /\ work = NoWork
    /\ short = [d \in Decisions |-> {}]
    /\ long = [d \in Decisions |-> IF d <= Earlier THEN EarlierSummary ELSE Null]
    /\ intents = [k \in RoutingKeys |-> IF k = "execution.intent.mock" THEN waiting ELSE <<>>]
    /\ announced = [d \in Decisions |-> IF d <= Earlier THEN EarlierSummary.lifecycle ELSE <<>>]
    /\ trace = [d \in Decisions |->
                   IF d <= Earlier
                   THEN [status |-> EarlierSummary.status, written |-> TraceStatements(Null)]
                   ELSE [status |-> Null, written |-> 0]]
    /\ outcome = [d \in Decisions |-> IF d <= Earlier THEN "completed" ELSE "pending"]
    /\ faults = 0

\* The market worker publishes a canonical event under a fresh decision id; an
\* envelope of another event type or shape may reach the queue too.
MarketEvent(mode, valid, payload) ==
    /\ issued < MaxDecisions
    /\ issued' = issued + 1
    /\ market' = Append(market, [id |-> issued + 1, mode |-> mode, valid |-> valid,
                                 payload |-> payload])
    /\ UNCHANGED <<pc, work, short, long, intents, announced, trace, outcome, faults>>

-----------------------------------------------------------------------------

\* What an exception does: run_once is left, the locals are gone.
Abort ==
    /\ pc' = "idle" /\ work' = NoWork
    /\ outcome' = [outcome EXCEPT ![work.id] = "failed"]

Goto(stage, locals) == pc' = stage /\ work' = locals /\ UNCHANGED outcome

WriteSlot(slot) == short' = [short EXCEPT ![work.id] = @ \union {slot}]

\* Slip: an invalid envelope is put back in front of the queue.
ConsumeRequeues ==
    /\ pc = "idle" /\ market # <<>>
    /\ LET event == Head(market)
       IN  IF event.valid
           THEN /\ Goto("memory_read", [NoWork EXCEPT !.id = event.id, !.mode = event.mode,
                                                      !.payload = event.payload])
                /\ market' = Tail(market)
           ELSE UNCHANGED <<pc, work, outcome, market>>
    /\ UNCHANGED <<issued, short, long, intents, announced, trace, faults>>

\* Consuming acknowledges the message. Validation comes before the first await.
ConsumeMarketEvent ==
    /\ pc = "idle" /\ market # <<>>
    /\ LET event == Head(market)
       IN  IF event.valid
           THEN Goto("memory_read", [NoWork EXCEPT !.id = event.id, !.mode = event.mode,
                                                   !.payload = event.payload])
           ELSE /\ outcome' = [outcome EXCEPT ![event.id] = "failed"]
                /\ UNCHANGED <<pc, work>>
    /\ market' = Tail(market)
    /\ UNCHANGED <<issued, short, long, intents, announced, trace, faults>>

\* The fetch acknowledges the message before its answer arrives: when the answer
\* is lost, consume raises and nobody has the event.
LoseMarketEvent ==
    /\ pc = "idle" /\ market # <<>>
    /\ faults < MaxFaults /\ faults' = faults + 1
    /\ outcome' = [outcome EXCEPT ![Head(market).id] = "lost"]
    /\ market' = Tail(market)
    /\ UNCHANGED <<issued, pc, work, short, long, intents, announced, trace>>

\* read_decision_memory: the result is not used, but a summary found only in the
\* archive is put back into the short-term store.
ReadMemory ==
    /\ pc = "memory_read"
    /\ IF short[work.id] = {} /\ long[work.id] # Null THEN WriteSlot("summary")
                                                      ELSE UNCHANGED short
    /\ Goto("context", work)
    /\ UNCHANGED <<market, issued, long, intents, announced, trace, faults>>

EnrichContext ==
    /\ pc = "context"
    /\ Goto("plan", [work EXCEPT !.ctx = Enrich(work.payload)])
    /\ WriteSlot("context")
    /\ UNCHANGED <<market, issued, long, intents, announced, trace, faults>>

MakePlan(reply) ==
    /\ pc = "plan"
    /\ Goto("risk", [work EXCEPT !.plan = ApplyPlannerSuggestion(BuildPlan(work.ctx), reply)])
    /\ WriteSlot("plan")
    /\ UNCHANGED <<market, issued, long, intents, announced, trace, faults>>

AssessRisk(reply) ==
    /\ pc = "risk"
    /\ Goto("execution",
            [work EXCEPT !.risk = ApplyRiskSuggestion(EvaluateRisk(work.plan, work.ctx), reply)])
    /\ WriteSlot("risk")
    /\ UNCHANGED <<market, issued, long, intents, announced, trace, faults>>

DecideExecution(reply) ==
    /\ pc = "execution"
    /\ Goto("guardrail",
            [work EXCEPT !.decision =
                ApplyExecutionSuggestion(ProposeAction(work.plan, work.risk, work.ctx), reply)])
    /\ WriteSlot("execution_decision")
    /\ UNCHANGED <<market, issued, long, intents, announced, trace, faults>>

\* The SQL store serialises the slot with json.dumps.
CheckGuardrails ==
    /\ pc = "guardrail"
    /\ LET guardrail == Validate(work.ctx, work.risk, work.decision)
       IN  IF DurableMemory /\ ~JsonSerializable(guardrail)
           THEN Abort /\ UNCHANGED short
           ELSE /\ Goto("status", [work EXCEPT !.guardrail = guardrail])
                /\ WriteSlot("guardrail")
    /\ UNCHANGED <<market, issued, long, intents, announced, trace, faults>>

DecisionStatus(risk, guardrail) ==
    CASE ~risk.approved -> "RISK_REJECTED"
      [] risk.approved /\ ~guardrail.allowed -> "GUARDRAIL_REJECTED"
      [] OTHER -> "RISK_APPROVED"

RecordStatus ==
    /\ pc = "status"
    /\ Goto("intent",
            [work EXCEPT
               !.status = DecisionStatus(work.risk, work.guardrail),
               !.lifecycle = <<"received", "context_enriched", "planned",
                   IF work.risk.approved THEN "risk_approved" ELSE "risk_rejected",
                   "action_proposed",
                   IF work.guardrail.allowed THEN "guardrail_passed" ELSE "guardrail_rejected">>])
    /\ WriteSlot("status")
    /\ UNCHANGED <<market, issued, long, intents, announced, trace, faults>>

-----------------------------------------------------------------------------

\* Slip: the guardrails are computed and archived, but not asked.
ShouldPublishUnguarded(w) ==
    /\ w.risk.approved
    /\ w.decision.schema_valid
    /\ w.decision.action \in Executable
    /\ w.decision.quantity # 0

ShouldPublishIntent(w) ==
    /\ w.risk.approved /\ w.guardrail.allowed
    /\ w.decision.schema_valid
    /\ w.decision.action \in Executable
    /\ w.decision.quantity # 0

\* mode_routing.py; assert_no_mode_leakage checks the key against the mode again.
RouteExecutionIntent(mode) ==
    IF mode = "MOCK" THEN "execution.intent.mock" ELSE "execution.intent.real"

BuildIntent(w) ==
    [id |-> w.id, mode |-> w.mode, symbol |-> w.ctx.symbol, action |-> w.decision.action,
     quantity |-> w.decision.quantity, confidence |-> w.decision.confidence,
     order_type |-> Default(w.decision.order_type, "MARKET"),
     limit_price |-> w.decision.limit_price, trigger_price |-> w.decision.trigger_price,
     mid_price |-> w.ctx.mid_price, oco_legs |-> <<>>]

\* Slip: a publication error is logged and the decision goes on without it.
PublishIntentSwallowed(confirmed) ==
    /\ pc = "intent" /\ ShouldPublishIntent(work)
    /\ intents' = [intents EXCEPT ![RouteExecutionIntent(work.mode)] =
                       Append(@, BuildIntent(work))]
    /\ Goto("archive", [work EXCEPT !.lifecycle =
                           IF confirmed THEN Append(@, "intent_published") ELSE @])
    /\ IF confirmed THEN UNCHANGED faults
                    ELSE faults < MaxFaults /\ faults' = faults + 1
    /\ UNCHANGED <<market, issued, short, long, announced, trace>>

\* The intent leaves before anything is archived. Unconfirmed: the broker routed
\* it, and the HTTP answer was lost.
PublishIntent(confirmed) ==
    /\ pc = "intent" /\ ShouldPublishIntent(work)
    /\ intents' = [intents EXCEPT ![RouteExecutionIntent(work.mode)] =
                       Append(@, BuildIntent(work))]
    /\ IF confirmed
       THEN /\ Goto("archive", [work EXCEPT !.intent = BuildIntent(work),
                                            !.lifecycle = Append(@, "intent_published")])
            /\ UNCHANGED faults
       ELSE Abort /\ faults < MaxFaults /\ faults' = faults + 1
    /\ UNCHANGED <<market, issued, short, long, announced, trace>>

SkipIntent ==
    /\ pc = "intent" /\ ~ShouldPublishIntent(work)
    /\ Goto("archive", work)
    /\ UNCHANGED <<market, issued, short, long, intents, announced, trace, faults>>

\* Slip: only approved decisions are archived.
ArchiveApproved ==
    /\ pc = "archive"
    /\ long' = IF work.status # "RISK_APPROVED" THEN long
               ELSE [long EXCEPT ![work.id] = [mode |-> work.mode, status |-> work.status,
                                               lifecycle |-> work.lifecycle]]
    /\ Goto("summary", work)
    /\ UNCHANGED <<market, issued, short, intents, announced, trace, faults>>

\* persist_decision_summary: the archive first, then the short-term slot. The
\* locals that only fill texts from here on are dropped.
ArchiveSummary ==
    /\ pc = "archive"
    /\ long' = [long EXCEPT ![work.id] =
                   [mode |-> work.mode, status |-> work.status, lifecycle |-> work.lifecycle]]
    /\ Goto("summary", [work EXCEPT !.ctx = Null, !.plan = Null, !.risk = Null,
                                    !.decision = Null, !.intent = Null])
    /\ UNCHANGED <<market, issued, short, intents, announced, trace, faults>>

WriteSummarySlot ==
    /\ pc = "summary"
    /\ WriteSlot("summary")
    /\ Goto("announce", work)
    /\ UNCHANGED <<market, issued, long, intents, announced, trace, faults>>

\* After the last event the handler returns; the runner then writes the trace,
\* if it has a trace store.
Return == IF DurableMemory THEN Goto("trace", work)
          ELSE /\ pc' = "idle" /\ work' = NoWork
               /\ outcome' = [outcome EXCEPT ![work.id] = "completed"]

\* One lifecycle event per await; the guardrail event carries the violations.
Announce(confirmed) ==
    /\ pc = "announce" /\ work.sent < Len(work.lifecycle)
    /\ LET event == work.lifecycle[work.sent + 1]
           fits == JsonBroker /\ event = "guardrail_rejected"
                       => JsonSerializable(work.guardrail)
       IN  /\ announced' = IF fits THEN [announced EXCEPT ![work.id] = Append(@, event)]
                                   ELSE announced
           /\ IF fits /\ confirmed THEN Goto("announce", [work EXCEPT !.sent = @ + 1])
                                   ELSE Abort
    /\ IF confirmed THEN UNCHANGED faults
                    ELSE faults < MaxFaults /\ faults' = faults + 1
    /\ UNCHANGED <<market, issued, short, long, intents, trace>>

HandlerReturns ==
    /\ pc = "announce" /\ work.sent = Len(work.lifecycle)
    /\ Return
    /\ UNCHANGED <<market, issued, short, long, intents, announced, trace, faults>>

PersistTrace ==
    /\ pc = "trace"
    /\ trace' = [trace EXCEPT ![work.id] = [status |-> work.status, written |-> @.written + 1]]
    /\ IF trace[work.id].written + 1 < TraceStatements(work.payload.news)
       THEN Goto("trace", work)
       ELSE /\ pc' = "idle" /\ work' = NoWork
            /\ outcome' = [outcome EXCEPT ![work.id] = "completed"]
    /\ UNCHANGED <<market, issued, short, long, intents, announced, faults>>

\* Any other await raises: the database or the broker is not reachable. The
\* process may also stop there and be started again; both lose the locals.
AwaitFails ==
    /\ pc # "idle" /\ ~(pc = "intent" /\ ~ShouldPublishIntent(work))
    /\ faults < MaxFaults /\ faults' = faults + 1
    /\ Abort
    /\ UNCHANGED <<market, issued, short, long, intents, announced, trace>>

OrchStep ==
    \/ ConsumeMarketEvent
    \/ ReadMemory
    \/ EnrichContext
    \/ \E reply \in PlanReplies : MakePlan(reply)
    \/ \E reply \in RiskReplies : AssessRisk(reply)
    \/ \E reply \in ExecReplies : DecideExecution(reply)
    \/ CheckGuardrails
    \/ RecordStatus
    \/ PublishIntent(TRUE)
    \/ SkipIntent
    \/ ArchiveSummary
    \/ WriteSummarySlot
    \/ Announce(TRUE)
    \/ HandlerReturns
    \/ PersistTrace

OrchFault == LoseMarketEvent \/ PublishIntent(FALSE) \/ Announce(FALSE) \/ AwaitFails

OrchEnv == \E mode \in Modes, valid \in BOOLEAN, payload \in Payloads :
              MarketEvent(mode, valid, payload)

=============================================================================
