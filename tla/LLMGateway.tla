------------------------------ MODULE LLMGateway ------------------------------
(***************************************************************************)
(* llm_gateway/gateway.py over the stores of sqlalchemy_stores.py: callers *)
(* in several worker processes share the usage tables of one strategy and  *)
(* agent.  Each SQL statement is a transaction of its own, so every one of *)
(* them is a step; wait_for bounds the wait for a provider.                *)
(***************************************************************************)
EXTENDS Integers, Sequences, FiniteSets, FiniteSetsExt, SequencesExt

CONSTANTS
    Null,
    Callers,
    Providers,    \* sequence of [enabled, client, max_retries, price]
    Answers,      \* set of [prompt, completion, reported]: what a provider may do
    LimitRows,    \* rows llm_quota_limits may hold: [daily, monthly, hard] or Null
    EstimatedPrompt, MaxTokens,
    MaxRequests, MaxDay,
    MaxFaults     \* statements that fail

ASSUME ProviderAssumption ==
    \A k \in DOMAIN Providers : Providers[k].max_retries \in Nat /\ Providers[k].price \in Nat

VARIABLES
    limits,      \* the row of llm_quota_limits
    day,         \* the date
    call,        \* caller -> its generate() in progress, or Null
    requests,    \* requests made
    daily,       \* llm_usage_daily: day -> total_tokens
    monthly,     \* llm_usage_monthly: estimated_cost
    recorded,    \* llm_calls: day -> total_tokens of the rows
    recordedCost,
    refused,     \* llm_calls: rows with status quota_blocked and failed
    faults

tables == <<daily, monthly, recorded, recordedCost, refused>>
vars == <<limits, day, call, requests, tables, faults>>

Days == 1..MaxDay
Total(f) == MapThenSumSet(LAMBDA d : f[d], DOMAIN f)
NoTokens == [tokens |-> 0, cost |-> 0]

Init ==
    /\ limits \in LimitRows
    /\ day = 1 /\ faults = 0
    /\ call = [c \in Callers |-> Null] /\ requests = 0
    /\ daily = [d \in Days |-> 0] /\ monthly = 0
    /\ recorded = [d \in Days |-> 0] /\ recordedCost = 0
    /\ refused = [blocked |-> 0, failed |-> 0]

-----------------------------------------------------------------------------
(* Arithmetic of the gateway *)

\* A payload without a usage object counts as nothing.
ExtractUsage(answer) ==
    IF answer.reported THEN [prompt |-> answer.prompt, completion |-> answer.completion,
                             total |-> answer.prompt + answer.completion]
                       ELSE [prompt |-> 0, completion |-> 0, total |-> 0]

EstimateCost(prompt, completion, provider) == (prompt + completion) * provider.price

ProjectedTokens == Max({1, EstimatedPrompt}) + Max({MaxTokens, 0})

\* The cheapest enabled provider; the fallback may well be a dearer one.
MinimumProjectedCost ==
    LET costs == {EstimateCost(Max({1, EstimatedPrompt}), Max({MaxTokens, 0}), Providers[k]) :
                     k \in {i \in DOMAIN Providers : Providers[i].enabled}}
    IN  IF costs = {} THEN 0 ELSE Min(costs)

\* Slip: what the request itself may use is left out.
ExceedsIgnoringRequest(tokens, cost) ==
    \/ limits.daily # Null /\ tokens > limits.daily
    \/ limits.monthly # Null /\ cost > limits.monthly

ExceedsHardLimit(tokens, cost) ==
    \/ limits.daily # Null /\ tokens + ProjectedTokens > limits.daily
    \/ limits.monthly # Null /\ cost + MinimumProjectedCost > limits.monthly

-----------------------------------------------------------------------------
(* generate: the loops over the providers and their attempts *)

\* Disabled providers are passed over; one without a client ends the request
\* with ProviderNotConfiguredError and no record.
NextProvider(g) ==
    LET rest == (g.provider + 1)..Len(Providers)
        usable == {k \in rest : Providers[k].enabled}
        next == Min(usable \union {Len(Providers) + 1})
        passed == [i \in 1..(next - g.provider - 1) |->
                      [provider |-> g.provider + i, attempt |-> 0]]
    IN  IF usable = {} THEN [g EXCEPT !.pc = "failed", !.errors = @ \o passed]
        ELSE IF ~Providers[next].client THEN Null
        ELSE [g EXCEPT !.pc = "complete", !.provider = next, !.attempt = 1,
                       !.errors = @ \o passed]

FailedAttempt(g) ==
    [g EXCEPT !.usage = NoTokens,
              !.errors = Append(@, [provider |-> g.provider, attempt |-> g.attempt])]

\* Slip: one attempt too few.
AttemptFailedEarly(g) ==
    IF g.attempt < Providers[g.provider].max_retries
    THEN [FailedAttempt(g) EXCEPT !.pc = "complete", !.attempt = @ + 1]
    ELSE NextProvider(FailedAttempt(g))

\* Slip: after the last provider the order starts again.
AttemptFailedRoundAgain(g) ==
    LET failed == NextProvider(FailedAttempt(g))
    IN  IF g.attempt <= Providers[g.provider].max_retries
        THEN [FailedAttempt(g) EXCEPT !.pc = "complete", !.attempt = @ + 1]
        ELSE IF failed # Null /\ failed.pc = "failed"
        THEN NextProvider([failed EXCEPT !.provider = 0, !.errors = <<>>])
        ELSE failed

\* Any exception of an attempt, those of the bookkeeping after the answer
\* included, leads to the next attempt or to the next provider.
AttemptFailed(g) ==
    IF g.attempt <= Providers[g.provider].max_retries
    THEN [FailedAttempt(g) EXCEPT !.pc = "complete", !.attempt = @ + 1]
    ELSE NextProvider(FailedAttempt(g))

-----------------------------------------------------------------------------
(* _enforce_hard_quota_limits *)

Goto(c, pc) == call' = [call EXCEPT ![c].pc = pc]
At(c, pc) == call[c] # Null /\ call[c].pc = pc

NewCall == [pc |-> "monthly", seen |-> 0, provider |-> 0, attempt |-> 0,
            usage |-> NoTokens, errors |-> <<>>]

\* get_limits and the first query of get_usage: nothing changes the limits while
\* the workers run, so the two reads are one step.
GetUsage(c) ==
    /\ call[c] = Null /\ requests < MaxRequests /\ requests' = requests + 1
    /\ call' = [call EXCEPT ![c] = IF limits # Null /\ limits.hard
                                   THEN [NewCall EXCEPT !.seen = daily[day]]
                                   ELSE NextProvider(NewCall)]
    /\ UNCHANGED <<limits, day, tables, faults>>

GetMonthlyUsage(c) ==
    /\ At(c, "monthly")
    /\ call' = [call EXCEPT ![c] = IF ExceedsHardLimit(call[c].seen, monthly)
                                   THEN [@ EXCEPT !.pc = "blocked"] ELSE NextProvider(@)]
    /\ UNCHANGED <<limits, day, requests, tables, faults>>

\* LLMQuotaExceededError, once the refusal is on record.
PersistQuotaBlock(c) ==
    /\ At(c, "blocked")
    /\ refused' = [refused EXCEPT !.blocked = @ + 1]
    /\ call' = [call EXCEPT ![c] = Null]
    /\ UNCHANGED <<limits, day, requests, daily, monthly, recorded, recordedCost, faults>>

-----------------------------------------------------------------------------
(* generate: one attempt *)

Complete(c, answer) ==
    /\ At(c, "complete")
    /\ LET usage == ExtractUsage(answer)
           cost == EstimateCost(usage.prompt, usage.completion, Providers[call[c].provider])
       IN  call' = [call EXCEPT ![c].pc = "count_daily",
                                ![c].usage = [tokens |-> usage.total, cost |-> cost]]
    /\ UNCHANGED <<limits, day, requests, tables, faults>>

\* The provider refuses, the connection breaks, the reply does not parse, or the
\* timeout cancels the wait. Nothing bounds how often: a provider may be down.
CompleteFails(c) ==
    /\ At(c, "complete")
    /\ call' = [call EXCEPT ![c] = AttemptFailed(@)]
    /\ UNCHANGED <<limits, day, requests, tables, faults>>

\* Slip: the increment is computed from the usage read before the call.
IncrementFromSeen(c) ==
    /\ At(c, "count_daily") /\ Goto(c, "count_monthly")
    /\ daily' = [daily EXCEPT ![day] = call[c].seen + call[c].usage.tokens]
    /\ UNCHANGED <<limits, day, requests, monthly, recorded, recordedCost, refused, faults>>

\* increment_usage: two upserts, each atomic (the row of llm_usage_daily also sums
\* the cost, which nothing reads).
IncrementDaily(c) ==
    /\ At(c, "count_daily") /\ Goto(c, "count_monthly")
    /\ daily' = [daily EXCEPT ![day] = @ + call[c].usage.tokens]
    /\ UNCHANGED <<limits, day, requests, monthly, recorded, recordedCost, refused, faults>>

IncrementMonthly(c) ==
    /\ At(c, "count_monthly") /\ Goto(c, "record")
    /\ monthly' = monthly + call[c].usage.cost
    /\ UNCHANGED <<limits, day, requests, daily, recorded, recordedCost, refused, faults>>

PersistSuccess(c) ==
    /\ At(c, "record")
    /\ recorded' = [recorded EXCEPT ![day] = @ + call[c].usage.tokens]
    /\ recordedCost' = recordedCost + call[c].usage.cost
    /\ call' = [call EXCEPT ![c] = Null]
    /\ UNCHANGED <<limits, day, requests, daily, monthly, refused, faults>>

\* LLMRetryExhaustedError, once the failure is on record.
PersistFailure(c) ==
    /\ At(c, "failed")
    /\ refused' = [refused EXCEPT !.failed = @ + 1]
    /\ call' = [call EXCEPT ![c] = Null]
    /\ UNCHANGED <<limits, day, requests, daily, monthly, recorded, recordedCost, faults>>

\* A statement raises, perhaps after it was committed.  Inside an attempt the
\* error is one of the attempt; elsewhere it leaves generate().
StatementFails(c, committed) ==
    /\ call[c] # Null /\ faults < MaxFaults /\ faults' = faults + 1
    /\ LET pc == call[c].pc
           usage == IF committed THEN call[c].usage ELSE NoTokens
       IN  /\ pc \notin {"provider", "complete"}
           /\ committed => pc \notin {"daily", "monthly"}
           /\ daily' = IF pc = "count_daily" THEN [daily EXCEPT ![day] = @ + usage.tokens]
                                             ELSE daily
           /\ monthly' = IF pc = "count_monthly" THEN monthly + usage.cost ELSE monthly
           /\ recorded' = IF pc = "record" THEN [recorded EXCEPT ![day] = @ + usage.tokens]
                                           ELSE recorded
           /\ recordedCost' = IF pc = "record" THEN recordedCost + usage.cost ELSE recordedCost
           /\ refused' = IF ~committed THEN refused
                         ELSE CASE pc = "blocked" -> [refused EXCEPT !.blocked = @ + 1]
                                [] pc = "failed" -> [refused EXCEPT !.failed = @ + 1]
                                [] OTHER -> refused
           /\ call' = [call EXCEPT ![c] =
                         IF pc \in {"count_daily", "count_monthly", "record"}
                         THEN AttemptFailed(@) ELSE Null]
    /\ UNCHANGED <<limits, day, requests>>

\* The date changes while calls are under way.
Midnight ==
    /\ day < MaxDay /\ day' = day + 1
    /\ UNCHANGED <<limits, call, requests, tables, faults>>

-----------------------------------------------------------------------------
(* api/state.py list_llm_usage, over the rows of llm_calls *)

UsageReport ==
    [daily_tokens |-> recorded[day], monthly_cost |-> recordedCost,
     breach_count |-> refused.blocked]

-----------------------------------------------------------------------------

Step(c) ==
    \/ GetMonthlyUsage(c) \/ PersistQuotaBlock(c)
    \/ \E a \in Answers : Complete(c, a)
    \/ CompleteFails(c)
    \/ IncrementDaily(c) \/ IncrementMonthly(c) \/ PersistSuccess(c) \/ PersistFailure(c)

Next ==
    \/ \E c \in Callers : Step(c)
    \/ \E c \in Callers : GetUsage(c)
    \/ \E c \in Callers, committed \in BOOLEAN : StatementFails(c, committed)
    \/ Midnight

\* A statement returns or raises, and wait_for ends every attempt.
Spec == Init /\ [][Next]_vars /\ \A c \in Callers : WF_vars(Step(c))

-----------------------------------------------------------------------------

MaxUsage == Max({a.prompt + a.completion : a \in Answers})
MaxCost == MaxUsage * Max({Providers[k].price : k \in DOMAIN Providers})

InFlight(counter, stages) ==
    MapThenSumSet(LAMBDA c : IF call[c] # Null /\ call[c].pc \in stages
                             THEN call[c].usage[counter] ELSE 0, Callers)

\* A row is written only after both counters (gateway.py:113-123), and a failed
\* statement starts a new attempt: the report the API builds from llm_calls is
\* behind the quota by the answers being booked and by at most one answer for
\* each statement that failed, and is never ahead of it.
ReportAgreesWithQuota ==
    /\ Total(daily) - Total(recorded) - InFlight("tokens", {"count_monthly", "record"})
         \in 0..(faults * MaxUsage)
    /\ monthly - UsageReport.monthly_cost - InFlight("cost", {"record"})
         \in 0..(faults * MaxCost)

\* The check and the increment are separate statements (gateway.py:341, :113):
\* a hard limit can be passed, but by no more than one answer for each caller
\* that was let through and one for each answer counted again after a failed
\* statement.
QuotaOvershootBounded ==
    limits # Null /\ limits.hard =>
        LET spare(limit, needed) == IF limit > needed THEN limit - needed ELSE 0
            late == Cardinality(Callers) + faults
        IN  /\ limits.daily # Null => \A d \in Days :
                 daily[d] <= spare(limits.daily, ProjectedTokens) + late * MaxUsage
            /\ limits.monthly # Null =>
                 monthly <= spare(limits.monthly, MinimumProjectedCost) + late * MaxCost

\* A request is given up only after every provider in the order had its
\* max_retries + 1 attempts, and the record of the failure names each of them.
FailureNamesEveryAttempt ==
    \A c \in Callers : At(c, "failed") =>
        LET tries(k) == IF Providers[k].enabled
                        THEN [i \in 1..(Providers[k].max_retries + 1) |->
                                 [provider |-> k, attempt |-> i]]
                        ELSE <<[provider |-> k, attempt |-> 0]>>
        IN  call[c].errors = FlattenSeq([k \in DOMAIN Providers |-> tries(k)])

\* Every request ends with a response or an exception, even if no provider ever
\* answers again (the loops of gateway.py:87): retries and fallbacks are finite.
RequestsEnd == \A c \in Callers : call[c] # Null ~> call[c] = Null

=============================================================================
