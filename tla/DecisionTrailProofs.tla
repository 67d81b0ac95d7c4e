-------------------------- MODULE DecisionTrailProofs -------------------------
(***************************************************************************)
(* Theorem about DecisionPath, for every strategy, payload, LLM reply and  *)
(* failure: a decision leaves its marks in one order.                      *)
(***************************************************************************)
EXTENDS DecisionPath, TLAPS

WorkFields == {"id", "mode", "payload", "ctx", "plan", "risk", "decision", "guardrail",
               "status", "lifecycle", "intent", "sent"}

\* Decisions are taken off the queue in the order of their ids: the worker is busy with the
\* last one taken.
IdInv ==
    /\ issued \in 0..MaxDecisions
    /\ \E S : market \in Seq(S)
    /\ Len(market) <= issued
    /\ \A i \in 1..Len(market) : /\ market[i].id = issued - Len(market) + i
                                /\ market[i].mode \in Modes
    /\ DOMAIN work = WorkFields
    /\ pc # "idle" => /\ work.id = issued - Len(market) /\ work.id \in Decisions
                      /\ work.mode \in Modes /\ work.lifecycle \in Seq(LifecycleEvents)

LEMMA IdInvStep == IdInv /\ [Next]_vars => IdInv'
<1> SUFFICES ASSUME IdInv, [Next]_vars PROVE IdInv'
  OBVIOUS
<1>0. DOMAIN NoWork = WorkFields
  BY DEF NoWork, WorkFields
<1>1. CASE UNCHANGED <<market, issued, pc, work>>
  BY <1>1 DEF IdInv
<1>2. CASE UNCHANGED <<market, issued>> /\ pc' = "idle" /\ work' = NoWork
  BY <1>0, <1>2 DEF IdInv
<1>3. CASE /\ UNCHANGED <<market, issued>> /\ pc # "idle" /\ DOMAIN work' = WorkFields
           /\ work'.id = work.id /\ work'.mode = work.mode /\ work'.lifecycle \in Seq(LifecycleEvents)
  BY <1>3 DEF IdInv
<1>4. DOMAIN work = WorkFields /\ (pc # "idle" => work.lifecycle \in Seq(LifecycleEvents))
  BY DEF IdInv
<1>5. CASE OrchEnv
  <2>1. PICK e : /\ market' = Append(market, e) /\ e.id = issued + 1 /\ e.mode \in Modes
                 /\ issued < MaxDecisions /\ issued' = issued + 1 /\ UNCHANGED <<pc, work>>
    BY <1>5 DEF OrchEnv, MarketEvent
  <2>2. PICK S : market \in Seq(S)
    BY DEF IdInv
  <2>3. market \in Seq(S \union {e})
    BY <2>2
  <2>4. /\ Len(market') = Len(market) + 1 /\ Len(market) \in Nat
        /\ \A i \in 1..Len(market) : market'[i] = market[i]
        /\ market'[Len(market) + 1] = e
    BY <2>1, <2>2
  <2>5. issued \in Nat /\ MaxDecisions \in Nat
    BY BoundAssumption DEF IdInv
  <2>6. \A i \in 1..Len(market') : /\ market'[i].id = issued' - Len(market') + i
                                  /\ market'[i].mode \in Modes
    <3> SUFFICES ASSUME NEW i \in 1..(Len(market) + 1)
                 PROVE  market'[i].id = issued - Len(market) + i /\ market'[i].mode \in Modes
      BY <2>1, <2>4, <2>5
    <3>1. CASE i = Len(market) + 1
      BY <2>1, <2>4, <2>5, <3>1
    <3>2. CASE i \in 1..Len(market)
      BY <2>4, <3>2 DEF IdInv
    <3> QED
      BY <2>4, <3>1, <3>2
  <2>7. issued' - Len(market') = issued - Len(market) /\ Len(market') <= issued'
    BY <2>1, <2>4, <2>5 DEF IdInv
  <2>8. issued' \in 0..MaxDecisions /\ \E T : market' \in Seq(T)
    BY <2>1, <2>3, <2>5
  <2> QED
    BY <2>1, <2>6, <2>7, <2>8 DEF IdInv
<1>6. CASE ConsumeMarketEvent \/ LoseMarketEvent
  <2>1. PICK S : market \in Seq(S)
    BY DEF IdInv
  <2>2. /\ market # <<>> /\ market' = Tail(market) /\ UNCHANGED issued
        /\ \/ UNCHANGED <<pc, work>> /\ pc = "idle"
           \/ work' = [NoWork EXCEPT !.id = Head(market).id, !.mode = Head(market).mode,
                                     !.payload = Head(market).payload]
    BY <1>6 DEF ConsumeMarketEvent, LoseMarketEvent, Goto
  <2>9. Head(market) = market[1]
    BY <2>1, <2>2
  <2>8. \/ UNCHANGED <<pc, work>> /\ pc = "idle"
        \/ /\ DOMAIN work' = WorkFields
           /\ work'.id = market[1].id /\ work'.mode = market[1].mode /\ work'.lifecycle = <<>>
    <3> DEFINE taken == [NoWork EXCEPT !.id = Head(market).id, !.mode = Head(market).mode,
                                       !.payload = Head(market).payload]
    <3>1. /\ DOMAIN taken = WorkFields /\ taken.lifecycle = <<>>
          /\ taken.id = Head(market).id /\ taken.mode = Head(market).mode
      BY DEF NoWork, WorkFields
    <3> HIDE DEF taken
    <3>2. (UNCHANGED <<pc, work>> /\ pc = "idle") \/ work' = taken
      BY <2>2 DEF taken
    <3> QED
      BY <2>9, <3>1, <3>2
  <2>3. /\ Len(market') = Len(market) - 1 /\ Len(market) \in Nat \ {0} /\ market' \in Seq(S)
        /\ \A i \in 1..Len(market') : market'[i] = market[i + 1]
    BY <2>1, <2>2
  <2>4. issued \in Nat /\ MaxDecisions \in Nat
    BY BoundAssumption DEF IdInv
  <2>5. <<>> \in Seq(LifecycleEvents)
    OBVIOUS
  <2>6. /\ Len(market') <= issued
        /\ \A i \in 1..Len(market') : /\ market'[i].id = issued - Len(market') + i
                                     /\ market'[i].mode \in Modes
    <3>1. Len(market) <= issued
      BY DEF IdInv
    <3>2. ASSUME NEW i \in 1..Len(market')
          PROVE  market'[i].id = issued - Len(market') + i /\ market'[i].mode \in Modes
      <4>1. i + 1 \in 1..Len(market) /\ market'[i] = market[i + 1]
        BY <2>3
      <4>2. market[i + 1].id = issued - Len(market) + (i + 1) /\ market[i + 1].mode \in Modes
        BY <4>1 DEF IdInv
      <4> QED
        BY <2>3, <2>4, <4>1, <4>2
    <3>3. Len(market') <= issued
      BY <2>3, <2>4, <3>1
    <3> QED
      BY <3>2, <3>3
  <2>7. /\ market[1].id = issued - Len(market') /\ market[1].mode \in Modes
        /\ market[1].id \in Decisions
    BY <2>3, <2>4 DEF IdInv, Decisions
  <2> QED
    BY <1>4, <2>2, <2>3, <2>5, <2>6, <2>7, <2>8, ZenonT(60) DEF IdInv
<1>7. CASE ReadMemory \/ EnrichContext \/ CheckGuardrails
  BY <1>2, <1>3, <1>4, <1>7 DEF ReadMemory, EnrichContext, CheckGuardrails, Goto, Abort, WorkFields
<1>15. CASE SkipIntent \/ ArchiveSummary \/ WriteSummarySlot
  BY <1>3, <1>4, <1>15, ZenonT(60)
  DEF SkipIntent, ArchiveSummary, WriteSummarySlot, Goto, WorkFields
<1>16. CASE HandlerReturns
  BY <1>2, <1>3, <1>4, <1>16 DEF HandlerReturns, Return, Goto
<1>17. CASE PersistTrace
  BY <1>2, <1>3, <1>4, <1>17 DEF PersistTrace, Goto
<1>18. CASE AwaitFails
  BY <1>2, <1>18 DEF AwaitFails, Abort
<1>8. CASE \/ \E reply \in PlanReplies : MakePlan(reply)
           \/ \E reply \in RiskReplies : AssessRisk(reply)
           \/ \E reply \in ExecReplies : DecideExecution(reply)
  BY <1>3, <1>4, <1>8 DEF MakePlan, AssessRisk, DecideExecution, Goto, WorkFields
<1>9. CASE RecordStatus
  <2> DEFINE assessed == IF work.risk.approved THEN "risk_approved" ELSE "risk_rejected"
             checked == IF work.guardrail.allowed THEN "guardrail_passed" ELSE "guardrail_rejected"
  <2>1. work'.lifecycle = <<"received", "context_enriched", "planned", assessed,
                            "action_proposed", checked>>
    BY <1>4, <1>9 DEF RecordStatus, Goto, WorkFields
  <2>2. assessed \in LifecycleEvents /\ checked \in LifecycleEvents
    BY DEF LifecycleEvents
  <2> HIDE DEF assessed, checked
  <2>3. work'.lifecycle \in Seq(LifecycleEvents)
    <3>1. {"received", "context_enriched", "planned", "action_proposed"} \subseteq LifecycleEvents
      BY DEF LifecycleEvents
    <3> QED
      BY <2>1, <2>2, <3>1
  <2> QED
    BY <1>3, <1>4, <1>9, <2>3 DEF RecordStatus, Goto, WorkFields
<1>10. ASSUME NEW confirmed \in BOOLEAN, PublishIntent(confirmed) PROVE IdInv'
  <2>1. pc = "intent" /\ UNCHANGED <<market, issued>>
    BY <1>10 DEF PublishIntent
  <2>2. CASE confirmed
    <3>1. Append(work.lifecycle, "intent_published") \in Seq(LifecycleEvents)
      BY <1>4, <2>1 DEF LifecycleEvents
    <3>2. /\ DOMAIN work' = WorkFields /\ work'.id = work.id /\ work'.mode = work.mode
          /\ work'.lifecycle = Append(work.lifecycle, "intent_published")
      BY <1>4, <1>10, <2>2, ZenonT(60) DEF PublishIntent, Goto, WorkFields
    <3> QED
      BY <1>3, <2>1, <3>1, <3>2
  <2>3. CASE ~confirmed
    BY <1>2, <1>10, <2>3 DEF PublishIntent, Abort
  <2> QED
    BY <2>2, <2>3
<1>11. ASSUME NEW confirmed \in BOOLEAN, Announce(confirmed) PROVE IdInv'
  BY <1>2, <1>3, <1>4, <1>11 DEF Announce, Goto, Abort, WorkFields
<1>12. CASE \/ SimConsume \/ SimLoses
            \/ \E delivered, confirmed \in BOOLEAN : SimPublish(delivered, confirmed)
  BY <1>1, <1>12 DEF SimConsume, SimLoses, SimPublish
<1>13. CASE ReplayStep \/ \E d \in Decisions : LoadTraces(d)
  BY <1>1, <1>13 DEF ReplayStep, LoadTraces, LoadAgentRuns, LoadAgentMessages, LoadSummaries,
    ReplayDecision, orchVars
<1>14. CASE UNCHANGED vars
  BY <1>1, <1>14 DEF vars, orchVars
<1> QED
  BY <1>5, <1>6, <1>7, <1>8, <1>9, <1>10, <1>11, <1>12, <1>13, <1>14, <1>15, <1>16, <1>17, <1>18,
    ZenonT(60) DEF Next, Orchestrate, OrchStep, OrchFault, Simulate

\* A decision that left no mark yet, and the marks of one that did.
Unmarked(d) == long[d] = Null /\ announced[d] = <<>> /\ trace[d].written = 0

Trail(d) ==
    /\ announced[d] # <<>> => long[d] # Null /\ IsPrefix(announced[d], long[d].lifecycle)
    /\ trace[d].written > 0 =>
         /\ long[d] # Null /\ long[d].status = trace[d].status
         /\ announced[d] = long[d].lifecycle

Late == {"summary", "announce", "trace"}

\* Decisions not taken off the queue are unmarked, and so is the one in process until it is
\* archived; afterwards its archive row is what the locals say, and what was announced is as
\* much of their lifecycle as the worker counts as sent.
TrailInv ==
    /\ DOMAIN long = Decisions
    /\ announced \in [Decisions -> Seq(LifecycleEvents)]
    /\ trace \in [Decisions -> [status : Statuses \union {Null}, written : Nat]]
    /\ \A d \in Decisions : d > issued - Len(market) => Unmarked(d)
    /\ pc \notin Late \union {"idle"} => Unmarked(work.id) /\ work.sent = 0
    /\ pc \in Late \union {"intent", "archive"} => work.status \in Statuses
    /\ pc \in Late => /\ long[work.id] # Null /\ long[work.id].status = work.status
                      /\ long[work.id].lifecycle = work.lifecycle
    /\ pc \in {"summary", "announce"} =>
           /\ trace[work.id].written = 0
           /\ work.sent \in 0..Len(work.lifecycle)
           /\ Len(announced[work.id]) = work.sent
           /\ \A i \in 1..work.sent : announced[work.id][i] = work.lifecycle[i]
    /\ pc = "trace" => announced[work.id] = work.lifecycle
    /\ \A d \in Decisions : Trail(d)

LEMMA TrailInvImplies == TrailInv => AuditTrailInOrder
BY DEF TrailInv, Trail, AuditTrailInOrder

\* A sequence whose elements are the first ones of another is a prefix of it.
LEMMA PointwisePrefix ==
    ASSUME NEW S, NEW s \in Seq(S), NEW t \in Seq(S), Len(s) <= Len(t),
           \A i \in 1..Len(s) : s[i] = t[i]
    PROVE  IsPrefix(s, t) /\ (Len(s) = Len(t) => s = t)
<1>1. SubSeq(s, 1, Len(s)) = SubSeq(t, 1, Len(s))
  OBVIOUS
<1>2. Len(s) = Len(t) => s = t
  OBVIOUS
<1> QED
  BY <1>1, <1>2 DEF IsPrefix

LEMMA TrailInvStep ==
    IdInv /\ TrailInv /\ [Next]_vars /\ IdInv' => TrailInv'
<1> SUFFICES ASSUME IdInv, TrailInv, [Next]_vars, IdInv' PROVE TrailInv'
  OBVIOUS
<1> DEFINE Marks == <<long, announced, trace>>
           Handed == issued - Len(market)
<1>0. /\ NoWork.sent = 0 /\ NoWork.lifecycle = <<>> /\ DOMAIN work = WorkFields
      /\ pc # "idle" => /\ work.id \in Decisions /\ work.id = Handed /\ work.mode \in Modes
                        /\ work.lifecycle \in Seq(LifecycleEvents)
  BY DEF NoWork, IdInv
<1>1. CASE UNCHANGED Marks /\ Handed' = Handed /\ UNCHANGED <<pc, work>>
  BY <1>1 DEF TrailInv, Unmarked, Trail
<1>2. CASE UNCHANGED Marks /\ Handed' = Handed /\ pc' = "idle"
  BY <1>2 DEF TrailInv, Unmarked, Trail, Late
<1>3. CASE /\ UNCHANGED Marks /\ Handed' = Handed
           /\ pc \notin Late \union {"idle"} /\ pc' \notin Late \union {"idle"}
           /\ work'.id = work.id /\ work'.sent = work.sent
           /\ pc' \in {"intent", "archive"} => work'.status \in Statuses
  BY <1>3 DEF TrailInv, Unmarked, Trail, Late
<1>4. CASE ConsumeMarketEvent \/ LoseMarketEvent
  <2>1. UNCHANGED Marks /\ UNCHANGED issued /\ market # <<>> /\ market' = Tail(market) /\ pc = "idle"
    BY <1>4 DEF ConsumeMarketEvent, LoseMarketEvent
  <2>2. Handed \in Int /\ Handed' = Handed + 1
    <3>1. PICK S : market \in Seq(S)
      BY DEF IdInv
    <3>2. Len(market) \in Nat /\ Len(market') = Len(market) - 1
      BY <2>1, <3>1
    <3> QED
      BY <2>1, <3>2 DEF IdInv
  <2>3. \A d \in Decisions : d > Handed' => Unmarked(d)' /\ d > Handed
    BY <2>1, <2>2 DEF TrailInv, Unmarked, Decisions
  <2>4. \A d \in Decisions : Trail(d)'
    BY <2>1 DEF TrailInv, Trail
  <2>5. CASE UNCHANGED <<pc, work>>
    BY <2>1, <2>3, <2>4, <2>5 DEF TrailInv, Late
  <2>6. CASE pc' = "memory_read" /\ work'.sent = 0
    <3>1. work'.id = Handed' /\ work'.id \in Decisions
      BY <2>6 DEF IdInv
    <3>2. Unmarked(work.id)'
      BY <2>1, <2>2, <3>1 DEF TrailInv, Unmarked
    <3> QED
      BY <2>1, <2>3, <2>4, <2>6, <3>2 DEF TrailInv, Late
  <2> QED
    BY <1>4, <2>5, <2>6, ZenonT(60) DEF ConsumeMarketEvent, LoseMarketEvent, Goto, NoWork
<1>5. CASE OrchEnv
  <2>1. PICK S : market \in Seq(S)
    BY DEF IdInv
  <2>2. /\ UNCHANGED Marks /\ UNCHANGED <<pc, work>> /\ issued' = issued + 1
        /\ \E e : market' = Append(market, e)
    BY <1>5 DEF OrchEnv, MarketEvent
  <2>3. Handed' = Handed
    BY <2>1, <2>2 DEF IdInv
  <2> QED
    BY <1>1, <2>2, <2>3
<1>6. CASE ReadMemory \/ EnrichContext \/ CheckGuardrails \/ SkipIntent
  <2>1. pc = "intent" => work.status \in Statuses
    BY DEF TrailInv, Late
  <2> QED
    BY <1>0, <1>2, <1>3, <1>6, <2>1 DEF ReadMemory, EnrichContext, CheckGuardrails, SkipIntent,
      Goto, Abort, Late, WorkFields
<1>7. CASE \/ \E reply \in PlanReplies : MakePlan(reply)
           \/ \E reply \in RiskReplies : AssessRisk(reply)
           \/ \E reply \in ExecReplies : DecideExecution(reply)
  BY <1>0, <1>3, <1>7 DEF MakePlan, AssessRisk, DecideExecution, Goto, Late, WorkFields
<1>8. CASE RecordStatus
  <2>1. DecisionStatus(work.risk, work.guardrail) \in Statuses
    BY DEF DecisionStatus, Statuses
  <2>2. /\ UNCHANGED Marks /\ UNCHANGED <<market, issued>> /\ pc = "status" /\ pc' = "intent"
        /\ work'.id = work.id /\ work'.sent = work.sent
        /\ work'.status = DecisionStatus(work.risk, work.guardrail)
    BY <1>0, <1>8 DEF RecordStatus, Goto, WorkFields
  <2> QED
    BY <1>3, <2>1, <2>2 DEF Late
<1>9. ASSUME NEW confirmed \in BOOLEAN, PublishIntent(confirmed) PROVE TrailInv'
  <2>1. CASE confirmed
    <3>1. /\ UNCHANGED Marks /\ UNCHANGED <<market, issued>> /\ pc = "intent" /\ pc' = "archive"
          /\ work'.id = work.id /\ work'.sent = work.sent /\ work'.status = work.status
      BY <1>0, <1>9, <2>1, ZenonT(60) DEF PublishIntent, Goto, WorkFields
    <3>2. work.status \in Statuses
      BY <3>1 DEF TrailInv, Late
    <3> QED
      BY <1>3, <3>1, <3>2 DEF Late
  <2>2. CASE ~confirmed
    BY <1>2, <1>9, <2>2 DEF PublishIntent, Abort
  <2> QED
    BY <2>1, <2>2
<1>10. CASE ArchiveSummary
  <2> DEFINE row == [mode |-> work.mode, status |-> work.status, lifecycle |-> work.lifecycle]
  <2>1. /\ pc = "archive" /\ pc' = "summary" /\ UNCHANGED <<market, issued, announced, trace>>
        /\ work'.id = work.id /\ work'.status = work.status /\ work'.sent = work.sent
        /\ work'.lifecycle = work.lifecycle /\ long' = [long EXCEPT ![work.id] = row]
    BY <1>0, <1>10 DEF ArchiveSummary, Goto, WorkFields
  <2>2. Unmarked(work.id) /\ work.sent = 0 /\ work.status \in Statuses
    BY <2>1 DEF TrailInv, Late
  <2>3. row # Null /\ row.status = work.status /\ row.lifecycle = work.lifecycle
    BY <1>0, <2>1, <2>2, SummaryAssumption
  <2> HIDE DEF row
  <2>4. DOMAIN long' = Decisions /\ long'[work.id] = row
    BY <1>0, <2>1 DEF TrailInv
  <2>5. \A d \in Decisions : d # work.id => long'[d] = long[d]
    BY <2>1 DEF TrailInv
  <2>7. \A d \in Decisions : Trail(d)'
    BY <2>1, <2>2, <2>5 DEF TrailInv, Trail, Unmarked
  <2>8. \A d \in Decisions : d > Handed' => Unmarked(d)'
    BY <1>0, <2>1, <2>5 DEF TrailInv, Unmarked, Decisions
  <2>9. Len(announced'[work'.id]) = 0 /\ trace'[work'.id].written = 0
    BY <2>1, <2>2 DEF Unmarked
  <2>10. Len(work'.lifecycle) \in Nat
    BY <1>0, <2>1
  <2> QED
    BY <1>0, <2>1, <2>2, <2>3, <2>4, <2>7, <2>8, <2>9, <2>10 DEF TrailInv, Late
<1>11. CASE WriteSummarySlot
  BY <1>0, <1>11 DEF WriteSummarySlot, Goto, TrailInv, Late, Unmarked, Trail
<1>12. ASSUME NEW confirmed \in BOOLEAN, Announce(confirmed) PROVE TrailInv'
  <2> DEFINE event == work.lifecycle[work.sent + 1]
             said == Append(announced[work.id], event)
  <2>1. /\ pc = "announce" /\ work.sent < Len(work.lifecycle)
        /\ UNCHANGED <<market, issued, long, trace>>
        /\ \/ announced' = [announced EXCEPT ![work.id] = said]
           \/ UNCHANGED announced /\ pc' = "idle"
        /\ pc' = "idle" \/ (pc' = "announce" /\ work' = [work EXCEPT !.sent = @ + 1])
    BY <1>12 DEF Announce, Goto, Abort
  <2>2. CASE UNCHANGED announced /\ pc' = "idle"
    BY <1>2, <2>1, <2>2
  <2>3. CASE announced' = [announced EXCEPT ![work.id] = said]
    <3>1. /\ work.sent \in Nat /\ Len(announced[work.id]) = work.sent /\ trace[work.id].written = 0
          /\ \A i \in 1..work.sent : announced[work.id][i] = work.lifecycle[i]
          /\ long[work.id] # Null /\ long[work.id].lifecycle = work.lifecycle
          /\ long[work.id].status = work.status /\ work.status \in Statuses
          /\ announced[work.id] \in Seq(LifecycleEvents)
      BY <1>0, <2>1 DEF TrailInv, Late
    <3>2. event \in LifecycleEvents
      BY <1>0, <2>1, <3>1
    <3> HIDE DEF event
    <3>3. /\ said \in Seq(LifecycleEvents) /\ Len(said) = work.sent + 1
          /\ \A i \in 1..work.sent : said[i] = work.lifecycle[i]
          /\ said[work.sent + 1] = event
      BY <3>1, <3>2
    <3>4. \A i \in 1..Len(said) : said[i] = work.lifecycle[i]
      BY <3>1, <3>3 DEF event
    <3> HIDE DEF said
    <3>5. IsPrefix(said, work.lifecycle)
      <4>1. Len(said) <= Len(work.lifecycle)
        BY <1>0, <2>1, <3>1, <3>3
      <4> QED
        BY <1>0, <2>1, <3>3, <3>4, <4>1, PointwisePrefix
    <3>6. /\ announced' \in [Decisions -> Seq(LifecycleEvents)] /\ announced'[work.id] = said
          /\ \A d \in Decisions : d # work.id => announced'[d] = announced[d]
      BY <1>0, <2>1, <2>3, <3>3 DEF TrailInv
    <3>7. \A d \in Decisions : Trail(d)'
      <4> SUFFICES ASSUME NEW d \in Decisions PROVE Trail(d)'
        OBVIOUS
      <4>1. CASE d = work.id
        BY <2>1, <3>1, <3>5, <3>6, <4>1 DEF Trail
      <4>2. CASE d # work.id
        BY <2>1, <3>6, <4>2 DEF TrailInv, Trail
      <4> QED
        BY <4>1, <4>2
    <3>8. \A d \in Decisions : d > Handed' => Unmarked(d)'
      BY <1>0, <2>1, <3>6 DEF TrailInv, Unmarked, Decisions
    <3>9. CASE pc' = "idle"
      BY <2>1, <3>6, <3>7, <3>8, <3>9 DEF TrailInv, Late
    <3>10. CASE pc' = "announce" /\ work' = [work EXCEPT !.sent = @ + 1]
      <4>1. /\ work'.sent = work.sent + 1 /\ work'.id = work.id /\ work'.status = work.status
            /\ work'.lifecycle = work.lifecycle
        BY <1>0, <3>10 DEF WorkFields
      <4>2. work.sent + 1 \in 0..Len(work.lifecycle)
        BY <1>0, <2>1, <3>1
      <4> QED
        BY <2>1, <3>1, <3>3, <3>4, <3>6, <3>7, <3>8, <3>10, <4>1, <4>2 DEF TrailInv, Late
    <3> QED
      BY <2>1, <3>9, <3>10
  <2> QED
    BY <2>1, <2>2, <2>3
<1>13. CASE HandlerReturns
  <2>1. /\ pc = "announce" /\ UNCHANGED Marks /\ UNCHANGED <<market, issued>>
        /\ work.sent = Len(work.lifecycle)
        /\ pc' = "idle" \/ (pc' = "trace" /\ UNCHANGED work)
    BY <1>13 DEF HandlerReturns, Return, Goto
  <2>2. announced[work.id] = work.lifecycle
    <3>1. /\ announced[work.id] \in Seq(LifecycleEvents) /\ Len(announced[work.id]) = work.sent
          /\ \A i \in 1..work.sent : announced[work.id][i] = work.lifecycle[i]
      BY <1>0, <2>1 DEF TrailInv
    <3>2. /\ Len(announced[work.id]) = Len(work.lifecycle)
          /\ \A i \in 1..Len(announced[work.id]) : announced[work.id][i] = work.lifecycle[i]
      BY <2>1, <3>1
    <3>3. work.lifecycle \in Seq(LifecycleEvents)
      BY <1>0, <2>1
    <3>4. Len(announced[work.id]) <= Len(work.lifecycle)
      BY <3>2, <3>3
    <3> QED
      BY <3>1, <3>2, <3>3, <3>4, PointwisePrefix
  <2>3. CASE pc' = "idle"
    BY <1>2, <2>1, <2>3
  <2>4. CASE pc' = "trace" /\ UNCHANGED work
    BY <1>0, <2>1, <2>2, <2>4 DEF TrailInv, Late, Unmarked, Trail
  <2> QED
    BY <2>1, <2>3, <2>4
<1>14. CASE PersistTrace
  <2>1. /\ pc = "trace" /\ UNCHANGED <<market, issued, long, announced>>
        /\ trace' = [trace EXCEPT ![work.id] = [status |-> work.status, written |-> @.written + 1]]
        /\ pc' = "idle" \/ (pc' = "trace" /\ UNCHANGED work)
    BY <1>14 DEF PersistTrace, Goto
  <2>2. /\ work.status \in Statuses /\ long[work.id] # Null /\ long[work.id].status = work.status
        /\ long[work.id].lifecycle = work.lifecycle /\ announced[work.id] = work.lifecycle
        /\ trace[work.id].written \in Nat
    BY <1>0, <2>1 DEF TrailInv, Late
  <2>3. /\ trace' \in [Decisions -> [status : Statuses \union {Null}, written : Nat]]
        /\ trace'[work.id].status = work.status
        /\ \A d \in Decisions : d # work.id => trace'[d] = trace[d]
    BY <1>0, <2>1, <2>2 DEF TrailInv
  <2>4. ASSUME NEW d \in Decisions PROVE Trail(d)'
    <3>0. Trail(d)
      BY DEF TrailInv
    <3>1. CASE d = work.id
      BY <2>1, <2>2, <2>3, <3>0, <3>1 DEF Trail
    <3>2. CASE d # work.id
      BY <2>1, <2>3, <3>0, <3>2 DEF Trail
    <3> QED
      BY <3>1, <3>2
  <2>5. \A d \in Decisions : d > Handed' => Unmarked(d)'
    BY <1>0, <2>1, <2>3 DEF TrailInv, Unmarked, Decisions
  <2> QED
    BY <2>1, <2>2, <2>3, <2>4, <2>5 DEF TrailInv, Late
<1>15. CASE AwaitFails
  BY <1>2, <1>15 DEF AwaitFails, Abort
<1>16. CASE \/ SimConsume \/ SimLoses
            \/ \E delivered, confirmed \in BOOLEAN : SimPublish(delivered, confirmed)
  BY <1>1, <1>16 DEF SimConsume, SimLoses, SimPublish
<1>17. CASE ReplayStep \/ \E d \in Decisions : LoadTraces(d)
  BY <1>1, <1>17 DEF ReplayStep, LoadTraces, LoadAgentRuns, LoadAgentMessages, LoadSummaries,
    ReplayDecision, orchVars
<1>18. CASE UNCHANGED vars
  BY <1>1, <1>18 DEF vars, orchVars
<1> QED
  BY <1>4, <1>5, <1>6, <1>7, <1>8, <1>9, <1>10, <1>11, <1>12, <1>13, <1>14, <1>15, <1>16, <1>17,
    <1>18, ZenonT(60) DEF Next, Orchestrate, OrchStep, OrchFault, Simulate

\* A decision is archived before it is announced and announced in full before it is traced,
\* whatever raises in between, for every number of decisions and faults.
THEOREM AuditTrailStaysInOrder == Spec => []AuditTrailInOrder
<1>1. Init => IdInv
  <2> SUFFICES ASSUME Init PROVE IdInv
    OBVIOUS
  <2>1. /\ market = <<>> /\ issued = Earlier /\ pc = "idle" /\ work = NoWork
    BY DEF Init, OrchInit
  <2>2. DOMAIN work = WorkFields
    BY <2>1 DEF NoWork, WorkFields
  <2>3. market \in Seq({}) /\ Len(market) = 0
    BY <2>1
  <2> QED
    BY <2>1, <2>2, <2>3, BoundAssumption DEF IdInv
<1>2. Init => TrailInv
  <2> SUFFICES ASSUME Init PROVE TrailInv
    OBVIOUS
  <2> DEFINE Says == EarlierSummary.lifecycle
  <2>1. /\ pc = "idle" /\ market = <<>> /\ issued = Earlier
        /\ long = [d \in Decisions |-> IF d <= Earlier THEN EarlierSummary ELSE Null]
        /\ announced = [d \in Decisions |-> IF d <= Earlier THEN Says ELSE <<>>]
        /\ trace = [d \in Decisions |->
                      IF d <= Earlier
                      THEN [status |-> EarlierSummary.status, written |-> TraceStatements(Null)]
                      ELSE [status |-> Null, written |-> 0]]
    BY DEF Init, OrchInit
  <2>2. /\ EarlierSummary.status \in Statuses /\ Says \in Seq(LifecycleEvents)
        /\ EarlierSummary \in [mode : Modes, status : Statuses, lifecycle : Seq(LifecycleEvents)]
    BY DEF EarlierSummary, Statuses, LifecycleEvents, Modes
  <2>3. EarlierSummary # Null
    BY <2>2, SummaryAssumption
  <2>4. TraceStatements(Null) \in Nat
    BY DEF TraceStatements, Agents
  <2>5. IsPrefix(Says, Says)
    BY <2>2, PointwisePrefix
  <2> HIDE DEF Says
  <2>6. announced \in [Decisions -> Seq(LifecycleEvents)]
    BY <2>1, <2>2
  <2>7. trace \in [Decisions -> [status : Statuses \union {Null}, written : Nat]]
    BY <2>1, <2>2, <2>4
  <2>8. Earlier \in Nat /\ Len(market) = 0
    BY <2>1, BoundAssumption
  <2>9. \A d \in Decisions : d > issued - Len(market) => Unmarked(d)
    BY <2>1, <2>8 DEF Unmarked, Decisions
  <2>10. \A d \in Decisions : Trail(d)
    BY <2>1, <2>3, <2>5 DEF Trail, Says
  <2> QED
    BY <2>1, <2>6, <2>7, <2>9, <2>10 DEF TrailInv, Late
<1> QED
  BY <1>1, <1>2, IdInvStep, TrailInvStep, TrailInvImplies, PTL DEF Spec
=============================================================================
