---------------------------- MODULE ControlPlane ----------------------------
(***************************************************************************)
(* The control plane of the API: requests that change the mode, the state  *)
(* of a strategy, a notification preference or a risk control. Handlers    *)
(* are plain functions that the server runs on threads, so requests        *)
(* interleave. Every request first replaces the shared state object by a   *)
(* new one read from the database with one query per table, changes the    *)
(* object it got, and writes its change statement by statement.            *)
(***************************************************************************)
EXTENDS RiskControls, FiniteSets, SequencesExt

CONSTANTS
    Strategies,    \* ids of the strategies of build_default_state
    DefaultMode,   \* settings.default_mode
    StrictMode,    \* settings.strict_database_mode
    Operations,    \* requests the clients send
    MaxRequests,   \* bound: requests sent
    MaxInFlight,   \* bound: requests handled at once
    MaxDbFaults    \* bound: reads and writes that fail

VARIABLES
    repository,  \* whether the application has a repository
    db,          \* tables: latest audited mode, strategy rows, preference rows
    objects,     \* state objects that something still refers to
    current,     \* app.state.control_plane_state
    clock,       \* mode changes made so far, the order of their changed_at
    requests,    \* one record per request sent
    dbFaults,
    acked,       \* history: what the last answered request of each kind asked for
    disturbed    \* history: requests overlapped, or a write failed

planeVars == <<repository, db, objects, current, clock, requests, dbFaults, acked,
              disturbed>>

Modes == {"MOCK", "REAL"}

BuildDefaultState ==
    [mode |-> DefaultMode,
     strategies |-> [s \in Strategies |-> [mode |-> DefaultMode, state |-> "ENABLED"]],
     preferences |-> [u \in {"ops-default"} |-> "INFO"],
     risk |-> RiskControlPlane]

SetMode(o, mode) ==
    IF o.mode = mode THEN o
    ELSE [o EXCEPT !.mode = mode,
                   !.strategies = [s \in DOMAIN @ |-> [@[s] EXCEPT !.mode = mode]]]

With(f, k, v) == [x \in DOMAIN f \union {k} |-> IF x = k THEN v ELSE f[x]]
Without(f, k) == [x \in DOMAIN f \ {k} |-> f[x]]

\* Slip: a strategy keeps the mode it was first created in.
SetStrategyStateDefaultMode(o, s, state) ==
    [o EXCEPT !.strategies = With(@, s, [mode |-> DefaultMode, state |-> state])]

SetStrategyState(o, s, state) ==
    [o EXCEPT !.strategies = With(@, s, [mode |-> o.mode, state |-> state])]

UpsertPreference(o, user, severity) == [o EXCEPT !.preferences = With(@, user, severity)]
DeletePreference(o, user) == [o EXCEPT !.preferences = Without(@, user)]

RiskOperation(rc, name) ==
    CASE name = "trip" -> TripCircuitBreaker(rc, Null)
      [] name = "reset" -> ResetCircuitBreaker(rc)
      [] name = "enable" -> EnableKillSwitch(rc)
      [] name = "disable" -> DisableKillSwitch(rc)

\* risk_status: snapshot, gate, drain.
RiskStatus(rc) == DrainEvents(AutoResetIfExpired(rc))

\* _hydrate_mode_and_strategies and _list_notification_preferences: a table without rows
\* leaves the default in place.
HydrateStrategies(o) ==
    IF DOMAIN db.strategies = {} THEN o ELSE [o EXCEPT !.strategies = db.strategies]
HydratePreferences(o) ==
    IF DOMAIN db.preferences = {} THEN o ELSE [o EXCEPT !.preferences = db.preferences]

\* persist_mode_change writes the audit row, then one row per strategy of the object; the
\* audit row with the latest changed_at gives the mode.
PersistModeChange(o) ==
    <<[table |-> "mode", mode |-> o.mode, at |-> clock + 1]>> \o
        LET ids == SetToSeq(DOMAIN o.strategies)
        IN  [i \in DOMAIN ids |->
                [table |-> "strategy", id |-> ids[i], row |-> o.strategies[ids[i]]]]

Write(statement) ==
    CASE statement.table = "mode" ->
             IF statement.at < db.at THEN db
             ELSE [db EXCEPT !.mode = statement.mode, !.at = statement.at]
      [] statement.table = "strategy" ->
             [db EXCEPT !.strategies = With(@, statement.id, statement.row)]
      [] statement.table = "preference" ->
             [db EXCEPT !.preferences = With(@, statement.user, statement.severity)]
      [] statement.table = "forget" -> [db EXCEPT !.preferences = Without(@, statement.user)]

\* What the handlers do to their state object o, the statements they will run and the
\* code they will answer.
HandleMode(o, op) ==
    LET after == SetMode(o, op.mode)
    IN  [object |-> after, code |-> 200,
         todo |-> IF after.mode = o.mode THEN <<>> ELSE PersistModeChange(after)]

HandleStrategy(o, op) ==
    LET after == SetStrategyState(o, op.id, op.state)
    IN  [object |-> after, code |-> 200,
         todo |-> <<[table |-> "strategy", id |-> op.id, row |-> after.strategies[op.id]]>>]

HandleUpsertPreference(o, op) ==
    [object |-> UpsertPreference(o, op.user, op.severity), code |-> 200,
     todo |-> <<[table |-> "preference", user |-> op.user, severity |-> op.severity]>>]

HandleDeletePreference(o, op) ==
    IF op.user \notin DOMAIN o.preferences
    THEN [object |-> o, code |-> 404, todo |-> <<>>]
    ELSE [object |-> DeletePreference(o, op.user), code |-> 204,
          todo |-> <<[table |-> "forget", user |-> op.user]>>]

\* A risk operation that changes nothing emits no event, and looking for that event raises.
LastRiskEvent(rc) == IF rc.events = <<>> THEN 500 ELSE 200

HandleRisk(o, op) ==
    LET after == RiskOperation(o.risk, op.name)
    IN  [object |-> [o EXCEPT !.risk = DrainEvents(after)], todo |-> <<>>,
         code |-> LastRiskEvent(after)]

HandleRiskStatus(o) ==
    [object |-> [o EXCEPT !.risk = RiskStatus(o.risk)], todo |-> <<>>, code |-> 200]

Handle(o, op) ==
    CASE op.kind = "mode" -> HandleMode(o, op)
      [] op.kind = "strategy" -> HandleStrategy(o, op)
      [] op.kind = "preference" -> HandleUpsertPreference(o, op)
      [] op.kind = "forget" -> HandleDeletePreference(o, op)
      [] op.kind = "risk" -> HandleRisk(o, op)
      [] op.kind = "status" -> HandleRiskStatus(o)

PlaneInit ==
    /\ repository \in BOOLEAN
    /\ db = [mode |-> Null, at |-> 0, strategies |-> <<>>, preferences |-> <<>>]
    /\ objects = [n \in {0} |-> BuildDefaultState] /\ current = 0 /\ clock = 0
    /\ requests = <<>> /\ dbFaults = 0 /\ disturbed = FALSE
    /\ acked = [mode |-> DefaultMode, strategies |-> [s \in Strategies |-> "ENABLED"],
                kill |-> FALSE, seen |-> FALSE, reports |-> FALSE]

InFlight == {r \in DOMAIN requests : requests[r].pc # "done"}

Referred(rs, cur) ==
    {cur} \union {rs[r].ref : r \in {q \in DOMAIN rs : rs[q].pc \in {"handle", "write"}}}

\* Drop the objects nothing refers to any more.
Live(objs, rs, cur) == [n \in DOMAIN objs \intersect Referred(rs, cur) |-> objs[n]]

\* A request arrives; with a repository its mode query runs first.
BeginRequest ==
    /\ Len(requests) < MaxRequests /\ Cardinality(InFlight) < MaxInFlight
    /\ \E op \in Operations :
           requests' = Append(requests,
               [op |-> op, ref |-> current, todo |-> <<>>, code |-> 0,
                mode |-> IF repository /\ db.mode # Null THEN db.mode ELSE DefaultMode,
                pc |-> IF repository THEN "load" ELSE "handle"])
    /\ disturbed' = (disturbed \/ InFlight # {})
    /\ UNCHANGED <<repository, db, objects, current, clock, dbFaults, acked>>

Become(r, fields) == [requests EXCEPT ![r] = fields]

\* The other queries of load_state; the new object becomes the shared one. A query that
\* fails is answered 503 in strict mode, and otherwise leaves the old object in use.
LoadState(r) ==
    /\ requests[r].pc = "load"
    /\ \/ LET o == HydratePreferences(HydrateStrategies(
                       [BuildDefaultState EXCEPT !.mode = requests[r].mode]))
              rs == Become(r, [requests[r] EXCEPT !.pc = "handle", !.ref = r])
          IN  /\ requests' = rs /\ current' = r
              /\ objects' = Live(With(objects, r, o), rs, r)
              /\ UNCHANGED <<dbFaults, disturbed>>
       \/ /\ dbFaults < MaxDbFaults /\ dbFaults' = dbFaults + 1 /\ disturbed' = TRUE
          /\ requests' = Become(r, IF StrictMode
                                   THEN [requests[r] EXCEPT !.pc = "done", !.code = 503]
                                   ELSE [requests[r] EXCEPT !.pc = "handle", !.ref = current])
          /\ UNCHANGED <<objects, current>>
    /\ UNCHANGED <<repository, db, clock, acked>>

\* The handler up to its first statement; without a repository it writes nothing.
HandleRequest(r) ==
    /\ requests[r].pc = "handle"
    /\ LET h == Handle(objects[requests[r].ref], requests[r].op)
       IN  /\ objects' = [objects EXCEPT ![requests[r].ref] = h.object]
           /\ clock' = IF h.object.mode # objects[requests[r].ref].mode THEN clock + 1 ELSE clock
           /\ requests' = Become(r, [requests[r] EXCEPT
                  !.pc = "write", !.code = h.code, !.todo = IF repository THEN h.todo ELSE <<>>])
    /\ UNCHANGED <<repository, db, current, dbFaults, acked, disturbed>>

\* A second passes for the cooldowns of the circuit breakers.
CooldownPasses ==
    /\ \E n \in DOMAIN objects : objects[n].risk.openFor \notin {Null, 0}
    /\ objects' = [n \in DOMAIN objects |-> [objects[n] EXCEPT !.risk = Elapse(@)]]
    /\ UNCHANGED <<repository, db, current, clock, requests, dbFaults, acked, disturbed>>

\* One statement of the handler, in its own transaction. An exception abandons the
\* statements that are left; the handler logs it and goes on to its answer.
WriteRow(r) ==
    /\ requests[r].pc = "write" /\ requests[r].todo # <<>>
    /\ \/ /\ db' = Write(Head(requests[r].todo))
          /\ requests' = Become(r, [requests[r] EXCEPT !.todo = Tail(@)])
          /\ UNCHANGED <<dbFaults, disturbed>>
       \/ /\ dbFaults < MaxDbFaults /\ dbFaults' = dbFaults + 1 /\ disturbed' = TRUE
          /\ requests' = Become(r, [requests[r] EXCEPT !.todo = <<>>])
          /\ UNCHANGED db
    /\ UNCHANGED <<repository, objects, current, clock, acked>>

Acknowledge(op, o, code) ==
    CASE code \notin {200, 204} -> acked
      [] op.kind = "mode" -> [acked EXCEPT !.mode = op.mode]
      [] op.kind = "strategy" -> [acked EXCEPT !.strategies[op.id] = op.state]
      [] op.kind = "risk" /\ op.name \in {"enable", "disable"} ->
             [acked EXCEPT !.kill = (op.name = "enable"), !.seen = FALSE]
      [] op.kind = "status" -> [acked EXCEPT !.seen = TRUE, !.reports = o.risk.kill]
      [] OTHER -> acked

\* The events are published on a best-effort basis and the request is answered.
Answer(r) ==
    /\ requests[r].pc = "write" /\ requests[r].todo = <<>>
    /\ LET rs == Become(r, [op |-> requests[r].op, pc |-> "done", code |-> requests[r].code])
       IN  /\ requests' = rs
           /\ acked' = Acknowledge(requests[r].op, objects[requests[r].ref], requests[r].code)
           /\ objects' = Live(objects, rs, current)
    /\ UNCHANGED <<repository, db, current, clock, dbFaults, disturbed>>

PlaneNext ==
    \/ BeginRequest
    \/ CooldownPasses
    \/ \E r \in InFlight : LoadState(r) \/ HandleRequest(r) \/ WriteRow(r) \/ Answer(r)

PlaneSpec == PlaneInit /\ [][PlaneNext]_planeVars

-----------------------------------------------------------------------------
Quiet == InFlight = {}

\* As long as requests come one at a time and no statement fails, what was acknowledged
\* is what is stored: the audited mode and the state of every strategy are those last
\* asked for, and every strategy row carries the audited mode (update_mode,
\* update_strategy_state and the refresh before each). Overlapping requests and a write
\* that fails half way through a mode change are the only ways to part them.
AcknowledgedIsStored ==
    repository /\ Quiet /\ ~ disturbed =>
        LET mode == IF db.mode = Null THEN DefaultMode ELSE db.mode
        IN  /\ mode = acked.mode
            /\ \A s \in DOMAIN db.strategies : /\ db.strategies[s].mode = mode
                                               /\ db.strategies[s].state = acked.strategies[s]
            /\ \A s \in Strategies \ DOMAIN db.strategies : acked.strategies[s] = "ENABLED"

\* A status read after the kill switch was enabled, and not disabled since, reports it
\* as enabled (docs/runbooks/risk-incident.md: the risk status endpoint reports active
\* blockers).
KillSwitchHolds == ~ disturbed /\ acked.seen => (acked.kill => acked.reports)
=============================================================================
