------------------------- MODULE RealExecutionProofs -------------------------
(***************************************************************************)
(* Proofs about RealExecution, for any number of replicas, any intents,    *)
(* any bound on what is published and any combination of faults.           *)
(*                                                                         *)
(* The heart is DispatchesReserved: every execution of a key, and every    *)
(* replica about to execute it, is backed by its record in Redis or by a   *)
(* lapse.  AtMostOnceDispatch follows from it, and so does the refinement  *)
(* of AtMostOnce.                                                          *)
(***************************************************************************)
EXTENDS RealExecution, FiniteSetTheorems, TLAPS

\* What a replica holds at each point of Handle: a delivery once received, an
\* executable one once admitted, a bridge result once executed.
HandInv ==
    \A r \in Replicas :
        /\ pc[r] # "idle" => inhand[r] \in Intents
        /\ pc[r] \in {"admitted", "executed", "marked"} => Executable(inhand[r])
        /\ pc[r] \in {"executed", "marked"} => result[r] \in Results

\* Executions done plus executions about to happen never exceed the
\* reservation in Redis plus the lapses.
DispatchesReserved ==
    \A k \in Keys :
        dispatched[k] + Cardinality(InFlight(k)) <= Permit(k)

TypeInv == TypeOK /\ HandInv

IInv == TypeInv /\ DispatchesReserved

-------------------------------------------------------------------------------
(* Facts about the operators *)

\* The dispatch key of an executable intent is one of the keys of the store.
LEMMA DispatchKeyInKeys ==
    ASSUME NEW i \in Intents, Executable(i)
    PROVE  DispatchKey(i) \in Keys
  BY DEF Keys

\* publishLifecycleEvent has an event type for every bridge result.
LEMMA EventOfInEventTypes ==
    ASSUME NEW x \in Results
    PROVE  EventOf(x) \in EventTypes
  BY DEF EventTypes

\* MarkCompleted and MarkFailed write one of the store's statuses.
LEMMA MarkAsInStatuses ==
    ASSUME NEW x
    PROVE  MarkAs(x) \in Statuses
  BY DEF MarkAs, Statuses

\* The replicas between admission and dispatch are finitely many.
LEMMA InFlightFinite ==
    ASSUME NEW k
    PROVE  /\ IsFiniteSet(InFlight(k))
           /\ Cardinality(InFlight(k)) \in Nat
  <1>1. InFlight(k) \in SUBSET Replicas
    BY DEF InFlight
  <1>2. IsFiniteSet(InFlight(k))
    BY <1>1, FS_Subset, RealExecutionAssumption
  <1> QED
    BY <1>2, FS_CardinalityType

-------------------------------------------------------------------------------
(* Types *)

\* A freshly started service is well typed.
LEMMA InitTypeInv == Init => TypeInv
  <1> SUFFICES ASSUME Init PROVE TypeInv
    OBVIOUS
  <1>1. TypeOK
    <2>1. redisUp \in BOOLEAN
      <3>1. CASE "redis" \in Faults
        BY <3>1 DEF Init
      <3>2. CASE "redis" \notin Faults
        BY <3>2 DEF Init
      <3> QED
        BY <3>1, <3>2
    <2>2. kind \in [Replicas -> {"redis", "memory"}]
      BY <2>1 DEF Init, ResolvedKind
    <2> QED
      BY <2>1, <2>2 DEF Init, TypeOK, PCs, EmptyStore, Statuses
  <1>2. HandInv
    BY DEF Init, HandInv
  <1> QED
    BY <1>1, <1>2 DEF TypeInv

\* Settling a delivery empties the replica's hand.
LEMMA SettleTypeInv ==
    ASSUME TypeInv, NEW r \in Replicas, Settle(r)
    PROVE  /\ pc' \in [Replicas -> PCs]
           /\ inhand' \in [Replicas -> Intents \cup {None}]
           /\ result' \in [Replicas -> Results \cup {None}]
           /\ HandInv'
  <1>1. /\ pc' \in [Replicas -> PCs]
        /\ inhand' \in [Replicas -> Intents \cup {None}]
        /\ result' \in [Replicas -> Results \cup {None}]
    BY DEF TypeInv, TypeOK, Settle, PCs
  <1>2. HandInv'
    BY DEF TypeInv, TypeOK, HandInv, Settle
  <1> QED
    BY <1>1, <1>2

\* Every step of a replica or of its environment keeps the types and what
\* each replica holds.
LEMMA NextTypeInv == TypeInv /\ [Next]_vars => TypeInv'
  <1> SUFFICES ASSUME TypeInv, [Next]_vars PROVE TypeInv'
    OBVIOUS
  <1> USE DEF TypeInv
  <1>1. ASSUME NEW i \in Intents, PublishIntent(i) PROVE TypeInv'
    BY <1>1 DEF PublishIntent, TypeOK, HandInv, storeVars
  <1>2. CASE RedisToggle
    BY <1>2 DEF RedisToggle, TypeOK, HandInv
  <1>3. ASSUME NEW k \in Keys, Expire(k) PROVE TypeInv'
    BY <1>3 DEF Expire, TypeOK, HandInv, Statuses
  <1>4. ASSUME NEW r \in Replicas, Receive(r) PROVE TypeInv'
    <2>1. Head(queue) \in Intents /\ Tail(queue) \in Seq(Intents)
      BY <1>4 DEF Receive, TypeOK
    <2> QED
      BY <1>4, <2>1 DEF Receive, TypeOK, HandInv, storeVars, PCs
  <1>5. ASSUME NEW r \in Replicas, LoseReceive(r) PROVE TypeInv'
    <2>1. Tail(queue) \in Seq(Intents)
      BY <1>5 DEF LoseReceive, TypeOK
    <2> QED
      BY <1>5, <2>1 DEF LoseReceive, TypeOK, HandInv, storeVars
  <1>6. ASSUME NEW r \in Replicas, RejectBody(r) PROVE TypeInv'
    BY <1>6, SettleTypeInv DEF RejectBody, TypeOK, storeVars
  <1>7. ASSUME NEW r \in Replicas, TryStart(r) PROVE TypeInv'
    <2> DEFINE k == DispatchKey(inhand[r])
    <2>1. k \in Keys
      BY <1>7, DispatchKeyInKeys DEF TryStart, HandInv
    <2>2. PICK admitted \in BOOLEAN :
            /\ StoreTryStart(r, k, admitted)
            /\ IF admitted
                 THEN /\ pc' = [pc EXCEPT ![r] = "admitted"]
                      /\ UNCHANGED <<inhand, result>>
                 ELSE Settle(r)
      BY <1>7 DEF TryStart
    <2> HIDE DEF k
    <2>3. /\ redis' \in [Keys -> Statuses]
          /\ memory' \in [Replicas -> [Keys -> Statuses]]
          /\ lapses' \in [Keys -> Nat]
      <3>1. CASE RedisTryStart(k, admitted) /\ UNCHANGED memory
        <4>1. \/ redis' = redis
              \/ redis' = [redis EXCEPT ![k] = "STARTED"]
              \/ redis' = [redis EXCEPT ![k] = IF @ = "NONE" THEN "STARTED" ELSE @]
          BY <3>1 DEF RedisTryStart
        <4>2. \/ lapses' = lapses
              \/ lapses' = [lapses EXCEPT ![k] = @ + 1]
          BY <3>1 DEF RedisTryStart
        <4>3. redis' \in [Keys -> Statuses]
          BY <2>1, <4>1 DEF TypeOK, Statuses
        <4>4. lapses' \in [Keys -> Nat]
          <5>1. lapses \in [Keys -> Nat]
            BY DEF TypeOK
          <5> QED
            BY <2>1, <4>2, <5>1
        <4> QED
          BY <3>1, <4>3, <4>4 DEF TypeOK
      <3>2. CASE MemoryTryStart(r, k, admitted) /\ UNCHANGED redis
        BY <2>1, <3>2 DEF MemoryTryStart, TypeOK, Statuses
      <3> QED
        BY <2>2, <3>1, <3>2 DEF StoreTryStart
    <2>4. /\ pc' \in [Replicas -> PCs]
          /\ inhand' \in [Replicas -> Intents \cup {None}]
          /\ result' \in [Replicas -> Results \cup {None}]
          /\ HandInv'
      <3>1. CASE admitted
        BY <1>7, <2>2, <3>1 DEF TryStart, TypeOK, HandInv, PCs
      <3>2. CASE ~admitted
        BY <2>2, <3>2, SettleTypeInv
      <3> QED
        BY <3>1, <3>2
    <2> QED
      BY <1>7, <2>3, <2>4 DEF TryStart, TypeOK
  <1>8. ASSUME NEW r \in Replicas, NEW res \in Results, Execute(r, res)
        PROVE  TypeInv'
    <2>1. PICK executed \in {0, 1} :
            dispatched' = [dispatched EXCEPT ![DispatchKey(inhand[r])] = @ + executed]
      BY <1>8 DEF Execute
    <2>2. DispatchKey(inhand[r]) \in Keys
      BY <1>8, DispatchKeyInKeys DEF Execute, HandInv
    <2>3. dispatched' \in [Keys -> Nat]
      BY <2>1, <2>2 DEF TypeOK
    <2> QED
      BY <1>8, <2>3 DEF Execute, TypeOK, HandInv, storeVars, PCs
  <1>9. ASSUME NEW r \in Replicas, Mark(r) PROVE TypeInv'
    <2> DEFINE k == DispatchKey(inhand[r])
               s == MarkAs(result[r])
    <2>1. k \in Keys /\ s \in Statuses
      BY <1>9, MarkAsInStatuses, DispatchKeyInKeys DEF Mark, HandInv
    <2> HIDE DEF k, s
    <2>2. redis' = redis \/ redis' = [redis EXCEPT ![k] = s]
      BY <1>9 DEF Mark, k, s
    <2>3. memory' = memory \/ memory' = [memory EXCEPT ![r][k] = s]
      BY <1>9 DEF Mark, k, s
    <2>4. /\ redis \in [Keys -> Statuses]
          /\ memory \in [Replicas -> [Keys -> Statuses]]
      BY DEF TypeOK
    <2>5. redis' \in [Keys -> Statuses]
      BY <2>1, <2>2, <2>4
    <2>6. memory' \in [Replicas -> [Keys -> Statuses]]
      BY <2>1, <2>3, <2>4
    <2> QED
      BY <1>9, <2>5, <2>6 DEF Mark, TypeOK, HandInv, PCs
  <1>10. ASSUME NEW r \in Replicas, PublishEvent(r) PROVE TypeInv'
    <2>1. events' \in [Keys -> [EventTypes -> Nat]]
      <3> DEFINE k == DispatchKey(inhand[r])
                 e == EventOf(result[r])
      <3>1. k \in Keys /\ e \in EventTypes
        BY <1>10, DispatchKeyInKeys, EventOfInEventTypes DEF PublishEvent, HandInv
      <3>2. events' = [events EXCEPT ![k][e] = @ + 1]
        BY <1>10 DEF PublishEvent
      <3> HIDE DEF k, e
      <3> QED
        BY <3>1, <3>2 DEF TypeOK
    <2> QED
      BY <1>10, <2>1, SettleTypeInv DEF PublishEvent, TypeOK, storeVars
  <1>11. ASSUME NEW r \in Replicas, FailPublish(r) PROVE TypeInv'
    BY <1>11, SettleTypeInv DEF FailPublish, TypeOK, storeVars
  <1>12. ASSUME NEW r \in Replicas, Crash(r) PROVE TypeInv'
    <2>1. /\ kind' \in [Replicas -> {"redis", "memory"}]
          /\ memory' \in [Replicas -> [Keys -> Statuses]]
      BY <1>12 DEF Crash, TypeOK, ResolvedKind, EmptyStore, Statuses
    <2> QED
      BY <1>12, <2>1, SettleTypeInv DEF Crash, TypeOK
  <1>13. CASE UNCHANGED vars
    BY <1>13 DEF vars, TypeOK, HandInv
  <1> QED
    BY <1>1, <1>2, <1>3, <1>4, <1>5, <1>6, <1>7, <1>8, <1>9, <1>10, <1>11,
       <1>12, <1>13 DEF Next, Step

\* Every variable keeps its type, and a replica holds what its place in Handle
\* needs.
THEOREM TypeInvCorrect == Spec => []TypeInv
  BY InitTypeInv, NextTypeInv, PTL DEF Spec

\* The stores, the queue and the replicas' control states keep their types for
\* any number of replicas and intents and any combination of faults.
THEOREM TypeCorrect == Spec => []TypeOK
  <1>1. TypeInv => TypeOK
    BY DEF TypeInv
  <1> QED
    BY <1>1, TypeInvCorrect, PTL

-------------------------------------------------------------------------------
(* What a step does to the permits of a key *)

\* The permits of a key are a number.
LEMMA PermitInNat ==
    ASSUME TypeInv, NEW k \in Keys
    PROVE  Permit(k) \in Nat
  BY DEF TypeInv, TypeOK, Permit, Reserved

\* A record that expires leaves a lapse behind.
LEMMA ExpirePermit ==
    ASSUME TypeInv, NEW j \in Keys, Expire(j), NEW k \in Keys
    PROVE  Permit(k)' = Permit(k)
  BY DEF TypeInv, TypeOK, Expire, Permit, Reserved

\* TryStart grants a permit for its key exactly when it admits the caller.
LEMMA TryStartPermit ==
    ASSUME TypeInv, NEW r \in Replicas, NEW j \in Keys, NEW admitted \in BOOLEAN,
           StoreTryStart(r, j, admitted), NEW k \in Keys
    PROVE  Permit(k)' = IF admitted /\ k = j THEN Permit(k) + 1 ELSE Permit(k)
  <1>1. lapses \in [Keys -> Nat] /\ redis \in [Keys -> Statuses]
    BY DEF TypeInv, TypeOK
  <1>2. CASE RedisTryStart(j, admitted)
    <2>1. CASE /\ admitted = (redis[j] = "NONE") /\ UNCHANGED lapses
               /\ redis' = [redis EXCEPT ![j] = IF @ = "NONE" THEN "STARTED" ELSE @]
      <3>1. admitted <=> redis[j] = "NONE"
        BY <2>1
      <3>2. Reserved(k)' = IF redis[j] = "NONE" /\ k = j THEN 1 ELSE Reserved(k)
        BY <1>1, <2>1 DEF Reserved
      <3>3. lapses'[k] = lapses[k] /\ lapses[k] \in Nat
        BY <1>1, <2>1
      <3>4. CASE redis[j] = "NONE" /\ k = j
        BY <3>1, <3>2, <3>3, <3>4 DEF Permit, Reserved
      <3>5. CASE ~(redis[j] = "NONE" /\ k = j)
        BY <3>1, <3>2, <3>3, <3>5 DEF Permit, Reserved
      <3> QED
        BY <3>4, <3>5
    <2>2. CASE admitted /\ UNCHANGED redis /\ lapses' = [lapses EXCEPT ![j] = @ + 1]
      BY <1>1, <2>2 DEF Permit, Reserved
    <2>3. CASE /\ admitted /\ redis[j] = "NONE"
               /\ redis' = [redis EXCEPT ![j] = "STARTED"] /\ UNCHANGED lapses
      BY <1>1, <2>3 DEF Permit, Reserved
    <2> QED
      BY <1>2, <2>1, <2>2, <2>3 DEF RedisTryStart
  <1>3. CASE MemoryTryStart(r, j, admitted) /\ UNCHANGED redis
    BY <1>1, <1>3 DEF MemoryTryStart, Permit, Reserved
  <1> QED
    BY <1>2, <1>3 DEF StoreTryStart

\* Recording an outcome grants at most one permit: it writes the record again
\* when the reservation is gone.
LEMMA MarkPermit ==
    ASSUME TypeInv, NEW r \in Replicas, Mark(r), NEW k \in Keys
    PROVE  /\ k # DispatchKey(inhand[r]) => Permit(k)' = Permit(k)
           /\ Permit(k)' \in {Permit(k), Permit(k) + 1}
  <1> DEFINE j == DispatchKey(inhand[r])
             s == MarkAs(result[r])
  <1>1. lapses \in [Keys -> Nat] /\ redis \in [Keys -> Statuses]
    BY DEF TypeInv, TypeOK
  <1>2. redis' = redis \/ redis' = [redis EXCEPT ![j] = s]
    BY DEF Mark
  <1>3. lapses' = lapses
    BY DEF Mark
  <1>4. s # "NONE"
    BY DEF MarkAs
  <1> HIDE DEF j, s
  <1>5. k # j => Permit(k)' = Permit(k)
    BY <1>1, <1>2, <1>3 DEF Permit, Reserved
  <1>6. Permit(k)' \in {Permit(k), Permit(k) + 1}
    BY <1>1, <1>2, <1>3, <1>4 DEF Permit, Reserved
  <1> QED
    BY <1>5, <1>6 DEF j

-------------------------------------------------------------------------------
(* What a step does to the replicas in flight *)

\* A replica that settles is not in flight any more.
LEMMA SettleInFlight ==
    ASSUME TypeInv, NEW r \in Replicas, Settle(r), NEW k
    PROVE  /\ Cardinality(InFlight(k))' \in Nat
           /\ Cardinality(InFlight(k))' <= Cardinality(InFlight(k))
  <1>1. InFlight(k)' = InFlight(k) \ {r}
    BY DEF TypeInv, TypeOK, Settle, InFlight
  <1>2. IsFiniteSet(InFlight(k)) /\ Cardinality(InFlight(k)) \in Nat
    BY InFlightFinite
  <1>3. /\ IsFiniteSet(InFlight(k) \ {r})
        /\ Cardinality(InFlight(k) \ {r}) =
             IF r \in InFlight(k) THEN Cardinality(InFlight(k)) - 1
             ELSE Cardinality(InFlight(k))
    BY <1>2, FS_RemoveElement
  <1>4. Cardinality(InFlight(k) \ {r}) \in Nat
    BY <1>3, FS_CardinalityType
  <1> QED
    BY <1>1, <1>2, <1>3, <1>4

\* An admitted replica is in flight for its key, and for no other.
LEMMA AdmitInFlight ==
    ASSUME TypeInv, NEW r \in Replicas, pc[r] = "received",
           pc' = [pc EXCEPT ![r] = "admitted"], UNCHANGED inhand, NEW k
    PROVE  Cardinality(InFlight(k))' =
             IF k = DispatchKey(inhand[r]) THEN Cardinality(InFlight(k)) + 1
             ELSE Cardinality(InFlight(k))
  <1>1. IsFiniteSet(InFlight(k)) /\ r \notin InFlight(k)
    BY InFlightFinite DEF InFlight
  <1>2. CASE k = DispatchKey(inhand[r])
    <2>1. InFlight(k)' = InFlight(k) \cup {r}
      BY <1>2 DEF TypeInv, TypeOK, InFlight
    <2> QED
      BY <1>1, <1>2, <2>1, FS_AddElement, ZenonT(60)
  <1>3. CASE k # DispatchKey(inhand[r])
    <2>1. InFlight(k)' = InFlight(k)
      BY <1>3 DEF TypeInv, TypeOK, InFlight
    <2> QED
      BY <1>3, <2>1
  <1> QED
    BY <1>2, <1>3

\* A replica that called the bridge is not in flight any more.
LEMMA ExecuteInFlight ==
    ASSUME TypeInv, NEW r \in Replicas, pc[r] = "admitted",
           pc' = [pc EXCEPT ![r] = "executed"], UNCHANGED inhand, NEW k
    PROVE  Cardinality(InFlight(k))' =
             IF k = DispatchKey(inhand[r]) THEN Cardinality(InFlight(k)) - 1
             ELSE Cardinality(InFlight(k))
  <1>1. IsFiniteSet(InFlight(k))
    BY InFlightFinite
  <1>2. CASE k = DispatchKey(inhand[r])
    <2>1. r \in InFlight(k) /\ InFlight(k)' = InFlight(k) \ {r}
      BY <1>2 DEF TypeInv, TypeOK, InFlight
    <2> QED
      BY <1>1, <1>2, <2>1, FS_RemoveElement, ZenonT(60)
  <1>3. CASE k # DispatchKey(inhand[r])
    <2>1. InFlight(k)' = InFlight(k)
      BY <1>3 DEF TypeInv, TypeOK, InFlight
    <2> QED
      BY <1>3, <2>1
  <1> QED
    BY <1>2, <1>3

-------------------------------------------------------------------------------
(* The inductive invariant *)

\* No dispatch has happened at start-up.
LEMMA InitIInv == Init => IInv
  <1> SUFFICES ASSUME Init PROVE IInv
    OBVIOUS
  <1>1. TypeInv
    BY InitTypeInv
  <1>2. ASSUME NEW k \in Keys
        PROVE  dispatched[k] + Cardinality(InFlight(k)) <= Permit(k)
    <2>1. InFlight(k) = {}
      BY DEF Init, InFlight
    <2>2. Cardinality(InFlight(k)) = 0
      BY <2>1, FS_EmptySet
    <2>3. dispatched[k] = 0 /\ Permit(k) \in Nat
      BY <1>1, PermitInNat DEF Init
    <2> QED
      BY <2>2, <2>3
  <1> QED
    BY <1>1, <1>2 DEF IInv, DispatchesReserved

\* Every step keeps dispatches within the permits: TryStart adds a permit for
\* each replica it admits, Execute spends one, a lapse is a permit of its own.
LEMMA NextIInv == IInv /\ [Next]_vars => IInv'
  <1> SUFFICES ASSUME IInv, [Next]_vars PROVE IInv'
    OBVIOUS
  <1>1. TypeInv /\ TypeInv'
    BY NextTypeInv DEF IInv
  <1> SUFFICES ASSUME NEW k \in Keys
               PROVE  dispatched'[k] + Cardinality(InFlight(k))' <= Permit(k)'
    BY <1>1 DEF IInv, DispatchesReserved
  <1> DEFINE c == Cardinality(InFlight(k))
             Goal == dispatched'[k] + Cardinality(InFlight(k))' <= Permit(k)'
  <1>2. /\ dispatched[k] \in Nat
        /\ c \in Nat
        /\ Permit(k) \in Nat
        /\ dispatched[k] + c <= Permit(k)
    BY <1>1, InFlightFinite, PermitInNat
    DEF IInv, DispatchesReserved, TypeInv, TypeOK
  <1>3. ASSUME UNCHANGED <<pc, inhand, dispatched, redis, lapses>> PROVE Goal
    BY <1>2, <1>3 DEF InFlight, Permit, Reserved
  <1>4. ASSUME NEW r \in Replicas, Settle(r), UNCHANGED <<dispatched, redis, lapses>>
        PROVE  Goal
    <2>1. Cardinality(InFlight(k))' \in Nat /\ Cardinality(InFlight(k))' <= c
      BY <1>1, <1>4, SettleInFlight
    <2>2. Permit(k)' = Permit(k) /\ dispatched'[k] = dispatched[k]
      BY <1>4 DEF Permit, Reserved
    <2> QED
      BY <1>2, <2>1, <2>2
  <1>5. ASSUME NEW i \in Intents, PublishIntent(i) PROVE Goal
    BY <1>3, <1>5 DEF PublishIntent, storeVars
  <1>6. CASE RedisToggle
    BY <1>3, <1>6 DEF RedisToggle
  <1>7. ASSUME NEW j \in Keys, Expire(j) PROVE Goal
    <2>1. Permit(k)' = Permit(k)
      BY <1>1, <1>7, ExpirePermit
    <2>2. Cardinality(InFlight(k))' = c /\ dispatched'[k] = dispatched[k]
      BY <1>7 DEF Expire, InFlight
    <2> QED
      BY <1>2, <2>1, <2>2
  <1>8. ASSUME NEW r \in Replicas, Receive(r) PROVE Goal
    <2>1. InFlight(k)' = InFlight(k)
      BY <1>1, <1>8 DEF Receive, InFlight, TypeInv, TypeOK
    <2>2. Permit(k)' = Permit(k) /\ dispatched'[k] = dispatched[k]
      BY <1>8 DEF Receive, storeVars, Permit, Reserved
    <2> QED
      BY <1>2, <2>1, <2>2
  <1>9. ASSUME NEW r \in Replicas, LoseReceive(r) PROVE Goal
    BY <1>3, <1>9 DEF LoseReceive, storeVars
  <1>10. ASSUME NEW r \in Replicas, RejectBody(r) PROVE Goal
    BY <1>4, <1>10 DEF RejectBody, storeVars
  <1>11. ASSUME NEW r \in Replicas, TryStart(r) PROVE Goal
    <2> DEFINE j == DispatchKey(inhand[r])
    <2>1. j \in Keys
      BY <1>1, <1>11, DispatchKeyInKeys DEF TryStart, TypeInv, HandInv
    <2>2. PICK admitted \in BOOLEAN :
            /\ StoreTryStart(r, j, admitted)
            /\ IF admitted
                 THEN /\ pc' = [pc EXCEPT ![r] = "admitted"]
                      /\ UNCHANGED <<inhand, result>>
                 ELSE Settle(r)
      BY <1>11 DEF TryStart
    <2>3. dispatched'[k] = dispatched[k]
      BY <1>11 DEF TryStart
    <2>4. Permit(k)' = IF admitted /\ k = j THEN Permit(k) + 1 ELSE Permit(k)
      BY <1>1, <2>1, <2>2, TryStartPermit
    <2>5. CASE admitted
      <3>1. Cardinality(InFlight(k))' = IF k = j THEN c + 1 ELSE c
        BY <1>1, <1>11, <2>2, <2>5, AdmitInFlight DEF TryStart
      <3> HIDE DEF c, j
      <3> QED
        BY <1>2, <2>3, <2>4, <2>5, <3>1
    <2>6. CASE ~admitted
      <3>1. Cardinality(InFlight(k))' \in Nat /\ Cardinality(InFlight(k))' <= c
        BY <1>1, <2>2, <2>6, SettleInFlight
      <3> HIDE DEF c, j
      <3> QED
        BY <1>2, <2>3, <2>4, <2>6, <3>1
    <2> QED
      BY <2>5, <2>6
  <1>12. ASSUME NEW r \in Replicas, NEW res \in Results, Execute(r, res) PROVE Goal
    <2> DEFINE j == DispatchKey(inhand[r])
    <2>1. PICK executed \in {0, 1} :
            dispatched' = [dispatched EXCEPT ![j] = @ + executed]
      BY <1>12 DEF Execute
    <2>2. Permit(k)' = Permit(k)
      BY <1>12 DEF Execute, storeVars, Permit, Reserved
    <2>3. Cardinality(InFlight(k))' = IF k = j THEN c - 1 ELSE c
      BY <1>1, <1>12, ExecuteInFlight, ZenonT(60) DEF Execute
    <2>4. dispatched'[k] = IF k = j THEN dispatched[k] + executed ELSE dispatched[k]
      BY <1>1, <2>1 DEF TypeInv, TypeOK
    <2> HIDE DEF c, j
    <2> QED
      BY <1>2, <2>2, <2>3, <2>4
  <1>13. ASSUME NEW r \in Replicas, Mark(r) PROVE Goal
    <2>1. Permit(k)' \in {Permit(k), Permit(k) + 1}
      BY <1>1, <1>13, MarkPermit
    <2>2. InFlight(k)' = InFlight(k)
      BY <1>1, <1>13 DEF Mark, InFlight, TypeInv, TypeOK
    <2>3. dispatched'[k] = dispatched[k]
      BY <1>13 DEF Mark
    <2> QED
      BY <1>2, <2>1, <2>2, <2>3
  <1>14. ASSUME NEW r \in Replicas, PublishEvent(r) PROVE Goal
    BY <1>4, <1>14 DEF PublishEvent, storeVars
  <1>15. ASSUME NEW r \in Replicas, FailPublish(r) PROVE Goal
    BY <1>4, <1>15 DEF FailPublish, storeVars
  <1>16. ASSUME NEW r \in Replicas, Crash(r) PROVE Goal
    BY <1>4, <1>16 DEF Crash
  <1>17. CASE UNCHANGED vars
    BY <1>3, <1>17 DEF vars
  <1> QED
    BY <1>5, <1>6, <1>7, <1>8, <1>9, <1>10, <1>11, <1>12, <1>13, <1>14, <1>15,
       <1>16, <1>17 DEF Next, Step

\* The handler never executes a dispatch key twice unless a reservation of that
\* key lapsed, whatever the number of replicas, duplicates and crashes.
THEOREM AtMostOnceCorrect == Spec => []AtMostOnceDispatch
  <1>1. IInv => AtMostOnceDispatch
    <2> SUFFICES ASSUME IInv, NEW k \in Keys, lapses[k] = 0
                 PROVE  dispatched[k] <= 1
      BY DEF AtMostOnceDispatch
    <2>1. dispatched[k] \in Nat /\ Cardinality(InFlight(k)) \in Nat
      BY InFlightFinite DEF IInv, TypeInv, TypeOK
    <2>2. dispatched[k] + Cardinality(InFlight(k)) <= Reserved(k)
      BY DEF IInv, DispatchesReserved, Permit, Reserved
    <2>3. Reserved(k) \in {0, 1}
      BY DEF Reserved
    <2> QED
      BY <2>1, <2>2, <2>3
  <1> QED
    BY <1>1, InitIInv, NextIInv, PTL DEF Spec

-------------------------------------------------------------------------------
(* RealExecution implements AtMostOnce *)

\* A step that keeps the permits of every key and the executions maps to a
\* stuttering step.
LEMMA MapsToStutter ==
    ASSUME \A k \in Keys : Permit(k)' = Permit(k), UNCHANGED dispatched
    PROVE  UNCHANGED Permits!vars
  BY DEF Permits!vars

\* A step that adds one permit for one key maps to Grant.
LEMMA MapsToGrant ==
    ASSUME NEW j \in Keys, UNCHANGED dispatched,
           \A k \in Keys : Permit(k)' = IF k = j THEN Permit(k) + 1 ELSE Permit(k)
    PROVE  Permits!Next
  <1>1. Permits!Grant(j)
    BY ZenonT(60) DEF Permits!Grant
  <1> QED
    BY <1>1 DEF Permits!Next

\* The initial states map to the abstract initial state.
LEMMA InitMaps == Init => Permits!Init
  BY DEF Init, Permits!Init, Permit, Reserved, EmptyStore

\* Every step maps to Grant, Dispatch or a stuttering step.
LEMMA NextMaps == IInv /\ [Next]_vars => [Permits!Next]_Permits!vars
  <1> SUFFICES ASSUME IInv, [Next]_vars PROVE [Permits!Next]_Permits!vars
    OBVIOUS
  <1> DEFINE Goal == Permits!Next \/ UNCHANGED Permits!vars
  <1>1. TypeInv
    BY DEF IInv
  <1>2. ASSUME UNCHANGED <<dispatched, redis, lapses>> PROVE Goal
    <2>1. \A k \in Keys : Permit(k)' = Permit(k)
      BY <1>2 DEF Permit, Reserved
    <2> QED
      BY <1>2, <2>1, MapsToStutter
  <1>3. ASSUME NEW j \in Keys, Expire(j) PROVE Goal
    <2>1. \A k \in Keys : Permit(k)' = Permit(k)
      BY <1>1, <1>3, ExpirePermit
    <2> QED
      BY <1>3, <2>1, MapsToStutter DEF Expire
  <1>4. ASSUME NEW r \in Replicas, TryStart(r) PROVE Goal
    <2> DEFINE j == DispatchKey(inhand[r])
    <2>1. j \in Keys
      BY <1>1, <1>4, DispatchKeyInKeys DEF TryStart, TypeInv, HandInv
    <2>2. PICK admitted \in BOOLEAN : StoreTryStart(r, j, admitted)
      BY <1>4 DEF TryStart
    <2>3. UNCHANGED dispatched
      BY <1>4 DEF TryStart
    <2>4. \A k \in Keys :
            Permit(k)' = IF admitted /\ k = j THEN Permit(k) + 1 ELSE Permit(k)
      BY <1>1, <2>1, <2>2, TryStartPermit
    <2> HIDE DEF j
    <2>5. CASE admitted
      BY <2>1, <2>3, <2>4, <2>5, MapsToGrant
    <2>6. CASE ~admitted
      BY <2>3, <2>4, <2>6, MapsToStutter
    <2> QED
      BY <2>5, <2>6
  <1>5. ASSUME NEW r \in Replicas, NEW res \in Results, Execute(r, res) PROVE Goal
    <2> DEFINE j == DispatchKey(inhand[r])
    <2>1. j \in Keys
      BY <1>1, <1>5, DispatchKeyInKeys DEF Execute, TypeInv, HandInv
    <2>2. \A k \in Keys : Permit(k)' = Permit(k)
      BY <1>5 DEF Execute, storeVars, Permit, Reserved
    <2>3. PICK executed \in {0, 1} :
            dispatched' = [dispatched EXCEPT ![j] = @ + executed]
      BY <1>5 DEF Execute
    <2>4. dispatched \in [Keys -> Nat]
      BY <1>1 DEF TypeInv, TypeOK
    <2>5. CASE executed = 0
      <3>1. UNCHANGED dispatched
        BY <2>1, <2>3, <2>4, <2>5
      <3> QED
        BY <2>2, <3>1, MapsToStutter
    <2>6. CASE executed = 1
      <3>1. dispatched[j] < Permit(j)
        <4>1. j \in Keys /\ r \in InFlight(j)
          BY <1>5, <2>1 DEF Execute, InFlight
        <4>2. IsFiniteSet(InFlight(j)) /\ Cardinality(InFlight(j)) \in Nat
          BY InFlightFinite
        <4>3. Cardinality(InFlight(j)) # 0
          BY <4>1, <4>2, FS_EmptySet
        <4>4. dispatched[j] + Cardinality(InFlight(j)) <= Permit(j)
          BY <2>1 DEF IInv, DispatchesReserved
        <4>5. dispatched[j] \in Nat /\ Permit(j) \in Nat
          BY <1>1, <2>1, <2>4, PermitInNat
        <4> HIDE DEF j
        <4> QED
          BY <4>2, <4>3, <4>4, <4>5
      <3> HIDE DEF j
      <3>2. Permits!Dispatch(j)
        BY <2>1, <2>2, <2>3, <2>6, <3>1 DEF Permits!Dispatch
      <3> QED
        BY <2>1, <3>2 DEF Permits!Next
    <2> QED
      BY <2>5, <2>6
  <1>6. ASSUME NEW r \in Replicas, Mark(r) PROVE Goal
    <2>1. PICK j \in Keys : j = DispatchKey(inhand[r])
      BY <1>1, <1>6, DispatchKeyInKeys DEF Mark, TypeInv, HandInv
    <2>2. UNCHANGED dispatched
      BY <1>6 DEF Mark
    <2>3. \A k \in Keys : /\ k # j => Permit(k)' = Permit(k)
                          /\ Permit(k)' \in {Permit(k), Permit(k) + 1}
      BY <1>1, <1>6, <2>1, MarkPermit
    <2>4. CASE Permit(j)' = Permit(j)
      <3>1. \A k \in Keys : Permit(k)' = Permit(k)
        BY <2>3, <2>4
      <3> QED
        BY <2>2, <3>1, MapsToStutter
    <2>5. CASE Permit(j)' = Permit(j) + 1
      <3>1. \A k \in Keys : Permit(k)' = IF k = j THEN Permit(k) + 1 ELSE Permit(k)
        BY <2>3, <2>5
      <3> QED
        BY <2>1, <2>2, <3>1, MapsToGrant
    <2> QED
      BY <2>3, <2>4, <2>5
  <1>7. CASE UNCHANGED vars
    BY <1>2, <1>7 DEF vars
  <1>8. ASSUME NEW i \in Intents, PublishIntent(i) PROVE Goal
    BY <1>2, <1>8 DEF PublishIntent, storeVars
  <1>9. CASE RedisToggle
    BY <1>2, <1>9 DEF RedisToggle
  <1>10. ASSUME NEW r \in Replicas,
                \/ Receive(r) \/ LoseReceive(r) \/ RejectBody(r)
                \/ PublishEvent(r) \/ FailPublish(r) \/ Crash(r)
         PROVE  Goal
    BY <1>2, <1>10 DEF Receive, LoseReceive, RejectBody, PublishEvent, FailPublish,
       Crash, storeVars
  <1> QED
    BY <1>3, <1>4, <1>5, <1>6, <1>7, <1>8, <1>9, <1>10 DEF Next, Step

\* Every execution of a command by the replicas uses up a permit that a
\* reservation in Redis or a lapse granted: the service implements the abstract
\* at-most-once dispatcher.
THEOREM RefinesAtMostOnce == Spec => ImplementsAtMostOnce
  BY InitMaps, NextMaps, InitIInv, NextIInv, PTL
  DEF Spec, ImplementsAtMostOnce, Permits!Spec
===============================================================================
