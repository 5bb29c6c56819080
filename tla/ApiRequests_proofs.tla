------------------------- MODULE ApiRequests_proofs -------------------------
(***************************************************************************)
(* Requests on their way through the API, for any number of requests,      *)
(* lanes, permits and connections: no permit is lost or given twice, the   *)
(* guard's session is there exactly while somebody needs it, and what a    *)
(* guarded request is given is of the generation it was let in with.       *)
(*                                                                         *)
(* A counted resource is conserved because a step that moves one request   *)
(* changes the set of its owners by that request at most, and the count by *)
(* as much.  The generations rest on the lock: while the session is open   *)
(* nothing is published, so whatever the copy of the generation, the       *)
(* request that fills it and the rows under the published generation hold  *)
(* has been read from the generation that is still published.              *)
(***************************************************************************)
EXTENDS ApiRequests, FiniteSetTheorems, TLAPS

RequestType == [phase : Phases, endpoint : Endpoints \cup {Nobody},
                laneExecuting : BOOLEAN, aggregateExecuting : BOOLEAN,
                entry : Generations, generation : Generations, read : Generations]

\* The flags and the endpoint of a request, by its phase.
LocalsOK(r) ==
    /\ request[r].phase # "idle" => request[r].endpoint \in Endpoints
    /\ request[r].phase \in {"idle", "lane"} => ~request[r].laneExecuting
    /\ request[r].phase \in {"idle", "lane", "aggregate"} => ~request[r].aggregateExecuting
    /\ request[r].phase \in {"gate", "open", "snapshot", "observe"} => IsGuarded(r)

\* The two mutexes are held by the request that is between taking and releasing them.
Deciding(r) == request[r].phase \in {"open", "snapshot", "observe"}
Filling(r) == request[r].phase \in {"fetch", "store"}
MutexesHeld ==
    \A r \in Requests : /\ guard.gate = r <=> Deciding(r)
                        /\ known.lock = r <=> Filling(r)

\* A session is opened only where there is none, under the shared lock.
SessionOpened ==
    /\ \A r \in Requests : At(r, "open") => guard.session = "none"
    /\ guard.session = "open" => ~Publishing

\* Nothing is known or read of a generation before it is published; what is cached
\* under a generation was read when that one or a later one was published.
Past ==
    /\ known.generation <= publisher.generation
    /\ \A g \in Generations : objects[g] # NoRows => g <= objects[g] /\ objects[g] <= publisher.generation
    /\ \A r \in Requests :
        /\ request[r].entry <= publisher.generation
        /\ request[r].generation <= publisher.generation
        /\ request[r].read <= publisher.generation
        /\ At(r, "cache") => request[r].generation <= request[r].read

\* While the session is open, what a reader holds and what it may be handed is of
\* the published generation.
Current ==
    guard.session = "open" =>
        \A r \in Requests :
            /\ Inside(r) \/ At(r, "observe") => request[r].entry = publisher.generation
            /\ Inside(r) =>
                /\ known.fresh => known.generation = publisher.generation
                /\ \A q \in Requests :
                    At(q, "store") => request[q].generation = publisher.generation
                /\ At(r, "rows") \/ At(r, "cache") =>
                    request[r].generation = publisher.generation
                /\ At(r, "cache") => request[r].read = publisher.generation

Inv ==
    /\ TypeOK
    /\ \A r \in Requests : LocalsOK(r)
    /\ MutexesHeld
    /\ PermitsConserved
    /\ SessionAsLongAsNeeded
    /\ SessionOpened
    /\ Past
    /\ Current

-----------------------------------------------------------------------------
(* Counting the requests that own something                                 *)

\* A set that gains or loses one element at most, and its cardinality.
LEMMA OneMore ==
    ASSUME NEW S, IsFiniteSet(S), NEW T, NEW x, x \notin S, T = S \cup {x}
    PROVE  IsFiniteSet(T) /\ Cardinality(T) = Cardinality(S) + 1
BY FS_AddElement

LEMMA OneLess ==
    ASSUME NEW S, IsFiniteSet(S), NEW T, NEW x, x \in S, T = S \ {x}
    PROVE  IsFiniteSet(T) /\ Cardinality(S) = Cardinality(T) + 1
<1>1. Cardinality(S) \in Nat /\ IsFiniteSet(T) /\ Cardinality(T) = Cardinality(S) - 1
  BY FS_RemoveElement, FS_CardinalityType
<1> QED
  BY <1>1

\* The owners of each resource.
Admitted(l) == {r \in Requests : ~At(r, "idle") /\ Lane(r) = l}
Executing(l) == {r \in Requests : request[r].laneExecuting /\ Lane(r) = l}
Aggregated == {r \in Requests : request[r].aggregateExecuting}
Connected == {r \in Requests : At(r, "store") \/ At(r, "cache")}
Readers == {r \in Requests : Inside(r)}

LEMMA OwnersFinite ==
    /\ \A l : IsFiniteSet(Admitted(l)) /\ IsFiniteSet(Executing(l))
    /\ IsFiniteSet(Aggregated) /\ IsFiniteSet(Connected) /\ IsFiniteSet(Readers)
    /\ \A l : Cardinality(Admitted(l)) \in Nat /\ Cardinality(Executing(l)) \in Nat
    /\ Cardinality(Aggregated) \in Nat /\ Cardinality(Connected) \in Nat
    /\ Cardinality(Readers) \in Nat
<1>1. \A S \in SUBSET Requests : IsFiniteSet(S) /\ Cardinality(S) \in Nat
  BY RequestsAssumption, FS_Subset, FS_CardinalityType
<1>2. \A l : Admitted(l) \in SUBSET Requests /\ Executing(l) \in SUBSET Requests
  BY DEF Admitted, Executing
<1>3. /\ Aggregated \in SUBSET Requests /\ Connected \in SUBSET Requests
      /\ Readers \in SUBSET Requests
  BY DEF Aggregated, Connected, Readers
<1> QED
  BY <1>1, <1>2, <1>3

LEMMA Conserved ==
    PermitsConserved <=>
        /\ \A l \in Lanes :
            /\ bulkhead.admission[l] + Cardinality(Admitted(l)) = PermitLimit[l] + QueueLimit[l]
            /\ bulkhead.execution[l] + Cardinality(Executing(l)) = PermitLimit[l]
        /\ bulkhead.aggregate + Cardinality(Aggregated) = AggregateLimit
        /\ connections + Cardinality(Connected) = ConnectionLimit
BY DEF PermitsConserved, Count, Admitted, Executing, Aggregated, Connected

LEMMA ReadersCounted ==
    Count(Inside) = Cardinality(Readers)
BY DEF Count, Readers

LEMMA ConservedNext ==
    PermitsConserved' <=>
        /\ \A l \in Lanes :
            /\ bulkhead'.admission[l] + Cardinality(Admitted(l)') = PermitLimit[l] + QueueLimit[l]
            /\ bulkhead'.execution[l] + Cardinality(Executing(l)') = PermitLimit[l]
        /\ bulkhead'.aggregate + Cardinality(Aggregated') = AggregateLimit
        /\ connections' + Cardinality(Connected') = ConnectionLimit
BY DEF PermitsConserved, Count, Admitted, Executing, Aggregated, Connected

\* A step of request r, whose record becomes q.
LEMMA RequestChanged ==
    ASSUME TypeOK, NEW r \in Requests, NEW q \in RequestType,
           request' = [request EXCEPT ![r] = q]
    PROVE  /\ request' \in [Requests -> RequestType] /\ request'[r] = q
           /\ \A s \in Requests : s # r => request'[s] = request[s]
BY DEF TypeOK, RequestType

\* The set of owners with request r counted among them, or not.
With(S, r, owns) == IF owns THEN S \cup {r} ELSE S \ {r}

LEMMA OwnersMove ==
    ASSUME TypeOK, NEW r \in Requests, NEW q \in RequestType,
           request' = [request EXCEPT ![r] = q]
    PROVE  /\ \A l : Admitted(l)' = With(Admitted(l), r, q.phase # "idle" /\ LaneOf[q.endpoint] = l)
           /\ \A l : Executing(l)' = With(Executing(l), r, q.laneExecuting /\ LaneOf[q.endpoint] = l)
           /\ Aggregated' = With(Aggregated, r, q.aggregateExecuting)
           /\ Connected' = With(Connected, r, q.phase \in {"store", "cache"})
           /\ Readers' = With(Readers, r, q.endpoint \in Guarded /\ q.phase \in
                 {"endpoint", "fetch", "store", "rows", "cache", "exit"})
<1>1. /\ request'[r] = q
      /\ \A s \in Requests : s # r => request'[s] = request[s]
  BY RequestChanged
<1>2. ASSUME NEW l
      PROVE  Admitted(l)' = With(Admitted(l), r, q.phase # "idle" /\ LaneOf[q.endpoint] = l)
  BY <1>1 DEF Admitted, With, At, Lane
<1>3. ASSUME NEW l
      PROVE  Executing(l)' = With(Executing(l), r, q.laneExecuting /\ LaneOf[q.endpoint] = l)
  BY <1>1 DEF Executing, With, Lane
<1>4. Aggregated' = With(Aggregated, r, q.aggregateExecuting)
  BY <1>1 DEF Aggregated, With
<1>5. Connected' = With(Connected, r, q.phase \in {"store", "cache"})
  BY <1>1 DEF Connected, With, At
<1>6. Readers' = With(Readers, r, q.endpoint \in Guarded /\ q.phase \in
                 {"endpoint", "fetch", "store", "rows", "cache", "exit"})
  BY <1>1 DEF Readers, With, Inside, IsGuarded
<1> QED
  BY <1>2, <1>3, <1>4, <1>5, <1>6

\* What is given to an owner is taken from what is free.
Balanced(free1, free, owned, owns) ==
    \/ (owns <=> owned) /\ free1 = free
    \/ owns /\ ~owned /\ free1 + 1 = free
    \/ ~owns /\ owned /\ free1 = free + 1

LEMMA Balance ==
    ASSUME NEW S, IsFiniteSet(S), NEW r, NEW owns \in BOOLEAN, NEW T, T = With(S, r, owns),
           NEW free \in Nat, NEW free1 \in Nat, NEW limit, free + Cardinality(S) = limit,
           Balanced(free1, free, r \in S, owns)
    PROVE  free1 + Cardinality(T) = limit
<1>1. Cardinality(S) \in Nat
  BY FS_CardinalityType
<1>2. CASE owns /\ r \notin S
  <2>1. Cardinality(T) = Cardinality(S) + 1
    BY <1>2, OneMore DEF With
  <2>2. free1 + 1 = free
    BY <1>2 DEF Balanced
  <2> QED
    BY <1>1, <2>1, <2>2
<1>3. CASE ~owns /\ r \in S
  <2>1. T = S \ {r}
    BY <1>3 DEF With
  <2>2. Cardinality(S) = Cardinality(T) + 1 /\ IsFiniteSet(T)
    BY <1>3, <2>1, OneLess
  <2>3. Cardinality(T) \in Nat
    BY <2>2, FS_CardinalityType
  <2>4. free1 = free + 1
    BY <1>3 DEF Balanced
  <2> QED
    BY <1>1, <2>2, <2>3, <2>4
<1>4. CASE (owns /\ r \in S) \/ (~owns /\ r \notin S)
  <2>1. T = S
    BY <1>4 DEF With
  <2>2. free1 = free
    BY <1>4 DEF Balanced
  <2> QED
    BY <2>1, <2>2
<1> QED
  BY <1>2, <1>3, <1>4

\* Permits move with the request that takes them or gives them back.
LEMMA PermitsMove ==
    ASSUME Inv, NEW r \in Requests, NEW q \in RequestType,
           request' = [request EXCEPT ![r] = q], TypeOK',
           \A l \in Lanes :
            /\ Balanced(bulkhead'.admission[l], bulkhead.admission[l],
                        r \in Admitted(l), q.phase # "idle" /\ LaneOf[q.endpoint] = l)
            /\ Balanced(bulkhead'.execution[l], bulkhead.execution[l],
                        r \in Executing(l), q.laneExecuting /\ LaneOf[q.endpoint] = l),
           Balanced(bulkhead'.aggregate, bulkhead.aggregate,
                    r \in Aggregated, q.aggregateExecuting),
           Balanced(connections', connections, r \in Connected, q.phase \in {"store", "cache"})
    PROVE  PermitsConserved'
<1>1. /\ \A l : IsFiniteSet(Admitted(l)) /\ IsFiniteSet(Executing(l))
      /\ IsFiniteSet(Aggregated) /\ IsFiniteSet(Connected)
  BY OwnersFinite
<1>2. /\ \A l \in Lanes : bulkhead.admission[l] \in Nat /\ bulkhead.execution[l] \in Nat
      /\ bulkhead.aggregate \in Nat /\ connections \in Nat
  BY DEF Inv, TypeOK
<1>3. /\ \A l \in Lanes : bulkhead'.admission[l] \in Nat /\ bulkhead'.execution[l] \in Nat
      /\ bulkhead'.aggregate \in Nat /\ connections' \in Nat
  BY DEF TypeOK
<1>4. q.aggregateExecuting \in BOOLEAN /\ q.laneExecuting \in BOOLEAN
  BY DEF RequestType
<1>5. ASSUME NEW l \in Lanes
      PROVE  bulkhead'.admission[l] + Cardinality(Admitted(l)') = PermitLimit[l] + QueueLimit[l]
  <2> DEFINE owns == q.phase # "idle" /\ LaneOf[q.endpoint] = l
  <2>1. Admitted(l)' = With(Admitted(l), r, owns)
    BY OwnersMove DEF Inv
  <2>2. owns \in BOOLEAN
    OBVIOUS
  <2>3. bulkhead.admission[l] + Cardinality(Admitted(l)) = PermitLimit[l] + QueueLimit[l]
    BY Conserved DEF Inv
  <2>4. Balanced(bulkhead'.admission[l], bulkhead.admission[l], r \in Admitted(l), owns)
    OBVIOUS
  <2> HIDE DEF owns
  <2> QED
    BY <1>1, <1>2, <1>3, <2>1, <2>2, <2>3, <2>4, Balance
<1>6. ASSUME NEW l \in Lanes
      PROVE  bulkhead'.execution[l] + Cardinality(Executing(l)') = PermitLimit[l]
  <2> DEFINE owns == q.laneExecuting /\ LaneOf[q.endpoint] = l
  <2>1. Executing(l)' = With(Executing(l), r, owns)
    BY OwnersMove DEF Inv
  <2>2. owns \in BOOLEAN
    OBVIOUS
  <2>3. bulkhead.execution[l] + Cardinality(Executing(l)) = PermitLimit[l]
    BY Conserved DEF Inv
  <2>4. Balanced(bulkhead'.execution[l], bulkhead.execution[l], r \in Executing(l), owns)
    OBVIOUS
  <2> HIDE DEF owns
  <2> QED
    BY <1>1, <1>2, <1>3, <2>1, <2>2, <2>3, <2>4, Balance
<1>7. bulkhead'.aggregate + Cardinality(Aggregated') = AggregateLimit
  <2>1. Aggregated' = With(Aggregated, r, q.aggregateExecuting)
    BY OwnersMove DEF Inv
  <2>2. bulkhead.aggregate + Cardinality(Aggregated) = AggregateLimit
    BY Conserved DEF Inv
  <2> QED
    BY <1>1, <1>2, <1>3, <1>4, <2>1, <2>2, Balance
<1>8. connections' + Cardinality(Connected') = ConnectionLimit
  <2> DEFINE owns == q.phase \in {"store", "cache"}
  <2>1. Connected' = With(Connected, r, owns)
    BY OwnersMove DEF Inv
  <2>2. owns \in BOOLEAN
    OBVIOUS
  <2>3. connections + Cardinality(Connected) = ConnectionLimit
    BY Conserved DEF Inv
  <2>4. Balanced(connections', connections, r \in Connected, owns)
    OBVIOUS
  <2> HIDE DEF owns
  <2> QED
    BY <1>1, <1>2, <1>3, <2>1, <2>2, <2>3, <2>4, Balance
<1> QED
  BY <1>5, <1>6, <1>7, <1>8, ConservedNext

-----------------------------------------------------------------------------
(* The steps of a request                                                   *)

StepOf(r) == \/ \E endpoint \in Endpoints : Arrive(r, endpoint)
             \/ RequestStep(r) \/ Wait(r) \/ Fail(r)

\* A reader is counted.
LEMMA ReaderCounts ==
    ASSUME Inv, NEW r \in Requests, Inside(r)
    PROVE  guard.readers \in Nat /\ guard.readers >= 1
<1>1. guard.readers = Cardinality(Readers)
  BY ReadersCounted DEF Inv, SessionAsLongAsNeeded
<1>2. IsFiniteSet(Readers) /\ Cardinality(Readers) \in Nat
  BY OwnersFinite
<1>3. Readers # {}
  BY DEF Readers
<1>4. Cardinality(Readers) # 0
  BY <1>2, <1>3, FS_EmptySet
<1> QED
  BY <1>1, <1>2, <1>4

LEMMA RequestTypes ==
    ASSUME Inv, NEW r \in Requests, StepOf(r)
    PROVE  TypeOK'
<1>a. /\ request \in [Requests -> RequestType] /\ request[r] \in RequestType
      /\ TypeOK
  BY DEF Inv, TypeOK, RequestType
<1>b. /\ request[r].entry \in Generations /\ request[r].generation \in Generations
      /\ known.generation \in Generations /\ publisher.generation \in Generations
      /\ 0 \in Generations
  BY <1>a, GenerationsAssumption DEF TypeOK, RequestType, Generations
<1> USE <1>a DEF TypeOK, Phases, Holders
<1>1. CASE \E endpoint \in Endpoints : Arrive(r, endpoint)
  <2> PICK endpoint \in Endpoints : Arrive(r, endpoint)
    BY <1>1
  <2>1. request' \in [Requests -> RequestType]
    BY DEF Arrive, RequestType
  <2>2. bulkhead.admission \in [Lanes -> Nat] /\ LaneOf[endpoint] \in Lanes
    BY RequestsAssumption
  <2>3. bulkhead' \in [admission : [Lanes -> Nat], execution : [Lanes -> Nat], aggregate : Nat]
    BY <2>2, SMTT(20) DEF Arrive
  <2> QED
    BY <2>1, <2>3 DEF Arrive, RequestType
<1>2. CASE EnterLane(r)
  <2>1. request' \in [Requests -> RequestType]
    BY <1>2 DEF EnterLane, RequestType
  <2>2. bulkhead.execution \in [Lanes -> Nat] /\ bulkhead.execution[Lane(r)] > 0
    BY <1>2 DEF EnterLane
  <2>3. bulkhead' \in [admission : [Lanes -> Nat], execution : [Lanes -> Nat], aggregate : Nat]
    BY <1>2, <2>2 DEF EnterLane
  <2> QED
    BY <1>2, <2>1, <2>3 DEF EnterLane, RequestType
<1>3. CASE EnterAggregate(r)
  <2>1. request' \in [Requests -> RequestType]
    BY <1>3 DEF EnterAggregate, RequestType
  <2>2. bulkhead.aggregate - 1 \in Nat
    BY <1>3 DEF EnterAggregate
  <2> QED
    BY <1>3, <2>1, <2>2 DEF EnterAggregate, RequestType
<1>4. CASE GiveUpQueueing(r) \/ AbortAtGate(r)
  BY <1>4, SMTT(20) DEF GiveUpQueueing, AbortAtGate, Move
<1>5. CASE Release(r)
  <2>1. request' \in [Requests -> RequestType]
    BY <1>5, <1>b DEF Release, Idle, RequestType
  <2>2. bulkhead' \in [admission : [Lanes -> Nat], execution : [Lanes -> Nat], aggregate : Nat]
    <3> DEFINE l == Lane(r)
    <3>1. Held(request[r].aggregateExecuting) \in Nat /\ Held(request[r].laneExecuting) \in Nat
      BY DEF Held
    <3>2. bulkhead.admission \in [Lanes -> Nat] /\ bulkhead.execution \in [Lanes -> Nat]
      OBVIOUS
    <3>3. l \in Lanes
      BY <1>5, RequestsAssumption DEF Release, At, Inv, LocalsOK, Lane
    <3> HIDE DEF l
    <3>4. [bulkhead.admission EXCEPT ![l] = bulkhead.admission[l] + 1] \in [Lanes -> Nat]
      BY <3>2, <3>3
    <3>5. [bulkhead.execution EXCEPT ![l] = bulkhead.execution[l] + Held(request[r].laneExecuting)]
            \in [Lanes -> Nat]
      BY <3>1, <3>2, <3>3
    <3>6. bulkhead.aggregate + Held(request[r].aggregateExecuting) \in Nat
      BY <3>1
    <3>7. bulkhead' =
           [admission |-> [bulkhead.admission EXCEPT ![l] = bulkhead.admission[l] + 1],
            execution |-> [bulkhead.execution EXCEPT ![l] =
                               bulkhead.execution[l] + Held(request[r].laneExecuting)],
            aggregate |-> bulkhead.aggregate + Held(request[r].aggregateExecuting)]
      BY <1>5 DEF Release, l
    <3> QED
      BY <3>4, <3>5, <3>6, <3>7
  <2> QED
    BY <1>5, <2>1, <2>2 DEF Release, RequestType
<1>6. CASE EnterGate(r)
  BY <1>6 DEF EnterGate, Move
<1>7. CASE OpenSession(r)
  BY <1>7, SMTT(20) DEF OpenSession, Move
<1>8. CASE Refuse(r)
  <2>1. guard' \in [gate : Holders, session : {"none", "open", "broken"}, readers : Nat]
    BY <1>8 DEF Refuse, LeaveGate
  <2> QED
    BY <1>8, <2>1 DEF Refuse, Move
<1>9. CASE ReadSnapshot(r)
  <2>1. request' \in [Requests -> RequestType]
    BY <1>9 DEF ReadSnapshot, RequestType
  <2> QED
    BY <1>9, <2>1 DEF ReadSnapshot, RequestType
<1>10. CASE FailAcquisition(r)
  <2>1. request' \in [Requests -> RequestType]
    BY <1>10, <1>b DEF FailAcquisition, Forget, RequestType
  <2>2. guard' \in [gate : Holders, session : {"none", "open", "broken"}, readers : Nat]
    BY <1>10 DEF FailAcquisition, LeaveGate
  <2> QED
    BY <1>10, <2>1, <2>2 DEF FailAcquisition, RequestType
<1>11. CASE ObserveGeneration(r)
  <2>1. request' \in [Requests -> RequestType]
    BY <1>11 DEF ObserveGeneration, Move, RequestType
  <2>2. /\ known' = [generation |-> request[r].entry, fresh |-> TRUE, lock |-> known.lock]
        /\ known.lock \in Holders
    BY <1>11 DEF ObserveGeneration
  <2>3. guard.readers + 1 \in Nat
    OBVIOUS
  <2> QED
    BY <1>11, <1>b, <2>1, <2>2, <2>3 DEF ObserveGeneration, RequestType
<1>12. CASE Exit(r)
  <2>1. request' \in [Requests -> RequestType]
    BY <1>12, <1>b DEF Exit, Forget, RequestType
  <2>2. IsGuarded(r) => guard.readers - 1 \in Nat
    BY <1>12, ReaderCounts DEF Exit, Inside, At
  <2>3. guard' \in [gate : Holders, session : {"none", "open", "broken"}, readers : Nat]
    BY <1>12, <2>2 DEF Exit
  <2> QED
    BY <1>12, <2>1, <2>3 DEF Exit, RequestType
<1>13. CASE UseKnownGeneration(r)
  <2>1. request' \in [Requests -> RequestType]
    BY <1>13, <1>b DEF UseKnownGeneration, RequestType
  <2> QED
    BY <1>13, <2>1 DEF UseKnownGeneration, RequestType
<1>14. CASE LockGeneration(r)
  BY <1>14 DEF LockGeneration, Move
<1>15. CASE FetchGeneration(r)
  <2>1. request' \in [Requests -> RequestType]
    BY <1>15, <1>b DEF FetchGeneration, RequestType
  <2> QED
    BY <1>15, <2>1 DEF FetchGeneration, RequestType
<1>16. CASE StoreGeneration(r)
  BY <1>16 DEF StoreGeneration, Move
<1>17. CASE UseCachedRows(r) \/ CacheRows(r)
  BY <1>17 DEF UseCachedRows, CacheRows, Move
<1>18. CASE QueryRows(r)
  <2>1. request' \in [Requests -> RequestType]
    BY <1>18, <1>b DEF QueryRows, RequestType
  <2> QED
    BY <1>18, <2>1 DEF QueryRows, RequestType
<1>19. CASE FailQuery(r)
  BY <1>19, SMTT(20) DEF FailQuery, Move
<1> QED
  BY <1>1, <1>2, <1>3, <1>4, <1>5, <1>6, <1>7, <1>8, <1>9, <1>10, <1>11, <1>12, <1>13,
     <1>14, <1>15, <1>16, <1>17, <1>18, <1>19 DEF StepOf, RequestStep, Wait, Fail

\* A step of a request changes its own record and no other.
LEMMA OneMoves ==
    ASSUME Inv, NEW r \in Requests, StepOf(r)
    PROVE  \E q \in RequestType : request' = [request EXCEPT ![r] = q]
<1>1. request' \in [Requests -> RequestType] /\ request \in [Requests -> RequestType]
  BY RequestTypes DEF Inv, TypeOK, RequestType
<1>2. \A s \in Requests : s # r => request'[s] = request[s]
  <2>1. CASE \E endpoint \in Endpoints : Arrive(r, endpoint)
    BY <2>1, <1>1 DEF Arrive
  <2>2. CASE EnterLane(r) \/ EnterAggregate(r) \/ GiveUpQueueing(r) \/ Release(r)
    BY <2>2, <1>1 DEF EnterLane, EnterAggregate, GiveUpQueueing, Release, Move
  <2>3. CASE EnterGate(r) \/ AbortAtGate(r) \/ OpenSession(r) \/ Refuse(r) \/ ReadSnapshot(r)
    BY <2>3, <1>1 DEF EnterGate, AbortAtGate, OpenSession, Refuse, ReadSnapshot, Move
  <2>4. CASE FailAcquisition(r) \/ ObserveGeneration(r) \/ Exit(r)
    BY <2>4, <1>1 DEF FailAcquisition, ObserveGeneration, Exit, Move, Forget
  <2>5. CASE UseKnownGeneration(r) \/ LockGeneration(r) \/ FetchGeneration(r) \/ StoreGeneration(r)
    BY <2>5, <1>1 DEF UseKnownGeneration, LockGeneration, FetchGeneration, StoreGeneration, Move
  <2>6. CASE UseCachedRows(r) \/ QueryRows(r) \/ CacheRows(r) \/ FailQuery(r)
    BY <2>6, <1>1 DEF UseCachedRows, QueryRows, CacheRows, FailQuery, Move
  <2> QED
    BY <2>1, <2>2, <2>3, <2>4, <2>5, <2>6 DEF StepOf, RequestStep, Wait, Fail
<1>3. request' = [request EXCEPT ![r] = request'[r]] /\ request'[r] \in RequestType
  BY <1>1, <1>2
<1> QED
  BY <1>3

LEMMA RequestPermits ==
    ASSUME Inv, NEW r \in Requests, StepOf(r)
    PROVE  PermitsConserved'
<1>1. PICK q \in RequestType : request' = [request EXCEPT ![r] = q]
  BY OneMoves
<1>2. request'[r] = q /\ request[r] \in RequestType /\ request \in [Requests -> RequestType]
  BY <1>1 DEF Inv, TypeOK, RequestType
<1>3. /\ TypeOK' /\ LocalsOK(r)
      /\ bulkhead \in [admission : [Lanes -> Nat], execution : [Lanes -> Nat], aggregate : Nat]
      /\ connections \in Nat
  BY RequestTypes DEF Inv, TypeOK
<1> DEFINE Same == q.laneExecuting = request[r].laneExecuting
                   /\ q.aggregateExecuting = request[r].aggregateExecuting
                   /\ q.endpoint = request[r].endpoint
<1>4. ASSUME Same, bulkhead' = bulkhead, q.phase # "idle", ~At(r, "idle"),
             Balanced(connections', connections, r \in Connected, q.phase \in {"store", "cache"})
      PROVE  PermitsConserved'
  <2>1. ASSUME NEW l \in Lanes
        PROVE  /\ Balanced(bulkhead'.admission[l], bulkhead.admission[l],
                           r \in Admitted(l), q.phase # "idle" /\ LaneOf[q.endpoint] = l)
               /\ Balanced(bulkhead'.execution[l], bulkhead.execution[l],
                           r \in Executing(l), q.laneExecuting /\ LaneOf[q.endpoint] = l)
    BY <1>4 DEF Balanced, Admitted, Executing, Lane
  <2>2. Balanced(bulkhead'.aggregate, bulkhead.aggregate, r \in Aggregated, q.aggregateExecuting)
    BY <1>4 DEF Balanced, Aggregated
  <2> QED
    BY <1>1, <1>3, <1>4, <2>1, <2>2, PermitsMove
<1>5. CASE GiveUpQueueing(r) \/ EnterGate(r) \/ AbortAtGate(r) \/ OpenSession(r) \/ Refuse(r)
           \/ UseCachedRows(r)
  <2>1. Same /\ q.phase # "idle" /\ ~At(r, "idle") /\ UNCHANGED <<bulkhead, connections>>
        /\ q.phase \notin {"store", "cache"} /\ request[r].phase \notin {"store", "cache"}
    BY <1>2, <1>5 DEF GiveUpQueueing, EnterGate, AbortAtGate, OpenSession, Refuse, UseCachedRows,
       Move, At, RequestType
  <2> QED
    BY <1>4, <2>1 DEF Balanced, Connected, At
<1>6. CASE ReadSnapshot(r) \/ FailAcquisition(r) \/ ObserveGeneration(r) \/ Exit(r)
           \/ UseKnownGeneration(r) \/ LockGeneration(r)
  <2> DEFINE Plain == Same /\ q.phase # "idle" /\ ~At(r, "idle") /\ UNCHANGED <<bulkhead, connections>>
                      /\ q.phase \notin {"store", "cache"} /\ request[r].phase \notin {"store", "cache"}
  <2>1. ASSUME ReadSnapshot(r) \/ UseKnownGeneration(r)  PROVE Plain
    BY <1>2, <2>1 DEF ReadSnapshot, UseKnownGeneration, At, RequestType
  <2>2. ASSUME ObserveGeneration(r) \/ LockGeneration(r)  PROVE Plain
    BY <1>2, <2>2 DEF ObserveGeneration, LockGeneration, Move, At, RequestType
  <2>3. ASSUME FailAcquisition(r)  PROVE Plain
    BY <1>2, <2>3 DEF FailAcquisition, Forget, At, RequestType
  <2>4. ASSUME Exit(r)  PROVE Plain
    BY <1>2, <2>4 DEF Exit, Forget, At, RequestType
  <2>5. Plain
    BY <1>6, <2>1, <2>2, <2>3, <2>4
  <2> QED
    BY <1>4, <2>5 DEF Balanced, Connected, At
<1>7. CASE FetchGeneration(r) \/ QueryRows(r)
  <2>1. Same /\ q.phase # "idle" /\ ~At(r, "idle") /\ UNCHANGED bulkhead
        /\ q.phase \in {"store", "cache"} /\ request[r].phase \notin {"store", "cache"}
        /\ connections' + 1 = connections
    BY <1>2, <1>3, <1>7 DEF FetchGeneration, QueryRows, At, RequestType
  <2> QED
    BY <1>4, <2>1 DEF Balanced, Connected, At
<1>8. CASE StoreGeneration(r) \/ CacheRows(r)
  <2>1. Same /\ q.phase # "idle" /\ ~At(r, "idle") /\ UNCHANGED bulkhead
        /\ q.phase \notin {"store", "cache"} /\ request[r].phase \in {"store", "cache"}
        /\ connections' = connections + 1
    BY <1>2, <1>3, <1>8 DEF StoreGeneration, CacheRows, Move, At, RequestType
  <2> QED
    BY <1>4, <2>1 DEF Balanced, Connected, At
<1>9. CASE FailQuery(r)
  <2>1. Same /\ q.phase = "exit" /\ ~At(r, "idle") /\ UNCHANGED bulkhead
        /\ connections' = connections + (IF At(r, "store") \/ At(r, "cache") THEN 1 ELSE 0)
    BY <1>2, <1>9 DEF FailQuery, Move, At, RequestType
  <2> QED
    BY <1>3, <1>4, <2>1 DEF Balanced, Connected, At
<1>10. CASE \E endpoint \in Endpoints : Arrive(r, endpoint)
  <2> PICK endpoint \in Endpoints : Arrive(r, endpoint)
    BY <1>10
  <2>1. /\ At(r, "idle") /\ q.phase = "lane" /\ q.endpoint = endpoint
        /\ q.laneExecuting = request[r].laneExecuting
        /\ q.aggregateExecuting = request[r].aggregateExecuting
        /\ ~q.laneExecuting /\ ~q.aggregateExecuting
        /\ connections' = connections
    BY <1>2, <1>3 DEF Arrive, At, RequestType, LocalsOK
  <2>2. /\ LaneOf[endpoint] \in Lanes /\ bulkhead.admission \in [Lanes -> Nat]
        /\ bulkhead.admission[LaneOf[endpoint]] > 0
        /\ bulkhead'.admission =
             [bulkhead.admission EXCEPT ![LaneOf[endpoint]] = bulkhead.admission[LaneOf[endpoint]] - 1]
        /\ bulkhead'.execution = bulkhead.execution /\ bulkhead'.aggregate = bulkhead.aggregate
    BY <1>3, RequestsAssumption DEF Arrive
  <2>3. ASSUME NEW l \in Lanes
        PROVE  /\ Balanced(bulkhead'.admission[l], bulkhead.admission[l],
                           r \in Admitted(l), q.phase # "idle" /\ LaneOf[q.endpoint] = l)
               /\ Balanced(bulkhead'.execution[l], bulkhead.execution[l],
                           r \in Executing(l), q.laneExecuting /\ LaneOf[q.endpoint] = l)
    BY <2>1, <2>2 DEF Balanced, Admitted, Executing, At
  <2>4. /\ Balanced(bulkhead'.aggregate, bulkhead.aggregate, r \in Aggregated, q.aggregateExecuting)
        /\ Balanced(connections', connections, r \in Connected, q.phase \in {"store", "cache"})
    BY <2>1, <2>2 DEF Balanced, Aggregated, Connected, At
  <2> QED
    BY <1>1, <1>3, <2>3, <2>4, PermitsMove
<1>11. CASE EnterLane(r)
  <2>1. /\ At(r, "lane") /\ q.phase = "aggregate" /\ q.endpoint = request[r].endpoint
        /\ ~request[r].laneExecuting /\ q.laneExecuting
        /\ q.aggregateExecuting = request[r].aggregateExecuting
        /\ connections' = connections
    BY <1>2, <1>3, <1>11 DEF EnterLane, At, RequestType, LocalsOK
  <2>2. /\ Lane(r) \in Lanes /\ bulkhead.execution \in [Lanes -> Nat] /\ bulkhead.execution[Lane(r)] > 0
        /\ bulkhead'.execution =
             [bulkhead.execution EXCEPT ![Lane(r)] = bulkhead.execution[Lane(r)] - 1]
        /\ bulkhead'.admission = bulkhead.admission /\ bulkhead'.aggregate = bulkhead.aggregate
    BY <1>3, <1>11, RequestsAssumption DEF EnterLane, LocalsOK, At, Lane
  <2>3. ASSUME NEW l \in Lanes
        PROVE  /\ Balanced(bulkhead'.admission[l], bulkhead.admission[l],
                           r \in Admitted(l), q.phase # "idle" /\ LaneOf[q.endpoint] = l)
               /\ Balanced(bulkhead'.execution[l], bulkhead.execution[l],
                           r \in Executing(l), q.laneExecuting /\ LaneOf[q.endpoint] = l)
    BY <2>1, <2>2 DEF Balanced, Admitted, Executing, At, Lane
  <2>4. /\ Balanced(bulkhead'.aggregate, bulkhead.aggregate, r \in Aggregated, q.aggregateExecuting)
        /\ Balanced(connections', connections, r \in Connected, q.phase \in {"store", "cache"})
    BY <2>1, <2>2 DEF Balanced, Aggregated, Connected, At
  <2> QED
    BY <1>1, <1>3, <2>3, <2>4, PermitsMove
<1>12. CASE EnterAggregate(r)
  <2>1. /\ At(r, "aggregate") /\ q.phase \in {"gate", "endpoint"} /\ q.endpoint = request[r].endpoint
        /\ q.laneExecuting = request[r].laneExecuting
        /\ q.aggregateExecuting /\ ~request[r].aggregateExecuting
        /\ connections' = connections
    BY <1>2, <1>3, <1>12 DEF EnterAggregate, At, RequestType, LocalsOK
  <2>2. /\ bulkhead'.aggregate + 1 = bulkhead.aggregate
        /\ bulkhead'.admission = bulkhead.admission /\ bulkhead'.execution = bulkhead.execution
    BY <1>3, <1>12 DEF EnterAggregate
  <2>3. ASSUME NEW l \in Lanes
        PROVE  /\ Balanced(bulkhead'.admission[l], bulkhead.admission[l],
                           r \in Admitted(l), q.phase # "idle" /\ LaneOf[q.endpoint] = l)
               /\ Balanced(bulkhead'.execution[l], bulkhead.execution[l],
                           r \in Executing(l), q.laneExecuting /\ LaneOf[q.endpoint] = l)
    BY <2>1, <2>2 DEF Balanced, Admitted, Executing, At, Lane
  <2>4. /\ Balanced(bulkhead'.aggregate, bulkhead.aggregate, r \in Aggregated, q.aggregateExecuting)
        /\ Balanced(connections', connections, r \in Connected, q.phase \in {"store", "cache"})
    BY <2>1, <2>2 DEF Balanced, Aggregated, Connected, At
  <2> QED
    BY <1>1, <1>3, <2>3, <2>4, PermitsMove
<1>13. CASE Release(r)
  <2> DEFINE lane == Held(request[r].laneExecuting)
             aggregate == Held(request[r].aggregateExecuting)
  <2>1. /\ At(r, "finally") /\ q.phase = "idle" /\ ~q.laneExecuting /\ ~q.aggregateExecuting
        /\ connections' = connections
    BY <1>2, <1>13 DEF Release, Idle, At
  <2>2. /\ Lane(r) \in Lanes
        /\ bulkhead.execution \in [Lanes -> Nat] /\ bulkhead.admission \in [Lanes -> Nat]
    BY <1>3, <2>1, RequestsAssumption DEF LocalsOK, At, Lane
  <2>3. /\ bulkhead'.execution =
             [bulkhead.execution EXCEPT ![Lane(r)] = bulkhead.execution[Lane(r)] + lane]
        /\ bulkhead'.admission =
             [bulkhead.admission EXCEPT ![Lane(r)] = bulkhead.admission[Lane(r)] + 1]
        /\ bulkhead'.aggregate = bulkhead.aggregate + aggregate
    BY <1>3, <1>13 DEF Release
  <2>4. /\ request[r].laneExecuting => lane = 1
        /\ ~request[r].laneExecuting => lane = 0
        /\ request[r].aggregateExecuting => aggregate = 1
        /\ ~request[r].aggregateExecuting => aggregate = 0
    BY DEF Held
  <2> HIDE DEF lane, aggregate
  <2>5. bulkhead.aggregate \in Nat
    BY <1>3
  <2>6. ASSUME NEW l \in Lanes
        PROVE  /\ Balanced(bulkhead'.admission[l], bulkhead.admission[l],
                           r \in Admitted(l), q.phase # "idle" /\ LaneOf[q.endpoint] = l)
               /\ Balanced(bulkhead'.execution[l], bulkhead.execution[l],
                           r \in Executing(l), q.laneExecuting /\ LaneOf[q.endpoint] = l)
    <3>1. CASE Lane(r) = l
      BY <2>1, <2>2, <2>3, <2>4, <3>1 DEF Balanced, Admitted, Executing, At
    <3>2. CASE Lane(r) # l
      BY <2>1, <2>2, <2>3, <3>2 DEF Balanced, Admitted, Executing, At
    <3> QED
      BY <3>1, <3>2
  <2>7. /\ Balanced(bulkhead'.aggregate, bulkhead.aggregate, r \in Aggregated, q.aggregateExecuting)
        /\ Balanced(connections', connections, r \in Connected, q.phase \in {"store", "cache"})
    BY <2>1, <2>3, <2>4, <2>5 DEF Balanced, Aggregated, Connected, At
  <2> QED
    BY <1>1, <1>3, <2>6, <2>7, PermitsMove
<1> QED
  BY <1>5, <1>6, <1>7, <1>8, <1>9, <1>10, <1>11, <1>12, <1>13 DEF StepOf, RequestStep, Wait, Fail

LEMMA Forgotten ==
    ASSUME Inv, NEW r \in Requests, Forget(r, "finally")
    PROVE  /\ request'[r].phase = "finally" /\ request'[r].endpoint = request[r].endpoint
           /\ request'[r].entry = 0 /\ request'[r].generation = 0 /\ request'[r].read = 0
BY DEF Inv, TypeOK, Forget

LEMMA RequestLocals ==
    ASSUME Inv, NEW r \in Requests, StepOf(r)
    PROVE  \A s \in Requests : LocalsOK(s)'
<1>1. PICK q \in RequestType : request' = [request EXCEPT ![r] = q]
  BY OneMoves
<1>2. /\ request'[r] = q /\ request[r] \in RequestType /\ request \in [Requests -> RequestType]
      /\ \A s \in Requests : s # r => request'[s] = request[s]
  BY <1>1 DEF Inv, TypeOK, RequestType
<1>3. LocalsOK(r) /\ \A s \in Requests \ {r} : LocalsOK(s)'
  BY <1>2 DEF Inv, LocalsOK, IsGuarded
<1>f. ASSUME Forget(r, "finally")
      PROVE  q.phase = "finally" /\ q.endpoint = request[r].endpoint
  BY <1>2, <1>f, Forgotten
<1> USE DEF LocalsOK, RequestType, At, IsGuarded
<1>4. CASE \E endpoint \in Endpoints : Arrive(r, endpoint)
  BY <1>2, <1>3, <1>4 DEF Arrive
<1>5. CASE EnterLane(r) \/ EnterAggregate(r)
  BY <1>2, <1>3, <1>5 DEF EnterLane, EnterAggregate
<1>6. CASE Release(r)
  BY <1>2, <1>3, <1>6 DEF Release, Idle
<1>7. CASE GiveUpQueueing(r) \/ EnterGate(r) \/ AbortAtGate(r) \/ OpenSession(r) \/ Refuse(r)
  BY <1>2, <1>3, <1>7 DEF GiveUpQueueing, EnterGate, AbortAtGate, OpenSession, Refuse, Move
<1>8. CASE ReadSnapshot(r) \/ ObserveGeneration(r) \/ UseKnownGeneration(r) \/ LockGeneration(r)
  BY <1>2, <1>3, <1>8 DEF ReadSnapshot, ObserveGeneration, UseKnownGeneration, LockGeneration, Move
<1>9. CASE FailAcquisition(r) \/ Exit(r)
  <2>1. Forget(r, "finally") /\ request[r].phase \notin {"idle", "lane", "aggregate"}
    BY <1>9 DEF FailAcquisition, Exit
  <2> QED
    BY <1>f, <1>2, <1>3, <2>1
<1>10. CASE FetchGeneration(r) \/ StoreGeneration(r) \/ UseCachedRows(r) \/ QueryRows(r)
  BY <1>2, <1>3, <1>10 DEF FetchGeneration, StoreGeneration, UseCachedRows, QueryRows, Move
<1>11. CASE CacheRows(r) \/ FailQuery(r)
  BY <1>2, <1>3, <1>11 DEF CacheRows, FailQuery, Move
<1> QED
  BY <1>4, <1>5, <1>6, <1>7, <1>8, <1>9, <1>10, <1>11 DEF StepOf, RequestStep, Wait, Fail

LEMMA RequestMutexes ==
    ASSUME Inv, NEW r \in Requests, StepOf(r)
    PROVE  MutexesHeld'
<1>1. PICK q \in RequestType : request' = [request EXCEPT ![r] = q]
  BY OneMoves
<1>2. /\ request'[r] = q /\ request[r] \in RequestType /\ request \in [Requests -> RequestType]
      /\ \A s \in Requests : s # r => request'[s] = request[s]
  BY <1>1 DEF Inv, TypeOK, RequestType
<1>3. /\ guard \in [gate : Holders, session : {"none", "open", "broken"}, readers : Nat]
      /\ known \in [generation : Generations, fresh : BOOLEAN, lock : Holders]
      /\ MutexesHeld /\ \A s \in Requests : s # Nobody
  BY RequestsAssumption DEF Inv, TypeOK
<1>f. ASSUME Forget(r, "finally")
      PROVE  q.phase = "finally"
  BY <1>2, <1>f, Forgotten
<1> USE DEF MutexesHeld, Deciding, Filling, RequestType, At
<1>4. CASE (\E endpoint \in Endpoints : Arrive(r, endpoint)) \/ EnterLane(r) \/ EnterAggregate(r)
  BY <1>2, <1>3, <1>4 DEF Arrive, EnterLane, EnterAggregate
<1>5. CASE Release(r) \/ GiveUpQueueing(r) \/ AbortAtGate(r)
  BY <1>2, <1>3, <1>5 DEF Release, Idle, GiveUpQueueing, AbortAtGate, Move
<1>6. CASE EnterGate(r) \/ OpenSession(r)
  BY <1>2, <1>3, <1>6 DEF EnterGate, OpenSession, Move
<1>7. CASE ReadSnapshot(r)
  BY <1>2, <1>3, <1>7 DEF ReadSnapshot
<1>8. CASE Refuse(r)
  <2>1. /\ guard.gate = r /\ guard'.gate = Nobody /\ q.phase = "finally"
        /\ known' = known /\ request[r].phase = "snapshot"
    BY <1>2, <1>3, <1>8 DEF Refuse, LeaveGate, Move
  <2> QED
    BY <1>2, <1>3, <2>1
<1>9. CASE FailAcquisition(r)
  <2>1. /\ guard.gate = r /\ guard'.gate = Nobody /\ q.phase = "finally"
        /\ known' = known /\ Deciding(r)
    BY <1>f, <1>3, <1>9 DEF FailAcquisition, LeaveGate
  <2> QED
    BY <1>2, <1>3, <2>1
<1>10. CASE ObserveGeneration(r)
  BY <1>2, <1>3, <1>10 DEF ObserveGeneration, Move
<1>11. CASE Exit(r)
  <2>0. /\ Forget(r, "finally") /\ known' = known /\ request[r].phase = "exit"
        /\ \/ guard' = guard
           \/ \E new \in {"none", guard.session} :
                guard' = [guard EXCEPT !.readers = guard.readers - 1, !.session = new]
    BY <1>11 DEF Exit
  <2>1. /\ guard'.gate = guard.gate /\ Forget(r, "finally")
        /\ known' = known /\ request[r].phase = "exit"
    BY <1>3, <2>0
  <2>2. q.phase = "finally"
    BY <1>f, <2>1
  <2> QED
    BY <1>2, <1>3, <2>1, <2>2
<1>12. CASE UseKnownGeneration(r) \/ LockGeneration(r) \/ FetchGeneration(r)
  BY <1>2, <1>3, <1>12 DEF UseKnownGeneration, LockGeneration, FetchGeneration, Move
<1>13. CASE StoreGeneration(r) \/ UseCachedRows(r) \/ QueryRows(r) \/ CacheRows(r)
  BY <1>2, <1>3, <1>13 DEF StoreGeneration, UseCachedRows, QueryRows, CacheRows, Move
<1>14. CASE FailQuery(r)
  BY <1>2, <1>3, <1>14 DEF FailQuery, Move
<1> QED
  BY <1>4, <1>5, <1>6, <1>7, <1>8, <1>9, <1>10, <1>11, <1>12, <1>13, <1>14
     DEF StepOf, RequestStep, Wait, Fail

\* Who needs the session: those who are inside, and the one who decides about entering.
Asking(r) == request[r].phase \in {"snapshot", "observe"}

LEMMA SessionNeeded ==
    SessionAsLongAsNeeded <=>
        /\ guard.readers = Cardinality(Readers)
        /\ guard.session # "none" <=> \E s \in Requests : Inside(s) \/ Asking(s)
BY DEF SessionAsLongAsNeeded, Count, Readers, Asking, At

LEMMA SessionNeededNext ==
    SessionAsLongAsNeeded' <=>
        /\ guard'.readers = Cardinality(Readers')
        /\ guard'.session # "none" <=> \E s \in Requests : Inside(s)' \/ Asking(s)'
BY DEF SessionAsLongAsNeeded, Count, Readers, Asking, At

\* Of the requests, only the one that moves may come in or go out.
LEMMA OthersStay ==
    ASSUME Inv, NEW r \in Requests, StepOf(r)
    PROVE  \A s \in Requests \ {r} : request'[s] = request[s]
                /\ (Inside(s)' <=> Inside(s)) /\ (Asking(s)' <=> Asking(s))
<1>1. \A s \in Requests \ {r} : request'[s] = request[s]
  BY OneMoves, RequestChanged DEF Inv
<1> QED
  BY <1>1 DEF Inside, Asking, IsGuarded

LEMMA ReadersMove ==
    ASSUME Inv, NEW r \in Requests, StepOf(r)
    PROVE  /\ Inside(r)' /\ ~Inside(r) => Cardinality(Readers') = Cardinality(Readers) + 1
           /\ ~Inside(r)' /\ Inside(r) => Cardinality(Readers') = Cardinality(Readers) - 1
           /\ (Inside(r)' <=> Inside(r)) => Readers' = Readers
<1>1. \A s \in Requests \ {r} : Inside(s)' <=> Inside(s)
  BY OthersStay
<1>2. IsFiniteSet(Readers) /\ Cardinality(Readers) \in Nat
  BY OwnersFinite
<1>3. ASSUME Inside(r)', ~Inside(r)
      PROVE  Cardinality(Readers') = Cardinality(Readers) + 1
  <2>1. Readers' = Readers \cup {r} /\ r \notin Readers
    BY <1>1, <1>3 DEF Readers
  <2> QED
    BY <1>2, <2>1, OneMore
<1>4. ASSUME ~Inside(r)', Inside(r)
      PROVE  Cardinality(Readers') = Cardinality(Readers) - 1
  <2>1. Readers' = Readers \ {r} /\ r \in Readers
    BY <1>1, <1>4 DEF Readers
  <2> QED
    BY <1>2, <2>1, FS_RemoveElement
<1>5. ASSUME Inside(r)' <=> Inside(r)
      PROVE  Readers' = Readers
  BY <1>1, <1>5 DEF Readers
<1> QED
  BY <1>3, <1>4, <1>5

\* The guard keeps its session while a request moves among the phases that need it,
\* or among those that do not.
LEMMA SessionStays ==
    ASSUME Inv, NEW r \in Requests, StepOf(r), guard' = guard,
           Inside(r)' <=> Inside(r), Asking(r)' <=> Asking(r), request'[r].phase # "open"
    PROVE  SessionAsLongAsNeeded' /\ \A s \in Requests : At(s, "open")' => guard'.session = "none"
<1>1. Readers' = Readers
  BY ReadersMove
<1>2. \A s \in Requests : (Inside(s)' <=> Inside(s)) /\ (Asking(s)' <=> Asking(s))
  BY OthersStay
<1>3. SessionAsLongAsNeeded'
  BY <1>1, <1>2, SessionNeeded, SessionNeededNext DEF Inv
<1>4. \A s \in Requests : At(s, "open")' => guard'.session = "none"
  BY OthersStay DEF Inv, SessionOpened, At
<1> QED
  BY <1>3, <1>4

LEMMA RequestSession ==
    ASSUME Inv, NEW r \in Requests, StepOf(r)
    PROVE  SessionAsLongAsNeeded' /\ \A s \in Requests : At(s, "open")' => guard'.session = "none"
<1>1. PICK q \in RequestType : request' = [request EXCEPT ![r] = q]
  BY OneMoves
<1>2. /\ request'[r] = q /\ request[r] \in RequestType /\ request \in [Requests -> RequestType]
      /\ \A s \in Requests : s # r => request'[s] = request[s]
  BY <1>1 DEF Inv, TypeOK, RequestType
<1>3. /\ guard \in [gate : Holders, session : {"none", "open", "broken"}, readers : Nat]
      /\ LocalsOK(r) /\ MutexesHeld /\ \A s \in Requests : s # Nobody
  BY RequestsAssumption DEF Inv, TypeOK
<1>f. ASSUME Forget(r, "finally")
      PROVE  q.phase = "finally" /\ q.endpoint = request[r].endpoint
  BY <1>2, <1>f, Forgotten
<1>s. /\ guard.readers = Cardinality(Readers)
      /\ guard.session # "none" <=> \E s \in Requests : Inside(s) \/ Asking(s)
  BY SessionNeeded DEF Inv
<1>o. \A s \in Requests \ {r} : request'[s] = request[s]
                /\ (Inside(s)' <=> Inside(s)) /\ (Asking(s)' <=> Asking(s))
  BY OthersStay
<1> DEFINE Same == /\ UNCHANGED guard
                   /\ Inside(r)' <=> Inside(r)
                   /\ Asking(r)' <=> Asking(r)
                   /\ request'[r].phase # "open"
<1>4. ASSUME (\E endpoint \in Endpoints : Arrive(r, endpoint)) \/ EnterLane(r) \/ Release(r)
      PROVE  Same
  BY <1>2, <1>4 DEF Arrive, EnterLane, Release, Idle, At, Inside, Asking, RequestType
<1>5. ASSUME EnterAggregate(r)
      PROVE  Same
  BY <1>2, <1>5 DEF EnterAggregate, At, Inside, IsGuarded, Asking, RequestType
<1>6. ASSUME GiveUpQueueing(r) \/ AbortAtGate(r) \/ ReadSnapshot(r)
      PROVE  Same
  BY <1>2, <1>6 DEF GiveUpQueueing, AbortAtGate, ReadSnapshot, Move, At, Inside, Asking, RequestType
<1>7. ASSUME UseKnownGeneration(r) \/ LockGeneration(r) \/ FetchGeneration(r) \/ StoreGeneration(r)
      PROVE  Same
  BY <1>2, <1>7 DEF UseKnownGeneration, LockGeneration, FetchGeneration, StoreGeneration,
     Move, At, Inside, IsGuarded, Asking, RequestType
<1>8. ASSUME UseCachedRows(r) \/ QueryRows(r) \/ CacheRows(r) \/ FailQuery(r)
      PROVE  Same
  BY <1>2, <1>8 DEF UseCachedRows, QueryRows, CacheRows, FailQuery,
     Move, At, Inside, IsGuarded, Asking, RequestType
<1>9. ASSUME Exit(r), ~IsGuarded(r)
      PROVE  Same
  BY <1>2, <1>f, <1>9 DEF Exit, At, Inside, IsGuarded, Asking, RequestType
<1>10. CASE EnterGate(r)
  <2>1. /\ ~Inside(r) /\ ~Inside(r)' /\ ~Asking(r) /\ guard.gate = Nobody
        /\ q.phase = IF guard.session = "none" THEN "open" ELSE "snapshot"
        /\ guard'.readers = guard.readers /\ guard'.session = guard.session
    BY <1>2, <1>3, <1>10 DEF EnterGate, Move, At, Inside, Asking, RequestType
  <2>2. Readers' = Readers
    BY <2>1, ReadersMove
  <2>3. Asking(r)' <=> guard.session # "none"
    BY <1>2, <2>1 DEF Asking
  <2>4. guard'.session # "none" <=> \E s \in Requests : Inside(s)' \/ Asking(s)'
    BY <1>s, <1>o, <2>1, <2>3
  <2>5. \A s \in Requests \ {r} : ~At(s, "open")'
    BY <1>o, <1>3, <2>1 DEF MutexesHeld, Deciding, At
  <2>6. At(r, "open")' => guard'.session = "none"
    BY <1>2, <2>1 DEF At
  <2> QED
    BY <1>s, <2>1, <2>2, <2>4, <2>5, <2>6, SessionNeededNext
<1>11. CASE OpenSession(r)
  <2>1. /\ ~Inside(r) /\ ~Inside(r)' /\ Asking(r)' /\ guard.gate = r
        /\ q.phase = "snapshot"
        /\ guard'.readers = guard.readers /\ guard'.session = "open"
    BY <1>2, <1>3, <1>11 DEF OpenSession, Move, At, Inside, Asking, RequestType, MutexesHeld, Deciding
  <2>2. Readers' = Readers
    BY <2>1, ReadersMove
  <2>3. \A s \in Requests : ~At(s, "open")'
    BY <1>2, <1>o, <1>3, <2>1 DEF MutexesHeld, Deciding, At
  <2> QED
    BY <1>s, <2>1, <2>2, <2>3, SessionNeededNext
<1>12. CASE Refuse(r) \/ FailAcquisition(r)
  <2>1. guard' = LeaveGate /\ guard.gate = r /\ Deciding(r)
    BY <1>3, <1>12 DEF Refuse, FailAcquisition, MutexesHeld, Deciding, At
  <2>2. q.phase = "finally"
    BY <1>2, <1>f, <1>12 DEF Refuse, FailAcquisition, Move, RequestType
  <2>3. ~Inside(r) /\ ~Inside(r)' /\ ~Asking(r)'
    BY <1>2, <2>1, <2>2 DEF Inside, Asking, Deciding
  <2>4. Readers' = Readers
    BY <2>3, ReadersMove
  <2>5. /\ guard'.readers = guard.readers
        /\ guard'.session = IF guard.readers = 0 THEN "none" ELSE guard.session
    BY <1>3, <2>1 DEF LeaveGate
  <2>6. \A s \in Requests \ {r} : ~Asking(s)' /\ ~At(s, "open")'
    BY <1>3, <1>o, <2>1 DEF MutexesHeld, Deciding, Asking, At
  <2>7. guard.readers = 0 <=> Readers = {}
    BY <1>s, OwnersFinite, FS_EmptySet
  <2>8. (\E s \in Requests : Inside(s)' \/ Asking(s)') <=> Readers # {}
    BY <1>o, <2>3, <2>6 DEF Readers
  <2>9. Readers # {} => guard.session # "none"
    BY <1>s DEF Readers
  <2>10. ~At(r, "open")'
    BY <1>2, <2>2 DEF At
  <2> QED
    BY <1>s, <2>4, <2>5, <2>6, <2>7, <2>8, <2>9, <2>10, SessionNeededNext
<1>13. CASE ObserveGeneration(r)
  <2>1. /\ ~Inside(r) /\ Inside(r)' /\ Asking(r) /\ q.phase = "endpoint"
        /\ guard.gate = r /\ guard'.readers = guard.readers + 1 /\ guard'.session = guard.session
    BY <1>2, <1>3, <1>13 DEF ObserveGeneration, Move, At, Inside, IsGuarded, Asking, RequestType,
       LocalsOK, MutexesHeld, Deciding
  <2>2. Cardinality(Readers') = Cardinality(Readers) + 1
    BY <2>1, ReadersMove
  <2>3. \A s \in Requests : ~At(s, "open")'
    BY <1>2, <1>3, <1>o, <2>1 DEF MutexesHeld, Deciding, At
  <2> QED
    BY <1>s, <2>1, <2>2, <2>3, SessionNeededNext
<1>14. CASE Exit(r) /\ IsGuarded(r)
  <2>1. /\ Inside(r) /\ request[r].phase = "exit" /\ guard.gate = Nobody
        /\ guard'.readers = guard.readers - 1
        /\ guard'.session = IF guard.readers = 1 THEN "none" ELSE guard.session
    BY <1>3, <1>14 DEF Exit, At, Inside
  <2>2. q.phase = "finally"
    BY <1>f, <1>14 DEF Exit
  <2>3. ~Inside(r)' /\ ~Asking(r)' /\ ~At(r, "open")'
    BY <1>2, <2>2 DEF Inside, Asking, At
  <2>4. Cardinality(Readers') = Cardinality(Readers) - 1
    BY <2>1, <2>3, ReadersMove
  <2>5. \A s \in Requests \ {r} : ~Asking(s)' /\ ~At(s, "open")'
    BY <1>3, <1>o, <2>1 DEF MutexesHeld, Deciding, Asking, At
  <2>6. guard.session # "none"
    BY <1>s, <2>1
  <2>7. Readers' = Readers \ {r} /\ r \in Readers
    BY <1>o, <2>1, <2>3 DEF Readers
  <2>8. guard.readers = 1 <=> Readers' = {}
    <3>1. IsFiniteSet(Readers) /\ Cardinality(Readers) \in Nat
      BY OwnersFinite
    <3>2. IsFiniteSet(Readers')
      BY <2>7, <3>1, FS_RemoveElement
    <3>3. Cardinality(Readers') = 0 <=> Readers' = {}
      BY <3>2, FS_EmptySet
    <3> QED
      BY <1>s, <2>4, <3>1, <3>3
  <2>9. (\E s \in Requests : Inside(s)' \/ Asking(s)') <=> Readers' # {}
    BY <1>o, <2>3, <2>5 DEF Readers
  <2> QED
    BY <1>s, <2>1, <2>3, <2>4, <2>5, <2>6, <2>8, <2>9, SessionNeededNext
<1> QED
  BY <1>4, <1>5, <1>6, <1>7, <1>8, <1>9, <1>10, <1>11, <1>12, <1>13, <1>14, SessionStays
     DEF StepOf, RequestStep, Wait, Fail

LEMMA RequestSessionOpened ==
    ASSUME Inv, NEW r \in Requests, StepOf(r)
    PROVE  SessionOpened' /\ publisher' = publisher
              /\ (guard'.session = "open" => guard.session = "open" \/ At(r, "open"))
<1>1. guard \in [gate : Holders, session : {"none", "open", "broken"}, readers : Nat]
  BY DEF Inv, TypeOK
<1> DEFINE Kept == publisher' = publisher /\ (guard'.session = "open" => guard.session = "open")
<1>2. CASE OpenSession(r)
  <2>1. publisher' = publisher /\ ~Publishing /\ At(r, "open")
    BY <1>2 DEF OpenSession
  <2> QED
    BY <2>1, RequestSession DEF SessionOpened, Publishing
<1>3. ASSUME Refuse(r) \/ FailAcquisition(r) \/ Exit(r) \/ EnterGate(r) \/ ObserveGeneration(r)
      PROVE  Kept
  BY <1>1, <1>3 DEF Refuse, FailAcquisition, LeaveGate, Exit, EnterGate, ObserveGeneration
<1>4. ASSUME (\E endpoint \in Endpoints : Arrive(r, endpoint)) \/ EnterLane(r) \/ EnterAggregate(r)
             \/ Release(r) \/ GiveUpQueueing(r) \/ AbortAtGate(r) \/ ReadSnapshot(r)
      PROVE  Kept
  BY <1>4 DEF Arrive, EnterLane, EnterAggregate, Release, GiveUpQueueing, AbortAtGate, ReadSnapshot
<1>5. ASSUME UseKnownGeneration(r) \/ LockGeneration(r) \/ FetchGeneration(r) \/ StoreGeneration(r)
             \/ UseCachedRows(r) \/ QueryRows(r) \/ CacheRows(r) \/ FailQuery(r)
      PROVE  Kept
  BY <1>5 DEF UseKnownGeneration, LockGeneration, FetchGeneration, StoreGeneration, UseCachedRows,
     QueryRows, CacheRows, FailQuery
<1>6. CASE Kept
  BY <1>6, RequestSession DEF Inv, SessionOpened, Publishing
<1> QED
  BY <1>2, <1>3, <1>4, <1>5, <1>6 DEF StepOf, RequestStep, Wait, Fail

LEMMA RequestPast ==
    ASSUME Inv, NEW r \in Requests, StepOf(r)
    PROVE  Past'
<1>1. PICK q \in RequestType : request' = [request EXCEPT ![r] = q]
  BY OneMoves
<1>2. /\ request'[r] = q /\ request[r] \in RequestType /\ request \in [Requests -> RequestType]
      /\ \A s \in Requests : s # r => request'[s] = request[s]
  BY <1>1 DEF Inv, TypeOK, RequestType
<1>3. /\ publisher' = publisher /\ publisher.generation \in Nat
      /\ known \in [generation : Generations, fresh : BOOLEAN, lock : Holders]
      /\ objects \in [Generations -> Generations \cup {NoRows}] /\ Generations \subseteq Nat
  BY RequestSessionOpened DEF Inv, TypeOK, Generations
<1>f. ASSUME Forget(r, "finally")
      PROVE  q.phase = "finally" /\ q.entry = 0 /\ q.generation = 0 /\ q.read = 0
  BY <1>2, <1>f, Forgotten
<1> DEFINE LocalsPast == /\ q.entry <= publisher.generation
                         /\ q.generation <= publisher.generation /\ q.read <= publisher.generation
                         /\ q.phase = "cache" => q.generation <= q.read
<1>4. ASSUME LocalsPast, known'.generation <= publisher.generation, objects' = objects
      PROVE  Past'
  BY <1>2, <1>3, <1>4 DEF Inv, Past, At
<1>5. Past
  BY DEF Inv
<1> USE DEF Past, At, RequestType
<1>6. CASE (\E endpoint \in Endpoints : Arrive(r, endpoint)) \/ EnterLane(r) \/ EnterAggregate(r)
           \/ GiveUpQueueing(r)
  BY <1>2, <1>4, <1>5, <1>6 DEF Arrive, EnterLane, EnterAggregate, GiveUpQueueing, Move
<1>7. CASE Release(r)
  BY <1>2, <1>3, <1>4, <1>5, <1>7 DEF Release, Idle
<1>8. CASE EnterGate(r) \/ AbortAtGate(r) \/ OpenSession(r) \/ Refuse(r)
  BY <1>2, <1>4, <1>5, <1>8 DEF EnterGate, AbortAtGate, OpenSession, Refuse, Move
<1>9. CASE ReadSnapshot(r)
  BY <1>2, <1>4, <1>5, <1>9 DEF ReadSnapshot
<1>10. CASE FailAcquisition(r) \/ Exit(r)
  BY <1>3, <1>f, <1>4, <1>5, <1>10 DEF FailAcquisition, Exit
<1>11. CASE ObserveGeneration(r)
  <2>1. known'.generation = request[r].entry /\ objects' = objects
    BY <1>3, <1>11 DEF ObserveGeneration
  <2> QED
    BY <1>2, <1>4, <1>5, <1>11, <2>1 DEF ObserveGeneration, Move
<1>12. CASE UseKnownGeneration(r)
  BY <1>2, <1>4, <1>5, <1>12 DEF UseKnownGeneration
<1>18. CASE LockGeneration(r)
  <2>1. known'.generation = known.generation /\ objects' = objects
    BY <1>3, <1>18 DEF LockGeneration
  <2> QED
    BY <1>2, <1>4, <1>5, <1>18, <2>1 DEF LockGeneration, Move
<1>13. CASE FetchGeneration(r)
  BY <1>2, <1>3, <1>4, <1>5, <1>13 DEF FetchGeneration
<1>14. CASE StoreGeneration(r)
  BY <1>2, <1>4, <1>5, <1>14 DEF StoreGeneration, Move
<1>15. CASE UseCachedRows(r) \/ FailQuery(r)
  BY <1>2, <1>3, <1>4, <1>5, <1>15 DEF UseCachedRows, FailQuery, Move
<1>16. CASE QueryRows(r)
  BY <1>2, <1>3, <1>4, <1>5, <1>16 DEF QueryRows
<1>17. CASE CacheRows(r)
  <2>1. /\ q.generation = request[r].generation /\ q.read = request[r].read /\ q.phase = "exit"
        /\ q.entry = request[r].entry
        /\ known' = known /\ request[r].phase = "cache"
        /\ objects' = [objects EXCEPT ![request[r].generation] = request[r].read]
    BY <1>2, <1>17 DEF CacheRows, Move
  <2>2. /\ request[r].generation <= request[r].read /\ request[r].read <= publisher.generation
        /\ request[r].generation \in Generations
    BY <1>2, <1>5, <2>1
  <2>3. \A g \in Generations :
            objects'[g] # NoRows => g <= objects'[g] /\ objects'[g] <= publisher.generation
    BY <1>3, <1>5, <2>1, <2>2
  <2>4. LocalsPast /\ known'.generation <= publisher'.generation
    BY <1>3, <1>5, <2>1
  <2> QED
    BY <1>2, <1>3, <1>5, <2>3, <2>4
<1> QED
  BY <1>18, <1>6, <1>7, <1>8, <1>9, <1>10, <1>11, <1>12, <1>13, <1>14, <1>15, <1>16, <1>17
     DEF StepOf, RequestStep, Wait, Fail

\* What Current says of one request, and of what all of them share.
CurrentLocals(r) ==
    /\ Inside(r) \/ At(r, "observe") => request[r].entry = publisher.generation
    /\ Inside(r) /\ (At(r, "rows") \/ At(r, "cache")) =>
        request[r].generation = publisher.generation
    /\ Inside(r) /\ At(r, "cache") => request[r].read = publisher.generation
CurrentStore(r) == At(r, "store") => request[r].generation = publisher.generation
CurrentCopy == known.fresh => known.generation = publisher.generation

LEMMA CurrentParts ==
    Current <=>
        (guard.session = "open" =>
            /\ \A s \in Requests : CurrentLocals(s)
            /\ (\E s \in Requests : Inside(s)) =>
                  CurrentCopy /\ \A s \in Requests : CurrentStore(s))
BY DEF Current, CurrentLocals, CurrentStore, CurrentCopy

LEMMA CurrentPartsNext ==
    Current' <=>
        (guard'.session = "open" =>
            /\ \A s \in Requests : CurrentLocals(s)'
            /\ (\E s \in Requests : Inside(s)') =>
                  CurrentCopy' /\ \A s \in Requests : CurrentStore(s)')
BY DEF Current, CurrentLocals, CurrentStore, CurrentCopy, Inside, IsGuarded, At

LEMMA RequestCurrent ==
    ASSUME Inv, NEW r \in Requests, StepOf(r)
    PROVE  Current'
<1>1. PICK q \in RequestType : request' = [request EXCEPT ![r] = q]
  BY OneMoves
<1>2. /\ request'[r] = q /\ request[r] \in RequestType /\ request \in [Requests -> RequestType]
      /\ \A s \in Requests : s # r => request'[s] = request[s]
  BY <1>1 DEF Inv, TypeOK, RequestType
<1>3. /\ publisher' = publisher /\ MutexesHeld /\ LocalsOK(r)
      /\ guard \in [gate : Holders, session : {"none", "open", "broken"}, readers : Nat]
      /\ known \in [generation : Generations, fresh : BOOLEAN, lock : Holders]
      /\ \A s \in Requests : s # Nobody
  BY RequestSessionOpened, RequestsAssumption DEF Inv, TypeOK
<1>o. \A s \in Requests \ {r} : Inside(s)' <=> Inside(s)
  BY OthersStay
<1> SUFFICES ASSUME guard'.session = "open"
             PROVE  Current'
  BY DEF Current
<1>4. CASE guard.session # "open"
  <2>1. At(r, "open") /\ guard.session = "none"
    BY <1>4, RequestSessionOpened DEF Inv, SessionOpened
  <2>2. OpenSession(r)
    <3>1. ~FailAcquisition(r)
      BY <1>3, <1>4, <2>1 DEF FailAcquisition, LeaveGate
    <3>2. ~((\E endpoint \in Endpoints : Arrive(r, endpoint)) \/ EnterLane(r) \/ EnterAggregate(r)
            \/ GiveUpQueueing(r) \/ Release(r) \/ EnterGate(r) \/ AbortAtGate(r) \/ Refuse(r)
            \/ ReadSnapshot(r) \/ ObserveGeneration(r) \/ Exit(r))
      BY <2>1 DEF Arrive, EnterLane, EnterAggregate, GiveUpQueueing, Release, EnterGate, AbortAtGate,
         Refuse, ReadSnapshot, ObserveGeneration, Exit, At
    <3>3. ~(UseKnownGeneration(r) \/ LockGeneration(r) \/ FetchGeneration(r) \/ StoreGeneration(r)
            \/ UseCachedRows(r) \/ QueryRows(r) \/ CacheRows(r) \/ FailQuery(r))
      BY <2>1 DEF UseKnownGeneration, LockGeneration, FetchGeneration, StoreGeneration, UseCachedRows,
         QueryRows, CacheRows, FailQuery, At
    <3> QED
      BY <3>1, <3>2, <3>3 DEF StepOf, RequestStep, Wait, Fail
  <2>3. q.phase = "snapshot"
    BY <1>2, <2>2 DEF OpenSession, Move, RequestType
  <2>4. \A s \in Requests : ~Inside(s) /\ ~At(s, "observe")
    BY <2>1, SessionNeeded DEF Inv, Asking, At
  <2>5. \A s \in Requests : ~Inside(s)' /\ ~At(s, "observe")'
    BY <1>2, <1>o, <2>3, <2>4 DEF At, Inside
  <2> QED
    BY <2>5 DEF Current
<1>5. CASE guard.session = "open"
  <2>1. /\ \A s \in Requests : CurrentLocals(s)
        /\ (\E s \in Requests : Inside(s)) =>
              CurrentCopy /\ \A s \in Requests : CurrentStore(s)
    BY <1>5, CurrentParts DEF Inv
  <2>2. \A s \in Requests \ {r} : CurrentLocals(s)' /\ (CurrentStore(s)' <=> CurrentStore(s))
    BY <1>2, <1>3, <1>o, <2>1 DEF CurrentLocals, CurrentStore, At
  \* A step that brings nobody in, leaves the copy alone and stores nothing.
  <2> DEFINE Quiet == /\ CurrentLocals(r)' /\ CurrentStore(r)'
                      /\ Inside(r)' => Inside(r)
                      /\ known'.fresh = known.fresh /\ known'.generation = known.generation
  <2>3. ASSUME Quiet
        PROVE  Current'
    BY <1>3, <1>o, <2>1, <2>2, <2>3, CurrentPartsNext DEF CurrentCopy
  <2>4. CurrentLocals(r)
    BY <2>1
  <2> USE DEF CurrentLocals, CurrentStore, Inside, IsGuarded, At, RequestType
  <2>5. ASSUME (\E endpoint \in Endpoints : Arrive(r, endpoint)) \/ EnterLane(r) \/ EnterAggregate(r)
        PROVE  Quiet
    BY <1>2, <2>4, <2>5 DEF Arrive, EnterLane, EnterAggregate
  <2>6. ASSUME GiveUpQueueing(r) \/ Release(r) \/ EnterGate(r) \/ AbortAtGate(r)
        PROVE  Quiet
    BY <1>2, <2>4, <2>6 DEF GiveUpQueueing, Release, Idle, EnterGate, AbortAtGate, Move
  <2>7. ASSUME OpenSession(r) \/ Refuse(r) \/ ReadSnapshot(r)
        PROVE  Quiet
    BY <1>2, <1>3, <2>4, <2>7 DEF OpenSession, Refuse, ReadSnapshot, Move
  <2>8. ASSUME FailAcquisition(r) \/ Exit(r)
        PROVE  Quiet
    <3>1. request'[r].phase = "finally" /\ known' = known
      BY <2>8, Forgotten DEF FailAcquisition, Exit
    <3> QED
      BY <3>1
  <2>9. ASSUME UseKnownGeneration(r)
        PROVE  Quiet
    <3>1. Inside(r) => known.generation = publisher.generation
      BY <2>1, <2>9 DEF UseKnownGeneration, CurrentCopy
    <3> QED
      BY <1>2, <1>3, <2>4, <2>9, <3>1 DEF UseKnownGeneration
  <2>10. ASSUME LockGeneration(r) \/ FetchGeneration(r)
         PROVE  Quiet
    BY <1>2, <1>3, <2>4, <2>10 DEF LockGeneration, FetchGeneration, Move
  <2>11. ASSUME UseCachedRows(r) \/ QueryRows(r) \/ CacheRows(r)
         PROVE  Quiet
    BY <1>2, <1>3, <2>4, <2>11 DEF UseCachedRows, QueryRows, CacheRows, Move
  <2>12. ASSUME FailQuery(r)
         PROVE  Quiet
    BY <1>2, <1>3, <2>4, <2>12 DEF FailQuery, Move
  <2>13. CASE ObserveGeneration(r)
    <3>1. /\ request[r].entry = publisher.generation /\ known.lock = Nobody /\ q.phase = "endpoint"
          /\ q.entry = request[r].entry
          /\ known'.generation = request[r].entry
      BY <1>2, <1>3, <2>4, <2>13 DEF ObserveGeneration, Move
    <3>2. \A s \in Requests : ~At(s, "store")
      BY <1>3, <3>1 DEF MutexesHeld, Filling
    <3>3. \A s \in Requests : CurrentStore(s)'
      BY <1>2, <3>1, <3>2
    <3>4. CurrentLocals(r)'
      BY <1>2, <1>3, <3>1
    <3>5. CurrentCopy'
      BY <1>3, <3>1 DEF CurrentCopy
    <3> QED
      BY <2>2, <3>3, <3>4, <3>5, CurrentPartsNext
  <2>14. CASE StoreGeneration(r)
    <3>1. /\ known'.generation = request[r].generation /\ q.phase = "rows"
          /\ q.entry = request[r].entry /\ q.generation = request[r].generation
          /\ At(r, "store") /\ q.endpoint = request[r].endpoint
      BY <1>2, <2>14 DEF StoreGeneration, Move
    <3>2. (\E s \in Requests : Inside(s)') => \E s \in Requests : Inside(s)
      BY <1>2, <1>o, <3>1
    <3>3. (\E s \in Requests : Inside(s)') =>
            /\ request[r].generation = publisher.generation
            /\ \A s \in Requests : CurrentStore(s)
      BY <2>1, <3>1, <3>2
    <3>4. (\E s \in Requests : Inside(s)') => CurrentCopy' /\ \A s \in Requests : CurrentStore(s)'
      BY <1>2, <1>3, <2>2, <3>1, <3>3 DEF CurrentCopy
    <3>5. CurrentLocals(r)'
      BY <1>2, <1>3, <2>4, <3>1, <3>3
    <3> QED
      BY <2>2, <3>4, <3>5, CurrentPartsNext
  <2> QED
    BY <2>3, <2>5, <2>6, <2>7, <2>8, <2>9, <2>10, <2>11, <2>12, <2>13, <2>14
       DEF StepOf, RequestStep, Wait, Fail
<1> QED
  BY <1>4, <1>5

LEMMA RequestInv ==
    ASSUME Inv, NEW r \in Requests, StepOf(r)
    PROVE  Inv'
<1>1. TypeOK'
  BY RequestTypes
<1>2. (\A s \in Requests : LocalsOK(s))' /\ MutexesHeld'
  BY RequestLocals, RequestMutexes
<1>3. PermitsConserved'
  BY RequestPermits
<1>4. SessionAsLongAsNeeded' /\ SessionOpened'
  BY RequestSession, RequestSessionOpened
<1>5. Past' /\ Current'
  BY RequestPast, RequestCurrent
<1> QED
  BY <1>1, <1>2, <1>3, <1>4, <1>5 DEF Inv

-----------------------------------------------------------------------------
(* Time, the network and the publisher                                      *)

\* None of them touches a request, a permit, a mutex or the count of the readers.
LEMMA EnvironmentQuiet ==
    ASSUME Inv, UNCHANGED <<request, bulkhead, connections>>, TypeOK',
           guard'.gate = guard.gate, guard'.readers = guard.readers, known'.lock = known.lock,
           guard'.session = "none" <=> guard.session = "none"
    PROVE  /\ TypeOK' /\ \A r \in Requests : LocalsOK(r)'
           /\ MutexesHeld' /\ PermitsConserved' /\ SessionAsLongAsNeeded'
           /\ \A r \in Requests : /\ At(r, "open")' => guard'.session = "none"
                                  /\ (Inside(r)' <=> Inside(r)) /\ (Asking(r)' <=> Asking(r))
<1>1. \A r \in Requests : LocalsOK(r)' /\ (Inside(r)' <=> Inside(r)) /\ (Asking(r)' <=> Asking(r))
  BY DEF Inv, LocalsOK, Inside, Asking, IsGuarded
<1>2. MutexesHeld'
  BY DEF Inv, MutexesHeld, Deciding, Filling
<1>3. PermitsConserved'
  BY Conserved, ConservedNext DEF Inv, Admitted, Executing, Aggregated, Connected, At, Lane
<1>4. Readers' = Readers
  BY <1>1 DEF Readers
<1>5. SessionAsLongAsNeeded'
  BY <1>1, <1>4, SessionNeeded, SessionNeededNext DEF Inv
<1>6. \A r \in Requests : At(r, "open")' => guard'.session = "none"
  BY DEF Inv, SessionOpened, At
<1> QED
  BY <1>1, <1>2, <1>3, <1>5, <1>6

LEMMA EnvironmentInv ==
    ASSUME Inv, Environment
    PROVE  Inv'
<1> USE DEF Inv
<1>1. CASE GenerationExpires
  <2>1. TypeOK'
    <3>1. 0 \in Generations
      BY GenerationsAssumption DEF Generations
    <3>2. known' \in [generation : Generations, fresh : BOOLEAN, lock : Holders]
      BY <1>1, <3>1 DEF GenerationExpires, TypeOK
    <3> QED
      BY <1>1, <3>2 DEF GenerationExpires, TypeOK
  <2>2. /\ UNCHANGED <<request, bulkhead, connections, guard, objects, publisher>>
        /\ known'.lock = known.lock /\ known'.fresh = FALSE /\ known'.generation = 0
    BY <1>1 DEF GenerationExpires, TypeOK
  <2>3. SessionOpened'
    BY <2>2 DEF SessionOpened, Publishing, At
  <2>4. Past'
    BY <2>2 DEF Past, At, TypeOK, Generations
  <2>5. Current'
    BY <2>2 DEF Current, At, Inside, IsGuarded
  <2> QED
    BY <2>1, <2>2, <2>3, <2>4, <2>5, EnvironmentQuiet
<1>2. CASE \E g \in Generations : RowsExpire(g)
  <2> PICK g \in Generations : RowsExpire(g)
    BY <1>2
  <2>1. TypeOK'
    BY DEF RowsExpire, TypeOK
  <2>2. /\ UNCHANGED <<request, bulkhead, connections, guard, known, publisher>>
        /\ objects' = [objects EXCEPT ![g] = NoRows]
    BY DEF RowsExpire
  <2>3. SessionOpened' /\ Current'
    BY <2>2 DEF SessionOpened, Publishing, At, Current, Inside, IsGuarded
  <2>4. Past'
    BY <2>2 DEF Past, At, TypeOK
  <2> QED
    BY <2>1, <2>2, <2>3, <2>4, EnvironmentQuiet
<1>3. CASE LoseSession
  <2>1. TypeOK'
    BY <1>3 DEF LoseSession, TypeOK
  <2>2. /\ UNCHANGED <<request, bulkhead, connections, known, objects, publisher>>
        /\ guard.session = "open" /\ guard'.session = "broken"
        /\ guard'.gate = guard.gate /\ guard'.readers = guard.readers
    BY <1>3 DEF LoseSession, TypeOK
  <2>3. /\ TypeOK' /\ \A r \in Requests : LocalsOK(r)'
        /\ MutexesHeld' /\ PermitsConserved' /\ SessionAsLongAsNeeded'
        /\ \A r \in Requests : At(r, "open")' => guard'.session = "none"
    BY <2>1, <2>2, EnvironmentQuiet
  <2>4. SessionOpened' /\ Current'
    BY <2>2, <2>3 DEF SessionOpened, Publishing, Current
  <2>5. Past'
    BY <2>2 DEF Past, At
  <2> QED
    BY <2>3, <2>4, <2>5
<1>4. CASE Announce \/ TakeLock \/ Finish \/ Die
  <2>1. TypeOK'
    <3>1. publisher' \in [phase : {"idle", "draining", "publishing", "published"},
                          marker : BOOLEAN, generation : Generations]
      <4>1. publisher.generation \in Generations
        BY DEF TypeOK
      <4>2. PICK phase \in {"idle", "draining", "publishing"}, marker \in BOOLEAN :
                publisher' = [phase |-> phase, marker |-> marker, generation |-> publisher.generation]
        BY <1>4 DEF Announce, TakeLock, Finish, Die, PublisherMoves
      <4> QED
        BY <4>1, <4>2
    <3>2. UNCHANGED <<request, bulkhead, connections, guard, known, objects>>
      BY <1>4 DEF Announce, TakeLock, Finish, Die, PublisherMoves
    <3> QED
      BY <3>1, <3>2 DEF TypeOK
  <2>2. /\ UNCHANGED <<request, bulkhead, connections, guard, known, objects>>
        /\ publisher'.generation = publisher.generation
        /\ publisher'.phase \in {"publishing", "published"} =>
              Publishing \/ guard.session # "open"
    BY <1>4 DEF Announce, TakeLock, Finish, Die, PublisherMoves, Publishing
  <2>3. SessionOpened'
    BY <2>2 DEF SessionOpened, Publishing, At
  <2>4. Past'
    BY <2>2 DEF Past, At
  <2>5. Current'
    BY <2>2 DEF Current, At, Inside, IsGuarded
  <2> QED
    BY <2>1, <2>2, <2>3, <2>4, <2>5, EnvironmentQuiet
<1>5. CASE Publish
  <2>1. TypeOK'
    BY <1>5, GenerationsAssumption DEF Publish, PublisherMoves, TypeOK, Generations
  <2>2. /\ UNCHANGED <<request, bulkhead, connections, guard, known, objects>>
        /\ publisher.generation \in Nat
        /\ publisher'.generation = publisher.generation + 1
        /\ Publishing /\ guard.session # "open"
    BY <1>5 DEF Publish, PublisherMoves, Publishing, SessionOpened, TypeOK, Generations
  <2>3. SessionOpened' /\ Current'
    BY <2>2 DEF SessionOpened, Current, Publishing, At
  <2>4. Past'
    <3>1. /\ request \in [Requests -> RequestType] /\ Generations \subseteq Nat
          /\ known.generation \in Nat /\ \A g \in Generations : objects[g] # NoRows => objects[g] \in Nat
      BY DEF TypeOK, RequestType, Generations
    <3>2. \A n \in Nat : n <= publisher.generation => n <= publisher'.generation
      BY <2>2
    <3>3. \A r \in Requests : /\ request[r].entry \in Nat /\ request[r].generation \in Nat
                              /\ request[r].read \in Nat
      BY <3>1 DEF RequestType
    <3> QED
      BY <2>2, <3>1, <3>2, <3>3 DEF Past, At
  <2> QED
    BY <2>1, <2>2, <2>3, <2>4, EnvironmentQuiet
<1> QED
  BY <1>1, <1>2, <1>3, <1>4, <1>5 DEF Environment

LEMMA InitInv == Init => Inv
<1> SUFFICES ASSUME Init
             PROVE  Inv
  OBVIOUS
<1>1. 0 \in Generations /\ Generations \subseteq Nat
  BY GenerationsAssumption DEF Generations
<1>2. /\ PermitLimit \in [Lanes -> Nat] /\ QueueLimit \in [Lanes -> Nat] /\ AggregateLimit \in Nat
      /\ ConnectionLimit \in Nat
  BY OptionsAssumption
<1>3. \A r \in Requests : request[r] = Idle
  BY DEF Init
<1>4. TypeOK
  BY <1>1, <1>2 DEF Init, TypeOK, Idle, Phases, Holders
<1>5. (\A r \in Requests : LocalsOK(r)) /\ MutexesHeld /\ SessionOpened /\ Current
  BY <1>3, RequestsAssumption
     DEF Init, LocalsOK, MutexesHeld, SessionOpened, Current, Idle, Deciding, Filling, At, Publishing
<1>6. Past
  BY <1>1, <1>3 DEF Init, Past, Idle, At
<1>7. /\ \A l \in Lanes : Admitted(l) = {} /\ Executing(l) = {}
      /\ Aggregated = {} /\ Connected = {} /\ Readers = {}
  BY <1>3 DEF Admitted, Executing, Aggregated, Connected, Readers, Inside, Idle, At
<1>8. PermitsConserved
  <2>1. ASSUME NEW l \in Lanes
        PROVE  /\ bulkhead.admission[l] + Cardinality(Admitted(l)) = PermitLimit[l] + QueueLimit[l]
               /\ bulkhead.execution[l] + Cardinality(Executing(l)) = PermitLimit[l]
    <3>1. /\ bulkhead.admission[l] = PermitLimit[l] + QueueLimit[l]
          /\ bulkhead.execution[l] = PermitLimit[l]
          /\ PermitLimit[l] + QueueLimit[l] \in Nat /\ PermitLimit[l] \in Nat
      BY <1>2 DEF Init
    <3>2. Cardinality(Admitted(l)) = 0 /\ Cardinality(Executing(l)) = 0
      BY <1>7, FS_EmptySet
    <3> QED
      BY <3>1, <3>2
  <2>2. bulkhead.aggregate = AggregateLimit /\ connections = ConnectionLimit
    BY DEF Init
  <2>3. Cardinality(Aggregated) = 0 /\ Cardinality(Connected) = 0
    BY <1>7, FS_EmptySet
  <2> QED
    BY <1>2, <2>1, <2>2, <2>3, Conserved
<1>9. SessionAsLongAsNeeded
  BY <1>3, <1>7, FS_EmptySet, SessionNeeded DEF Init, Inside, Asking, Idle
<1> QED
  BY <1>4, <1>5, <1>6, <1>8, <1>9 DEF Inv

LEMMA StepInv == Inv /\ [Next]_vars => Inv'
<1> SUFFICES ASSUME Inv, [Next]_vars
             PROVE  Inv'
  OBVIOUS
<1>1. CASE \E r \in Requests : StepOf(r)
  BY <1>1, RequestInv
<1>2. CASE Environment
  BY <1>2, EnvironmentInv
<1>3. CASE UNCHANGED vars
  <2>1. UNCHANGED <<request, bulkhead, connections, guard, known, objects, publisher>>
    BY <1>3 DEF vars
  <2>2. TypeOK'
    BY <2>1 DEF Inv, TypeOK
  <2>3. SessionOpened' /\ Past' /\ Current'
    BY <2>1 DEF Inv, SessionOpened, Past, Current, Publishing, At, Inside, IsGuarded
  <2> QED
    BY <2>1, <2>2, <2>3, EnvironmentQuiet DEF Inv
<1> QED
  BY <1>1, <1>2, <1>3 DEF Next, StepOf

LEMMA Invariance == Spec => []Inv
BY InitInv, StepInv, PTL DEF Spec

-----------------------------------------------------------------------------
(* What it gives                                                            *)

\* Every variable keeps its type, whatever the number of requests and lanes.
THEOREM TypeCorrectness == Spec => []TypeOK
<1>1. Inv => TypeOK
  BY DEF Inv
<1> QED
  BY <1>1, Invariance, PTL

\* However a request leaves a lane (answered, rejected, timed out, aborted, failed),
\* the finally blocks give back exactly what it had taken: places, permits, connections
\* (ApiBulkheadMiddleware.cs:231).
THEOREM PermitsAreConserved == Spec => []PermitsConserved
<1>1. Inv => PermitsConserved
  BY DEF Inv
<1> QED
  BY <1>1, Invariance, PTL

\* The guard's session is open exactly while a reader is inside or one is being
\* let in, so the shared lock is neither dropped under a reader nor left behind
\* (RecommendationPublicationGuard.cs:72-94).
THEOREM SessionExactlyWhileNeeded == Spec => []SessionAsLongAsNeeded
<1>1. Inv => SessionAsLongAsNeeded
  BY DEF Inv
<1> QED
  BY <1>1, Invariance, PTL

\* While the session is open no reader is handed a generation, or rows from the
\* database or the cache, other than those it was let in with.
THEOREM OneGeneration == Spec => []OneGenerationPerRequest
<1>1. Inv => OneGenerationPerRequest
  <2> SUFFICES ASSUME Inv, NEW r \in Requests, Inside(r), guard.session = "open"
               PROVE  /\ request[r].entry = publisher.generation
                      /\ At(r, "rows") => objects[request[r].generation] \in {request[r].entry, NoRows}
                      /\ At(r, "cache") => request[r].read = request[r].entry
    BY DEF OneGenerationPerRequest
  <2>1. request[r].entry = publisher.generation
    BY DEF Inv, Current
  <2>2. At(r, "cache") => request[r].read = publisher.generation
    BY DEF Inv, Current
  <2>3. At(r, "rows") => request[r].generation = publisher.generation
    BY DEF Inv, Current
  <2>4. /\ publisher.generation \in Generations /\ Generations \subseteq Nat
        /\ objects \in [Generations -> Generations \cup {NoRows}]
    BY DEF Inv, TypeOK, Generations
  <2>5. objects[publisher.generation] # NoRows => objects[publisher.generation] = publisher.generation
    <3> DEFINE g == publisher.generation
               rows == objects[g]
    <3>1. rows # NoRows => g <= rows /\ rows <= g
      BY <2>4 DEF Inv, Past
    <3>2. rows # NoRows => rows \in Nat /\ g \in Nat
      BY <2>4
    <3> QED
      BY <3>1, <3>2
  <2> QED
    BY <2>1, <2>2, <2>3, <2>5
<1> QED
  BY <1>1, Invariance, PTL
=============================================================================
