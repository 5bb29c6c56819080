----------------------------- MODULE ApiRequests -----------------------------
(***************************************************************************)
(* A request on its way through the API: the bulkhead                      *)
(* (Middleware/ApiBulkheadMiddleware.cs), the guard that keeps             *)
(* recommendations away from a publication in progress                     *)
(* (RecommendationPublicationMiddleware.cs,                                *)
(* Services/RecommendationPublicationGuard.cs), and the queries of its     *)
(* endpoint with the caches they fill (Services/DbService.cs).             *)
(*                                                                         *)
(* Each action is the code between two awaits that can suspend. A          *)
(* SemaphoreSlim is the number of its free permits; the two that are       *)
(* mutexes name their holder. The publisher belongs to another repository: *)
(* it is modelled from what the guard expects of it, a marker row, an      *)
(* exclusive advisory lock and a new generation.                           *)
(***************************************************************************)
EXTENDS Integers, FiniteSets

CONSTANTS
    Requests,          \* connections, each with one request after the other
    Endpoints,
    Guarded,           \* the endpoints under /api/recommend
    Lanes,
    LaneOf,            \* ApiBulkheadMiddleware.Classify, without the bypass
    PermitLimit, QueueLimit,      \* per lane
    AggregateLimit,
    ConnectionLimit,   \* the foreground share of the connection pool
    Nobody,
    NoRows,
    MaxGeneration      \* bound: publications that change something

\* ApiBulkheadOptions.FromConfiguration refuses anything else.
ASSUME OptionsAssumption ==
    /\ PermitLimit \in [Lanes -> 1 .. AggregateLimit]
    /\ QueueLimit \in [Lanes -> Nat]
    /\ AggregateLimit \in Nat \ {0}
    /\ ConnectionLimit \in Nat /\ AggregateLimit <= ConnectionLimit
ASSUME RequestsAssumption ==
    /\ IsFiniteSet(Requests) /\ Guarded \subseteq Endpoints
    /\ LaneOf \in [Endpoints -> Lanes]
    /\ Nobody \notin Requests \cup Endpoints
ASSUME GenerationsAssumption == MaxGeneration \in Nat /\ NoRows \notin Nat

VARIABLES
    request,      \* request -> where it stands and its local variables
    bulkhead,     \* the free permits of the lanes and of the aggregate
    connections,  \* the free foreground connections
    guard,        \* the publication guard's gate, session and count of readers
    known,        \* DbService's copy of the generation, and the lock it is filled under
    objects,      \* generation -> the generation of the rows cached under its keys
    publisher     \* where the publication stands, its marker and the generation

vars == <<request, bulkhead, connections, guard, known, objects, publisher>>

Phases == {"idle", "lane", "aggregate", "gate", "open", "snapshot", "observe",
           "endpoint", "fetch", "store", "rows", "cache", "exit", "finally"}
Generations == 0 .. MaxGeneration
Holders == Requests \cup {Nobody}

Idle == [phase |-> "idle", endpoint |-> Nobody,
         laneExecuting |-> FALSE, aggregateExecuting |-> FALSE,
         entry |-> 0, generation |-> 0, read |-> 0]

Init ==
    /\ request = [r \in Requests |-> Idle]
    /\ bulkhead = [admission |-> [l \in Lanes |-> PermitLimit[l] + QueueLimit[l]],
                   execution |-> PermitLimit,
                   aggregate |-> AggregateLimit]
    /\ connections = ConnectionLimit
    /\ guard = [gate |-> Nobody, session |-> "none", readers |-> 0]
    /\ known = [generation |-> 0, fresh |-> FALSE, lock |-> Nobody]
    /\ objects = [g \in Generations |-> NoRows]
    /\ publisher = [phase |-> "idle", marker |-> FALSE, generation |-> 0]

------------------------------------------------------------------------------
(* The bulkhead                                                             *)

At(r, phase) == request[r].phase = phase
Move(r, phase) == request' = [request EXCEPT ![r].phase = phase]

\* The locals of the endpoint die with it.
Forget(r, phase) == request' = [request EXCEPT ![r] =
    [@ EXCEPT !.phase = phase, !.entry = 0, !.generation = 0, !.read = 0]]

IsGuarded(r) == request[r].endpoint \in Guarded
Lane(r) == LaneOf[request[r].endpoint]

\* TryAdmit never waits: a full lane rejects at once.
Arrive(r, endpoint) ==
    /\ At(r, "idle")
    /\ bulkhead.admission[LaneOf[endpoint]] > 0
    /\ bulkhead' = [bulkhead EXCEPT !.admission[LaneOf[endpoint]] = @ - 1]
    /\ request' = [request EXCEPT ![r].phase = "lane", ![r].endpoint = endpoint]
    /\ UNCHANGED <<connections, guard, known, objects, publisher>>

EnterLaneAtOnce(r) ==
    /\ At(r, "lane")
    /\ bulkhead' = [bulkhead EXCEPT !.execution[Lane(r)] = @ - 1]
    /\ request' = [request EXCEPT ![r].phase = "aggregate", ![r].laneExecuting = TRUE]
    /\ UNCHANGED <<connections, guard, known, objects, publisher>>

EnterLane(r) ==
    /\ At(r, "lane")
    /\ bulkhead.execution[Lane(r)] > 0
    /\ bulkhead' = [bulkhead EXCEPT !.execution[Lane(r)] = @ - 1]
    /\ request' = [request EXCEPT ![r].phase = "aggregate", ![r].laneExecuting = TRUE]
    /\ UNCHANGED <<connections, guard, known, objects, publisher>>

EnterAggregate(r) ==
    /\ At(r, "aggregate")
    /\ bulkhead.aggregate > 0
    /\ bulkhead' = [bulkhead EXCEPT !.aggregate = @ - 1]
    /\ request' = [request EXCEPT ![r].phase = IF IsGuarded(r) THEN "gate" ELSE "endpoint",
                                  ![r].aggregateExecuting = TRUE]
    /\ UNCHANGED <<connections, guard, known, objects, publisher>>

\* The queue timeout, or the client's abort, whichever of the two waits it ends.
GiveUpQueueing(r) ==
    /\ At(r, "lane") \/ At(r, "aggregate")
    /\ Move(r, "finally")
    /\ UNCHANGED <<bulkhead, connections, guard, known, objects, publisher>>

\* The finally block of InvokeAsync gives back what the flags say was taken.
Held(flag) == IF flag THEN 1 ELSE 0

ReleaseUnchecked(r) ==
    /\ At(r, "finally")
    /\ bulkhead' = [bulkhead EXCEPT !.aggregate = @ + Held(request[r].laneExecuting),
                                    !.execution[Lane(r)] = @ + Held(request[r].laneExecuting),
                                    !.admission[Lane(r)] = @ + 1]
    /\ request' = [request EXCEPT ![r] = Idle]
    /\ UNCHANGED <<connections, guard, known, objects, publisher>>

Release(r) ==
    /\ At(r, "finally")
    /\ bulkhead' = [bulkhead EXCEPT !.aggregate = @ + Held(request[r].aggregateExecuting),
                                    !.execution[Lane(r)] = @ + Held(request[r].laneExecuting),
                                    !.admission[Lane(r)] = @ + 1]
    /\ request' = [request EXCEPT ![r] = Idle]
    /\ UNCHANGED <<connections, guard, known, objects, publisher>>

------------------------------------------------------------------------------
(* The publication guard                                                    *)

\* TryEnterAsync waits for the gate and keeps it until it has decided.
EnterGate(r) ==
    /\ At(r, "gate") /\ guard.gate = Nobody
    /\ guard' = [guard EXCEPT !.gate = r]
    /\ Move(r, IF guard.session = "none" THEN "open" ELSE "snapshot")
    /\ UNCHANGED <<bulkhead, connections, known, objects, publisher>>

AbortAtGate(r) ==
    /\ At(r, "gate")
    /\ Move(r, "finally")
    /\ UNCHANGED <<bulkhead, connections, guard, known, objects, publisher>>

\* The exclusive lock is held from the end of the drain to the end of the work.
Publishing == publisher.phase \in {"publishing", "published"}

\* pg_advisory_lock_shared waits for a publisher that holds the lock.
OpenSession(r) ==
    /\ At(r, "open") /\ ~Publishing
    /\ guard' = [guard EXCEPT !.session = "open"]
    /\ Move(r, "snapshot")
    /\ UNCHANGED <<bulkhead, connections, known, objects, publisher>>

KeepSession == [guard EXCEPT !.gate = Nobody]

\* Without readers the session is closed, which releases the shared lock; then the
\* gate is given up.
LeaveGate == [guard EXCEPT !.gate = Nobody,
                           !.session = IF guard.readers = 0 THEN "none" ELSE @]

\* The marker is there: no lease.
Refuse(r) ==
    /\ At(r, "snapshot") /\ guard.session = "open" /\ publisher.marker
    /\ guard' = LeaveGate
    /\ Move(r, "finally")
    /\ UNCHANGED <<bulkhead, connections, known, objects, publisher>>

ReadUnmarked(r) ==
    /\ At(r, "snapshot") /\ guard.session = "open"
    /\ request' = [request EXCEPT ![r].phase = "observe", ![r].entry = publisher.generation]
    /\ UNCHANGED <<bulkhead, connections, guard, known, objects, publisher>>

ReadSnapshot(r) ==
    /\ At(r, "snapshot") /\ guard.session = "open" /\ ~publisher.marker
    /\ request' = [request EXCEPT ![r].phase = "observe", ![r].entry = publisher.generation]
    /\ UNCHANGED <<bulkhead, connections, guard, known, objects, publisher>>

\* The catch block: opening or reading failed, or the client went away while
\* one of the three awaits was pending. A broken session leaves no other way.
FailAcquisition(r) ==
    /\ At(r, "open") \/ At(r, "snapshot") \/ At(r, "observe")
    /\ guard' = LeaveGate
    /\ Forget(r, "finally")
    /\ UNCHANGED <<bulkhead, connections, known, objects, publisher>>

\* ObserveRecommendationPublicationGenerationAsync waits for the lock under which
\* others fill the copy; then the reader is counted and the gate given up.
ObserveAnyway(r) ==
    /\ At(r, "observe")
    /\ known' = [known EXCEPT !.generation = request[r].entry, !.fresh = TRUE]
    /\ guard' = [guard EXCEPT !.readers = @ + 1, !.gate = Nobody]
    /\ Move(r, "endpoint")
    /\ UNCHANGED <<bulkhead, connections, objects, publisher>>

ObserveGeneration(r) ==
    /\ At(r, "observe") /\ known.lock = Nobody
    /\ known' = [known EXCEPT !.generation = request[r].entry, !.fresh = TRUE]
    /\ guard' = [guard EXCEPT !.readers = @ + 1, !.gate = Nobody]
    /\ Move(r, "endpoint")
    /\ UNCHANGED <<bulkhead, connections, objects, publisher>>

\* ExitAsync, on every way out of the endpoint.
Exit(r) ==
    /\ At(r, "exit")
    /\ IF IsGuarded(r)
       THEN /\ guard.gate = Nobody
            /\ guard' = [guard EXCEPT !.readers = @ - 1,
                                      !.session = IF guard.readers = 1 THEN "none" ELSE @]
       ELSE UNCHANGED guard
    /\ Forget(r, "finally")
    /\ UNCHANGED <<bulkhead, connections, known, objects, publisher>>

------------------------------------------------------------------------------
(* The endpoint: a query, keyed by the generation, that stands for each of  *)
(* its queries, since it comes at any time after the request was let in     *)

\* GetRecommendationPublicationGenerationAsync: the copy while it is fresh.
UseKnownGeneration(r) ==
    /\ At(r, "endpoint") /\ known.fresh
    /\ request' = [request EXCEPT ![r].phase = "rows", ![r].generation = known.generation]
    /\ UNCHANGED <<bulkhead, connections, guard, known, objects, publisher>>

\* Otherwise the lock, a second look at the copy, a connection and a query.
LockGeneration(r) ==
    /\ At(r, "endpoint") /\ ~known.fresh /\ known.lock = Nobody
    /\ known' = [known EXCEPT !.lock = r]
    /\ Move(r, "fetch")
    /\ UNCHANGED <<bulkhead, connections, guard, objects, publisher>>

FetchGeneration(r) ==
    /\ At(r, "fetch") /\ connections > 0
    /\ connections' = connections - 1
    /\ request' = [request EXCEPT ![r].phase = "store", ![r].generation = publisher.generation]
    /\ UNCHANGED <<bulkhead, guard, known, objects, publisher>>

StoreGeneration(r) ==
    /\ At(r, "store")
    /\ known' = [generation |-> request[r].generation, fresh |-> TRUE, lock |-> Nobody]
    /\ connections' = connections + 1
    /\ Move(r, "rows")
    /\ UNCHANGED <<bulkhead, guard, objects, publisher>>

\* The rows of a song: from the cache, or from a query whose result is cached.
UseCachedRows(r) ==
    /\ At(r, "rows") /\ objects[request[r].generation] # NoRows
    /\ Move(r, "exit")
    /\ UNCHANGED <<bulkhead, connections, guard, known, objects, publisher>>

QueryRows(r) ==
    /\ At(r, "rows") /\ objects[request[r].generation] = NoRows /\ connections > 0
    /\ connections' = connections - 1
    /\ request' = [request EXCEPT ![r].phase = "cache", ![r].read = publisher.generation]
    /\ UNCHANGED <<bulkhead, guard, known, objects, publisher>>

CacheRows(r) ==
    /\ At(r, "cache")
    /\ connections' = connections + 1
    /\ objects' = [objects EXCEPT ![request[r].generation] = request[r].read]
    /\ Move(r, "exit")
    /\ UNCHANGED <<bulkhead, guard, known, publisher>>

\* A query fails or the client goes away: the finally blocks and usings on the
\* way out give back the lock and the connection.
LeakLock(r) ==
    /\ \E phase \in {"endpoint", "fetch", "store", "rows", "cache"} : At(r, phase)
    /\ connections' = connections + (IF At(r, "store") \/ At(r, "cache") THEN 1 ELSE 0)
    /\ Move(r, "exit")
    /\ UNCHANGED <<bulkhead, guard, known, objects, publisher>>

FailQuery(r) ==
    /\ \E phase \in {"endpoint", "fetch", "store", "rows", "cache"} : At(r, phase)
    /\ connections' = connections + (IF At(r, "store") \/ At(r, "cache") THEN 1 ELSE 0)
    /\ known' = [known EXCEPT !.lock = IF @ = r THEN Nobody ELSE @]
    /\ Move(r, "exit")
    /\ UNCHANGED <<bulkhead, guard, objects, publisher>>

------------------------------------------------------------------------------
(* Time, the network, and the publisher                                     *)

\* Five seconds after it was stored; nobody looks at the old value again.
GenerationExpires ==
    /\ known.fresh
    /\ known' = [known EXCEPT !.fresh = FALSE, !.generation = 0]
    /\ UNCHANGED <<request, bulkhead, connections, guard, objects, publisher>>

RowsExpire(g) ==
    /\ objects[g] # NoRows
    /\ objects' = [objects EXCEPT ![g] = NoRows]
    /\ UNCHANGED <<request, bulkhead, connections, guard, known, publisher>>

\* The connection of the session breaks: the database drops its lock, and the
\* guard notices at the next query over it.
LoseSession ==
    /\ guard.session = "open"
    /\ guard' = [guard EXCEPT !.session = "broken"]
    /\ UNCHANGED <<request, bulkhead, connections, known, objects, publisher>>

PublisherMoves(phase, marker, generation) ==
    /\ publisher' = [phase |-> phase, marker |-> marker, generation |-> generation]
    /\ UNCHANGED <<request, bulkhead, connections, guard, known, objects>>

Announce ==
    /\ publisher.phase = "idle"
    /\ PublisherMoves("draining", TRUE, publisher.generation)

TakeLock ==
    /\ publisher.phase = "draining" /\ guard.session # "open"
    /\ PublisherMoves("publishing", TRUE, publisher.generation)

Publish ==
    /\ publisher.phase = "publishing" /\ publisher.generation < MaxGeneration
    /\ PublisherMoves("published", TRUE, publisher.generation + 1)

\* The end of the publication, whether it has changed anything or not.
Finish ==
    /\ Publishing
    /\ PublisherMoves("idle", FALSE, publisher.generation)

\* The publisher dies, and its marker stays until the next publication ends.
Die ==
    /\ publisher.phase # "idle"
    /\ PublisherMoves("idle", TRUE, publisher.generation)

------------------------------------------------------------------------------
\* Steps that nothing can disable but themselves.
RequestStep(r) ==
    \/ EnterLane(r) \/ EnterAggregate(r) \/ GiveUpQueueing(r) \/ Release(r)
    \/ Refuse(r) \/ ReadSnapshot(r) \/ StoreGeneration(r) \/ CacheRows(r)
    \/ guard.session = "broken" /\ FailAcquisition(r)

\* Waits for the gate, the lock of the generation, the database's lock or a
\* connection, each served in order.
Wait(r) ==
    \/ EnterGate(r) \/ OpenSession(r) \/ ObserveGeneration(r) \/ Exit(r)
    \/ UseKnownGeneration(r) \/ LockGeneration(r) \/ FetchGeneration(r)
    \/ UseCachedRows(r) \/ QueryRows(r)

Fail(r) == AbortAtGate(r) \/ FailAcquisition(r) \/ FailQuery(r)

Environment ==
    \/ GenerationExpires
    \/ \E g \in Generations : RowsExpire(g)
    \/ LoseSession
    \/ Announce \/ TakeLock \/ Publish \/ Finish \/ Die

Next ==
    \/ \E r \in Requests :
        \/ \E endpoint \in Endpoints : Arrive(r, endpoint)
        \/ RequestStep(r) \/ Wait(r) \/ Fail(r)
    \/ Environment

\* The code's own steps are taken, and a query over a broken connection fails.
\* A SemaphoreSlim and a PostgreSQL lock serve their queues in order, so that
\* whoever waits for one is not passed for ever; the publisher ends what it holds
\* the lock for.
Fairness ==
    /\ \A r \in Requests : WF_vars(RequestStep(r)) /\ SF_vars(Wait(r))
    /\ WF_vars(Finish)
    /\ SF_vars(TakeLock)

Spec == Init /\ [][Next]_vars /\ Fairness
------------------------------------------------------------------------------
(* Properties                                                               *)

\* Every variable keeps its type (all of the module).
TypeOK ==
    /\ request \in [Requests ->
            [phase : Phases, endpoint : Endpoints \cup {Nobody},
             laneExecuting : BOOLEAN, aggregateExecuting : BOOLEAN,
             entry : Generations, generation : Generations, read : Generations]]
    /\ bulkhead \in [admission : [Lanes -> Nat], execution : [Lanes -> Nat], aggregate : Nat]
    /\ connections \in Nat
    /\ guard \in [gate : Holders, session : {"none", "open", "broken"}, readers : Nat]
    /\ known \in [generation : Generations, fresh : BOOLEAN, lock : Holders]
    /\ objects \in [Generations -> Generations \cup {NoRows}]
    /\ publisher \in [phase : {"idle", "draining", "publishing", "published"},
                      marker : BOOLEAN, generation : Generations]

Count(P(_)) == Cardinality({r \in Requests : P(r)})

\* Inside the endpoint of a guarded request: where its lease is not yet disposed.
Inside(r) ==
    /\ IsGuarded(r)
    /\ request[r].phase \in {"endpoint", "fetch", "store", "rows", "cache", "exit"}

\* Whatever mix of rejections, queue timeouts, aborts and failures the requests
\* end in, every permit is with the request that has to give it back or free: no
\* lane loses or gains a place (the finally block at ApiBulkheadMiddleware.cs:231).
PermitsConserved ==
    /\ \A l \in Lanes :
        /\ bulkhead.admission[l] + Count(LAMBDA r : ~At(r, "idle") /\ Lane(r) = l)
            = PermitLimit[l] + QueueLimit[l]
        /\ bulkhead.execution[l]
              + Count(LAMBDA r : request[r].laneExecuting /\ Lane(r) = l)
            = PermitLimit[l]
    /\ bulkhead.aggregate + Count(LAMBDA r : request[r].aggregateExecuting) = AggregateLimit
    /\ connections + Count(LAMBDA r : At(r, "store") \/ At(r, "cache")) = ConnectionLimit

\* The shared session exists exactly as long as somebody needs it: it is there
\* while a reader is inside, and it is closed, and its lock released, by whoever
\* is last to leave, be it a reader, a refused request or a failed one
\* (RecommendationPublicationGuard.cs:72-94 and 104-107).
SessionAsLongAsNeeded ==
    /\ guard.readers = Count(Inside)
    /\ guard.session # "none" <=>
        \/ \E r \in Requests : Inside(r)
        \/ \E r \in Requests : At(r, "snapshot") \/ At(r, "observe")

\* A recommendation is made from one generation: as long as the session lives, the
\* rows it has been given, from the database or from a cache that other requests
\* fill under old and new generations, are those of the generation it was let in
\* with, which is still the published one (RecommendationPublicationGuard.cs:17-22).
OneGenerationPerRequest ==
    \A r \in Requests :
        Inside(r) /\ guard.session = "open" =>
            /\ request[r].entry = publisher.generation
            /\ At(r, "rows") => objects[request[r].generation] \in {request[r].entry, NoRows}
            /\ At(r, "cache") => request[r].read = request[r].entry

\* A request that has entered a lane is answered, whatever waits for what.
Answered(r) == ~At(r, "idle") ~> At(r, "idle")

\* A publication that waits for the readers to leave gets its lock although new
\* requests keep coming: they find the marker and are turned away
\* (RecommendationPublicationGuard.cs:74-79).
PublicationDrains == publisher.phase = "draining" ~> publisher.phase # "draining"
=============================================================================
