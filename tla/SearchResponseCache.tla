------------------------ MODULE SearchResponseCache ------------------------
(***************************************************************************)
(* The single-flight response cache of the API                             *)
(* (backend/api/VocadbRecommender/Services/SearchResponseCache.cs), for    *)
(* one key. The search responses and the rankings run the same code twice  *)
(* with other lifetimes; keys share nothing but the size limit, which is   *)
(* the choice of Publish to refuse an entry.                               *)
(*                                                                         *)
(* A request reads the cache, joins the load in flight for its key or      *)
(* starts one, waits, and leaves. Each step below is one access to the     *)
(* cache, one operation of the concurrent dictionary, or one critical      *)
(* section of a flight's gate; threads interleave between them.            *)
(***************************************************************************)
EXTENDS Integers, Sequences, FiniteSets

CONSTANTS
    Requests,     \* one call of GetOrCreateAsync each
    Warmups,      \* those of the warmup, which force a new load
    NoFlight,
    NoEntry

ASSUME RequestsAssumption == IsFiniteSet(Requests) /\ Warmups \subseteq Requests
ASSUME SentinelAssumption == NoFlight \notin Nat /\ NoEntry \notin Nat

VARIABLES
    request,   \* request -> where it stands, and the load (before a refresh, the
               \* stale entry) it deals with
    flights,   \* every load created, in order: at most one per request
    loads,     \* the load registered for the key
    cache      \* the entry of the key; its id is the load that stored it

vars == <<request, flights, loads, cache>>

Phases == {"idle", "refresh", "get", "join", "replace", "add", "first",
           "start", "waiting", "leaving", "cancel", "answered"}
Over == {"ok", "failed", "cancelled"}
Answers == {"none", "ended", "cancelled", "rejected"}
Tasks == {"none", "scheduled", "loading", "checked", "published"} \cup Over

Flight == [refreshing : BOOLEAN, forced : BOOLEAN, stale : Nat \cup {NoEntry},
           waiters : SUBSET Requests, accepting : BOOLEAN, abandoned : BOOLEAN,
           cancelled : BOOLEAN, task : Tasks,
           observer : {"none", "watching", "marked", "gone"}]

\* The entry an earlier load left: load 0.
Preloaded == [id |-> 0, fresh |-> FALSE, backoff |-> FALSE]

Init ==
    /\ request = [r \in Requests |-> [phase |-> "idle", flight |-> NoFlight,
                                      owns |-> FALSE, answer |-> "none"]]
    /\ flights = <<>>
    /\ loads = NoFlight
    /\ cache \in {NoEntry, Preloaded}

------------------------------------------------------------------------------
(* Helpers                                                                  *)

NewFlight(refreshing, forced, stale) ==
    [refreshing |-> refreshing, forced |-> forced, stale |-> stale,
     waiters |-> {}, accepting |-> TRUE, abandoned |-> FALSE,
     cancelled |-> FALSE, task |-> "none", observer |-> "none"]

At(r, phase) == request[r].phase = phase
FlightOf(r) == flights[request[r].flight]
Move(r, phase) == request' = [request EXCEPT ![r].phase = phase]
End(r, answer) == request' = [request EXCEPT ![r] =
    [phase |-> "answered", flight |-> NoFlight, owns |-> FALSE, answer |-> answer]]

\* TryGetCached together with the freshness test of its callers.
Fresh == cache # NoEntry /\ cache.fresh

Id(entry) == IF entry = NoEntry THEN {} ELSE {entry.id}

\* Registering a new load under the key, where the dictionary still holds what
\* the caller saw there.
Register(r, flight, phase) ==
    /\ flights' = Append(flights, flight)
    /\ loads' = Len(flights) + 1
    /\ request' = [request EXCEPT ![r].phase = phase, ![r].flight = Len(flights) + 1,
                                  ![r].owns = TRUE]

------------------------------------------------------------------------------
(* A request                                                                *)

\* GetOrCreateAsync up to its first shared step. A stale hit is answered and
\* starts a refresh, unless the last refresh of that entry failed recently.
Lookup(r) ==
    /\ At(r, "idle")
    /\ \/ /\ r \in Warmups \/ cache = NoEntry
          /\ Move(r, "get")
       \/ /\ r \notin Warmups /\ cache # NoEntry
          /\ IF cache.fresh \/ cache.backoff
             THEN End(r, "ended")
             ELSE request' = [request EXCEPT ![r].phase = "refresh", ![r].flight = cache.id]
    /\ UNCHANGED <<flights, loads, cache>>

\* StartBackgroundRefresh: TryAdd of a flight no waiter can cancel, whose loader
\* is queued to the thread pool whoever starts it; the request has its answer.
AddRefresh(r) ==
    /\ At(r, "refresh")
    /\ \/ /\ loads # NoFlight
          /\ End(r, "ended")
          /\ UNCHANGED <<flights, loads>>
       \/ /\ loads = NoFlight
          /\ flights' = Append(flights, [NewFlight(TRUE, FALSE, request[r].flight) EXCEPT
                !.task = "scheduled", !.observer = "watching"])
          /\ loads' = Len(flights) + 1
          /\ End(r, "ended")
    /\ UNCHANGED cache

\* AcquireFlight: TryGetValue.
GetFlight(r) ==
    /\ At(r, "get")
    /\ IF loads = NoFlight
       THEN Move(r, "add")
       ELSE request' = [request EXCEPT ![r].phase = "join", ![r].flight = loads]
    /\ UNCHANGED <<flights, loads, cache>>

\* TryAcquire: a waiter is accepted until the flight is closed.
AlwaysAcquire(r) == TRUE
TryAcquire(r) == FlightOf(r).accepting
Acquire(r) ==
    flights' = [flights EXCEPT ![request[r].flight].waiters = @ \cup {r}]

Join(r) ==
    /\ At(r, "join")
    /\ IF TryAcquire(r)
       THEN Acquire(r) /\ Move(r, "start")
       ELSE Move(r, "replace") /\ UNCHANGED flights
    /\ UNCHANGED <<loads, cache>>

\* TryUpdate replaces a closed flight by identity; whoever loses starts over.
Replace(r) ==
    /\ At(r, "replace")
    /\ \/ /\ loads = request[r].flight
          /\ Register(r, NewFlight(FALSE, r \in Warmups, NoEntry), "first")
       \/ /\ loads # request[r].flight
          /\ Move(r, "get")
          /\ UNCHANGED <<flights, loads>>
    /\ UNCHANGED cache

Add(r) ==
    /\ At(r, "add")
    /\ \/ /\ loads = NoFlight
          /\ Register(r, NewFlight(FALSE, r \in Warmups, NoEntry), "first")
       \/ /\ loads # NoFlight
          /\ Move(r, "get")
          /\ UNCHANGED <<flights, loads>>
    /\ UNCHANGED cache

\* The creator becomes a waiter of its own flight, which others can see by now.
\* A refusal is thrown as "A new shared load rejected its first waiter."
FirstWaiter(r) ==
    /\ At(r, "first")
    /\ IF TryAcquire(r)
       THEN Acquire(r) /\ Move(r, "start")
       ELSE /\ flights' = [flights EXCEPT ![request[r].flight].accepting = FALSE,
                                          ![request[r].flight].observer = "marked"]
            /\ End(r, "rejected")
    /\ UNCHANGED <<loads, cache>>

\* LoadAfterCacheRecheckAsync: a fresh entry found now ends an ordinary load.
Rechecked(f) == IF ~flights[f].forced /\ Fresh THEN "ok" ELSE "loading"

\* Start: the first caller runs the lazy task. The creator also leaves behind the
\* observer that will clean up.
StartWatchedByStarter(r) ==
    /\ At(r, "start")
    /\ LET f == request[r].flight
       IN flights' = [flights EXCEPT
                ![f].task = IF @ = "none" THEN Rechecked(f) ELSE @,
                ![f].observer = IF request[r].owns /\ flights[f].task = "none"
                                THEN "watching" ELSE @]
    /\ Move(r, "waiting")
    /\ UNCHANGED <<loads, cache>>

Start(r) ==
    /\ At(r, "start")
    /\ LET f == request[r].flight
       IN flights' = [flights EXCEPT
                ![f].task = IF @ = "none" THEN Rechecked(f) ELSE @,
                ![f].observer = IF request[r].owns THEN "watching" ELSE @]
    /\ Move(r, "waiting")
    /\ UNCHANGED <<loads, cache>>

\* WaitAsync ends with the shared task or with the request's own abort.
Answered(r) ==
    /\ At(r, "waiting") /\ FlightOf(r).task \in Over
    /\ request' = [request EXCEPT ![r].phase = "leaving", 
            ![r].answer = IF FlightOf(r).task = "cancelled" THEN "cancelled" ELSE "ended"]
    /\ UNCHANGED <<flights, loads, cache>>

Abort(r) ==
    /\ At(r, "waiting")
    /\ request' = [request EXCEPT ![r].phase = "leaving", ![r].answer = "ended"]
    /\ UNCHANGED <<flights, loads, cache>>

\* ReleaseWaiter: the last waiter of a request's load closes the flight before
\* it cancels the loader.
Orphans(r) ==
    /\ FlightOf(r).waiters = {r} /\ ~FlightOf(r).refreshing
    /\ FlightOf(r).observer \notin {"marked", "gone"}
    /\ FlightOf(r).task \notin Over

Leave(r) ==
    /\ At(r, "leaving")
    /\ flights' = [flights EXCEPT
            ![request[r].flight].waiters = @ \ {r},
            ![request[r].flight].abandoned = @ \/ Orphans(r),
            ![request[r].flight].accepting = @ /\ ~Orphans(r)]
    /\ IF Orphans(r) THEN Move(r, "cancel") ELSE End(r, request[r].answer)
    /\ UNCHANGED <<loads, cache>>

CancelLoader(r) ==
    /\ At(r, "cancel")
    /\ flights' = [flights EXCEPT ![request[r].flight].cancelled = TRUE]
    /\ End(r, request[r].answer)
    /\ UNCHANGED <<loads, cache>>

------------------------------------------------------------------------------
(* A loader, and the observer of its end                                    *)

SetTask(f, task) == flights' = [flights EXCEPT ![f].task = task]

RunScheduled(f) ==
    /\ flights[f].task = "scheduled"
    /\ SetTask(f, Rechecked(f))
    /\ UNCHANGED <<request, loads, cache>>

\* LoadAndStoreAsync up to its check of the token, which the query itself also
\* observes: the query fails, is cancelled, or has a result to publish.
LoaderReturns(f) ==
    /\ flights[f].task = "loading"
    /\ \/ SetTask(f, "failed")
       \/ SetTask(f, IF flights[f].cancelled THEN "cancelled" ELSE "checked")
    /\ UNCHANGED <<request, loads, cache>>

\* TryPublish: nothing of an abandoned flight reaches the cache. A response that
\* is too large replaces the old entry by none.
AlwaysPublish(f) == TRUE
TryPublish(f) == ~flights[f].abandoned

Publish(f) ==
    /\ flights[f].task = "checked"
    /\ SetTask(f, "published")
    /\ \/ /\ TryPublish(f)
          /\ cache' \in {NoEntry, [id |-> f, fresh |-> TRUE, backoff |-> FALSE]}
       \/ ~TryPublish(f) /\ UNCHANGED cache
    /\ UNCHANGED <<request, loads>>

Return(f) ==
    /\ flights[f].task = "published"
    /\ SetTask(f, "ok")
    /\ UNCHANGED <<request, loads, cache>>

\* The observer of the task: a failed refresh puts off the next one of the entry
\* it was to replace; then CompleteFlight closes the flight, and takes it out of
\* the dictionary if it is still the one registered.
RecordsFailure(f) ==
    /\ flights[f].refreshing /\ flights[f].task # "ok"
    /\ cache # NoEntry /\ cache.id = flights[f].stale

MarkCompleted(f) ==
    /\ flights[f].observer = "watching" /\ flights[f].task \in Over
    /\ flights' = [flights EXCEPT ![f].observer = "marked", ![f].accepting = FALSE,
                                  ![f].stale = NoEntry]
    /\ cache' = IF RecordsFailure(f) THEN [cache EXCEPT !.backoff = TRUE] ELSE cache
    /\ UNCHANGED <<request, loads>>

RemoveByKey(f) ==
    /\ flights[f].observer = "marked"
    /\ flights' = [flights EXCEPT ![f].observer = "gone"]
    /\ loads' = NoFlight
    /\ UNCHANGED <<request, cache>>

RemoveFlight(f) ==
    /\ flights[f].observer = "marked"
    /\ flights' = [flights EXCEPT ![f].observer = "gone"]
    /\ loads' = IF loads = f THEN NoFlight ELSE loads
    /\ UNCHANGED <<request, cache>>

------------------------------------------------------------------------------
(* Time, and the memory cache                                               *)

GoStale ==
    /\ Fresh
    /\ cache' = [cache EXCEPT !.fresh = FALSE]
    /\ UNCHANGED <<request, flights, loads>>

BackoffOver ==
    /\ cache # NoEntry /\ cache.backoff
    /\ cache' = [cache EXCEPT !.backoff = FALSE]
    /\ UNCHANGED <<request, flights, loads>>

\* The stale lifetime ends, or another key needs the room.
Evict ==
    /\ cache # NoEntry
    /\ cache' = NoEntry
    /\ UNCHANGED <<request, flights, loads>>

------------------------------------------------------------------------------
RequestStep(r) ==
    \/ AddRefresh(r) \/ GetFlight(r) \/ Join(r) \/ Replace(r) \/ Add(r) \/ FirstWaiter(r)
    \/ Start(r) \/ Answered(r) \/ Leave(r) \/ CancelLoader(r)

FlightStep(f) ==
    \/ RunScheduled(f) \/ LoaderReturns(f) \/ Publish(f) \/ Return(f)
    \/ MarkCompleted(f) \/ RemoveFlight(f)

Time ==
    \/ GoStale
    \/ BackoffOver
    \/ Evict

Next ==
    \/ \E r \in Requests : \/ Lookup(r)
                           \/ RequestStep(r)
                           \/ Abort(r)
    \/ \E f \in DOMAIN flights : FlightStep(f)
    \/ Time

Spec == Init /\ [][Next]_vars
------------------------------------------------------------------------------
(* Properties                                                               *)

\* Every variable keeps its type (all of the module).
TypeOK ==
    /\ request \in [Requests ->
            [phase : Phases, flight : Nat \cup {NoFlight},
             owns : BOOLEAN, answer : Answers]]
    /\ flights \in Seq(Flight)
    /\ loads \in DOMAIN flights \cup {NoFlight}
    /\ cache \in [id : Nat, fresh : BOOLEAN, backoff : BOOLEAN] \cup {NoEntry}

Loading(f) == flights[f].task \in {"loading", "checked"}

\* A request that has not been aborted is never made to wait for a load that is
\* being cancelled, nor answered with somebody else's cancellation: whoever joins
\* while the last waiter leaves either keeps the load alive or finds it closed
\* (SearchResponseCache.cs:45-49 and 144-152).
NobodyJoinsADoomedLoad ==
    \A r \in Requests :
        /\ request[r].phase = "waiting" => ~FlightOf(r).abandoned
        /\ request[r].answer # "cancelled"

\* One query at a time: of the loads that are still wanted at most one runs its
\* query, however requests, refreshes and replacements of closed flights interleave
\* (SearchResponseCache.cs:893-916, test ColdMisses_AreSingleFlight).
OneLoadAtATime ==
    \A f, g \in DOMAIN flights :
        Loading(f) /\ Loading(g) /\ ~flights[f].abandoned /\ ~flights[g].abandoned => f = g

\* What reaches the cache was wanted: its load is a background refresh or has a
\* waiter at that moment, and unless a caller forced it, it does not replace an
\* entry that is still fresh (the recheck at SearchResponseCache.cs:555-571).
StoresWhatIsWanted ==
    [][\A f \in DOMAIN flights :
            cache' # NoEntry /\ cache'.id = f /\ Id(cache) # {f} =>
                /\ flights[f].refreshing \/ flights[f].waiters # {}
                /\ flights[f].forced \/ ~Fresh]_vars

\* A load never outlives the calls it was made for as a registration nobody will
\* remove, which would answer every later call with its old result: while it is in
\* the dictionary its observer runs or its creator is about to start one, although
\* the request that created it may be aborted or refused meanwhile
\* (SearchResponseCache.cs:411-421, 435-450 and 933-942).
RegisteredLoadIsWatched ==
    loads # NoFlight =>
        \/ flights[loads].observer \in {"watching", "marked"}
        \/ \E r \in Requests : /\ request[r].owns /\ request[r].flight = loads
                               /\ request[r].phase \in {"first", "start"}

\* What AcquireFlight asserts of a load it has just created: "A new shared load
\* rejected its first waiter." is thrown as an internal error.
FirstWaiterAccepted == \A r \in Requests : request[r].answer # "rejected"
=============================================================================
