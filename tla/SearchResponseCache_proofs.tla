--------------------- MODULE SearchResponseCache_proofs ---------------------
(***************************************************************************)
(* The single flight of the API's response cache, for any number of calls: *)
(* nobody waits for a load that is being cancelled, one wanted load runs   *)
(* its query at a time, and a registered load has somebody to remove it.   *)
(*                                                                         *)
(* The argument is about the gate of a flight.  It is closed with the      *)
(* decision to abandon the flight, or once its task is over, and never     *)
(* opened again; a request that has passed it is one of the waiters until  *)
(* it leaves.  So a flight that is wanted and not over is open, and only   *)
(* one that is closed is replaced or removed.                              *)
(***************************************************************************)
EXTENDS SearchResponseCache, SequenceTheorems, TLAPS

RequestType == [phase : Phases, flight : Nat \cup {NoFlight}, owns : BOOLEAN, answer : Answers]
CacheType == [id : Nat, fresh : BOOLEAN, backoff : BOOLEAN] \cup {NoEntry}

\* What a flight is at any time.
FlightOK(f) ==
    /\ flights[f].abandoned => ~flights[f].accepting
    /\ ~flights[f].accepting => flights[f].abandoned \/ flights[f].task \in Over
    /\ flights[f].cancelled => flights[f].abandoned
    /\ flights[f].task = "cancelled" => flights[f].cancelled
    /\ flights[f].observer = "marked" => ~flights[f].accepting
    /\ ~flights[f].abandoned /\ flights[f].task \notin Over => loads = f

\* What a request knows of the flight it deals with.
Holding == {"join", "replace", "first", "start", "waiting", "leaving", "cancel"}
RequestOK(r) ==
    /\ request[r].answer # "cancelled"
    /\ request[r].phase = "refresh" => request[r].flight \in Nat
    /\ request[r].phase \in Holding => request[r].flight \in DOMAIN flights
    /\ request[r].phase \in {"start", "waiting", "leaving"} => r \in FlightOf(r).waiters
    /\ request[r].phase \in {"start", "waiting"} => ~FlightOf(r).abandoned
    /\ request[r].phase = "replace" => ~FlightOf(r).accepting
    /\ request[r].phase = "cancel" => FlightOf(r).abandoned

Inv ==
    /\ TypeOK
    /\ \A f \in DOMAIN flights : FlightOK(f)
    /\ \A r \in Requests : RequestOK(r)
    /\ RegisteredLoadIsWatched

-----------------------------------------------------------------------------
(* Changing one flight, one request                                         *)

LEMMA FlightTypes ==
    ASSUME TypeOK
    PROVE  /\ DOMAIN flights = 1..Len(flights) /\ Len(flights) \in Nat
           /\ \A f \in DOMAIN flights : flights[f] \in Flight
BY LenProperties, ElementOfSeq DEF TypeOK

LEMMA FlightChanged ==
    ASSUME TypeOK, NEW f \in DOMAIN flights, NEW flight \in Flight,
           flights' = [flights EXCEPT ![f] = flight]
    PROVE  /\ flights' \in Seq(Flight) /\ DOMAIN flights' = DOMAIN flights
           /\ flights'[f] = flight
           /\ \A g \in DOMAIN flights : g # f => flights'[g] = flights[g]
<1>1. f \in 1..Len(flights)
  BY FlightTypes
<1>2. flights' \in Seq(Flight)
  BY <1>1, ExceptSeq DEF TypeOK
<1> QED
  BY <1>2

LEMMA FlightAdded ==
    ASSUME TypeOK, NEW flight \in Flight, flights' = Append(flights, flight)
    PROVE  /\ flights' \in Seq(Flight) /\ Len(flights) + 1 \in Nat
           /\ Len(flights) + 1 \notin DOMAIN flights
           /\ DOMAIN flights' = DOMAIN flights \cup {Len(flights) + 1}
           /\ flights'[Len(flights) + 1] = flight
           /\ \A g \in DOMAIN flights : flights'[g] = flights[g]
<1>1. flights \in Seq(Flight) /\ DOMAIN flights = 1..Len(flights) /\ Len(flights) \in Nat
  BY FlightTypes DEF TypeOK
<1>2. /\ flights' \in Seq(Flight) /\ Len(flights') = Len(flights) + 1
      /\ \A i \in 1..Len(flights) : flights'[i] = flights[i]
      /\ flights'[Len(flights) + 1] = flight
  BY <1>1, AppendProperties
<1>3. DOMAIN flights' = 1..(Len(flights) + 1)
  BY <1>2, LenProperties
<1> QED
  BY <1>1, <1>2, <1>3

LEMMA RequestChanged ==
    ASSUME TypeOK, NEW r \in Requests, NEW new \in RequestType,
           request' = [request EXCEPT ![r] = new]
    PROVE  /\ request' \in [Requests -> RequestType] /\ request'[r] = new
           /\ \A q \in Requests : q # r => request'[q] = request[q]
BY DEF TypeOK, RequestType

\* What a step may not do to a flight under the eyes of request q.
Kept(g, q) ==
    /\ flights[g].abandoned => flights'[g].abandoned
    /\ flights'[g].accepting => flights[g].accepting
    /\ q \in flights[g].waiters =>
          q \in flights'[g].waiters /\ (flights'[g].abandoned => flights[g].abandoned)

\* Requests that do not move keep what they know.
LEMMA RequestKept ==
    ASSUME NEW q \in Requests, RequestOK(q), request'[q] = request[q],
           DOMAIN flights \subseteq DOMAIN flights',
           \A g \in DOMAIN flights : Kept(g, q)
    PROVE  RequestOK(q)'
BY DEF RequestOK, Kept, FlightOf, Holding

\* A step that moves request r and touches no flight.
LEMMA RequestMoves ==
    ASSUME Inv, NEW r \in Requests, NEW new \in RequestType,
           request' = [request EXCEPT ![r] = new], UNCHANGED <<flights, loads>>,
           cache' \in CacheType, RequestOK(r)', request[r].phase \notin {"first", "start"}
    PROVE  Inv'
<1>1. /\ request' \in [Requests -> RequestType]
      /\ \A q \in Requests : q # r => request'[q] = request[q]
  BY RequestChanged DEF Inv
<1>2. TypeOK'
  BY <1>1 DEF Inv, TypeOK, RequestType, CacheType
<1>3. \A f \in DOMAIN flights' : FlightOK(f)'
  BY DEF Inv, FlightOK
<1>4. \A q \in Requests : RequestOK(q)'
  BY <1>1, RequestKept DEF Inv, Kept
<1>5. RegisteredLoadIsWatched'
  BY <1>1 DEF Inv, RegisteredLoadIsWatched
<1> QED
  BY <1>2, <1>3, <1>4, <1>5 DEF Inv

\* A step that touches one flight, and perhaps removes it.
LEMMA FlightMoves ==
    ASSUME Inv, NEW f \in DOMAIN flights, NEW flight \in Flight,
           flights' = [flights EXCEPT ![f] = flight],
           request' \in [Requests -> RequestType], cache' \in CacheType,
           loads' = loads \/ (loads = f /\ loads' = NoFlight),
           FlightOK(f)', \A q \in Requests : RequestOK(q)', RegisteredLoadIsWatched'
    PROVE  Inv'
<1>1. /\ flights' \in Seq(Flight) /\ DOMAIN flights' = DOMAIN flights
      /\ \A g \in DOMAIN flights : g # f => flights'[g] = flights[g]
  BY FlightChanged DEF Inv
<1>2. TypeOK'
  BY <1>1 DEF Inv, TypeOK, RequestType, CacheType
<1>3. \A g \in DOMAIN flights' : FlightOK(g)'
  BY <1>1 DEF Inv, FlightOK
<1> QED
  BY <1>2, <1>3 DEF Inv

\* A new flight, while no other one is wanted, over its registration.
LEMMA FlightJoins ==
    ASSUME Inv, NEW flight \in Flight, flights' = Append(flights, flight),
           loads' = Len(flights) + 1, UNCHANGED cache,
           flight.accepting, ~flight.abandoned, ~flight.cancelled,
           flight.task \notin Over, flight.observer # "marked",
           \A f \in DOMAIN flights : loads # f \/ flights[f].abandoned \/ flights[f].task \in Over,
           NEW r \in Requests, NEW new \in RequestType, request' = [request EXCEPT ![r] = new],
           RequestOK(r)', RegisteredLoadIsWatched'
    PROVE  Inv'
<1>1. /\ flights' \in Seq(Flight) /\ Len(flights) + 1 \in Nat
      /\ DOMAIN flights' = DOMAIN flights \cup {Len(flights) + 1}
      /\ flights'[Len(flights) + 1] = flight
      /\ \A g \in DOMAIN flights : flights'[g] = flights[g]
  BY FlightAdded DEF Inv
<1>2. /\ request' \in [Requests -> RequestType]
      /\ \A q \in Requests : q # r => request'[q] = request[q]
  BY RequestChanged DEF Inv
<1>3. TypeOK'
  BY <1>1, <1>2 DEF Inv, TypeOK, RequestType, CacheType
<1>4. \A g \in DOMAIN flights' : FlightOK(g)'
  <2> SUFFICES ASSUME NEW g \in DOMAIN flights'
               PROVE  FlightOK(g)'
    OBVIOUS
  <2>1. CASE g = Len(flights) + 1
    BY <1>1, <2>1 DEF FlightOK, Over
  <2>2. CASE g \in DOMAIN flights
    BY <1>1, <2>2 DEF Inv, FlightOK
  <2> QED
    BY <1>1, <2>1, <2>2
<1>5. \A q \in Requests : RequestOK(q)'
  BY <1>1, <1>2, RequestKept DEF Inv, Kept
<1> QED
  BY <1>3, <1>4, <1>5 DEF Inv

-----------------------------------------------------------------------------
(* The steps of a request                                                   *)

LEMMA CacheSame == Inv /\ UNCHANGED cache => cache' \in CacheType
BY DEF Inv, TypeOK, CacheType

\* Where a request goes that holds no flight yet.
LEMMA MoveIs ==
    ASSUME Inv, NEW r \in Requests, NEW phase \in Phases, Move(r, phase)
    PROVE  LET new == [request[r] EXCEPT !.phase = phase]
           IN  /\ new \in RequestType /\ request' = [request EXCEPT ![r] = new]
               /\ request'[r] = new
               /\ request'[r].phase = phase /\ request'[r].flight = request[r].flight
               /\ request'[r].owns = request[r].owns /\ request'[r].answer = request[r].answer
BY DEF Inv, TypeOK, RequestType, Move

LEMMA EndIs ==
    ASSUME Inv, NEW r \in Requests, NEW answer \in Answers, answer # "cancelled", End(r, answer)
    PROVE  LET new == [phase |-> "answered", flight |-> NoFlight, owns |-> FALSE, answer |-> answer]
           IN  /\ new \in RequestType /\ request' = [request EXCEPT ![r] = new]
               /\ request'[r] = new /\ RequestOK(r)'
BY DEF Inv, TypeOK, RequestType, End, RequestOK, Phases, Holding

\* A move to a phase without a flight.
LEMMA FreeMove ==
    ASSUME Inv, NEW r \in Requests, NEW phase \in Phases \ (Holding \cup {"refresh"}), Move(r, phase),
           request[r].phase \notin {"first", "start"}, UNCHANGED <<flights, loads, cache>>
    PROVE  Inv'
<1> DEFINE new == [request[r] EXCEPT !.phase = phase]
<1>1. /\ new \in RequestType /\ request' = [request EXCEPT ![r] = new]
      /\ request'[r].phase = phase /\ request'[r].answer = request[r].answer
  BY MoveIs
<1>2. RequestOK(r)'
  BY <1>1 DEF Inv, RequestOK, Holding, Phases
<1> QED
  BY <1>1, <1>2, RequestMoves, CacheSame

LEMMA FreeEnd ==
    ASSUME Inv, NEW r \in Requests, NEW answer \in Answers, answer # "cancelled", End(r, answer),
           request[r].phase \notin {"first", "start"}, UNCHANGED <<flights, loads, cache>>
    PROVE  Inv'
BY EndIs, RequestMoves, CacheSame

-----------------------------------------------------------------------------
(* Steps that touch one flight                                              *)

\* A request moves together with its flight f.
LEMMA BothMove ==
    ASSUME Inv, NEW r \in Requests, NEW f \in DOMAIN flights,
           NEW flight \in Flight, flights' = [flights EXCEPT ![f] = flight],
           NEW new \in RequestType, request' = [request EXCEPT ![r] = new],
           UNCHANGED <<loads, cache>>,
           flights[f].abandoned => flight.abandoned,
           flight.accepting => flights[f].accepting,
           \A q \in flights[f].waiters \ {r} :
               q \in flight.waiters /\ (flight.abandoned => flights[f].abandoned),
           FlightOK(f)', RequestOK(r)', RegisteredLoadIsWatched'
    PROVE  Inv'
<1>1. /\ DOMAIN flights' = DOMAIN flights /\ flights'[f] = flight
      /\ \A g \in DOMAIN flights : g # f => flights'[g] = flights[g]
  BY FlightChanged DEF Inv
<1>2. /\ request' \in [Requests -> RequestType]
      /\ \A q \in Requests : q # r => request'[q] = request[q]
  BY RequestChanged DEF Inv
<1>3. ASSUME NEW q \in Requests, q # r
      PROVE  RequestOK(q)'
  <2>1. \A g \in DOMAIN flights : Kept(g, q)
    BY <1>1, <1>3 DEF Kept
  <2> QED
    BY <1>1, <1>2, <1>3, <2>1, RequestKept DEF Inv
<1>4. \A q \in Requests : RequestOK(q)'
  BY <1>3
<1> QED
  BY <1>2, <1>4, FlightMoves, CacheSame

\* The registered load stays watched when flight f keeps its observer, and
\* the request that moves keeps what it owes it.
LEMMA StillWatched ==
    ASSUME Inv, NEW r \in Requests, NEW f \in DOMAIN flights,
           NEW flight \in Flight, flights' = [flights EXCEPT ![f] = flight],
           NEW new \in RequestType, request' = [request EXCEPT ![r] = new],
           UNCHANGED loads,
           \/ flight.observer \in {"watching", "marked"}
           \/ /\ flight.observer = flights[f].observer
              /\ \/ request[r].phase \notin {"first", "start"}
                 \/ ~request[r].owns
                 \/ /\ new.phase \in {"first", "start"} /\ new.owns = request[r].owns
                    /\ new.flight = request[r].flight,
           request[r].phase \in {"first", "start"} => request[r].flight = f
    PROVE  RegisteredLoadIsWatched'
<1>1. /\ DOMAIN flights' = DOMAIN flights /\ flights'[f] = flight
      /\ \A g \in DOMAIN flights : g # f => flights'[g] = flights[g]
  BY FlightChanged DEF Inv
<1>2. /\ request'[r] = new
      /\ \A q \in Requests : q # r => request'[q] = request[q]
  BY RequestChanged DEF Inv
<1>3. loads \in DOMAIN flights \cup {NoFlight}
  BY DEF Inv, TypeOK
<1>4. CASE loads = f
  BY <1>1, <1>2, <1>4 DEF Inv, RegisteredLoadIsWatched
<1>5. CASE loads # f
  BY <1>1, <1>2, <1>3, <1>5 DEF Inv, RegisteredLoadIsWatched
<1> QED
  BY <1>4, <1>5

\* A step of a loader or of an observer.
LEMMA LoaderMoves ==
    ASSUME Inv, NEW f \in DOMAIN flights,
           NEW flight \in Flight, flights' = [flights EXCEPT ![f] = flight],
           UNCHANGED request, cache' \in CacheType,
           loads' = loads \/ (loads = f /\ loads' = NoFlight),
           flight.abandoned = flights[f].abandoned, flight.waiters = flights[f].waiters,
           flight.accepting => flights[f].accepting,
           \/ flight.observer \in {"watching", "marked"}
           \/ flight.observer = flights[f].observer
           \/ loads' # f,
           FlightOK(f)'
    PROVE  Inv'
<1>1. /\ DOMAIN flights' = DOMAIN flights /\ flights'[f] = flight
      /\ \A g \in DOMAIN flights : g # f => flights'[g] = flights[g]
  BY FlightChanged DEF Inv
<1>2. \A q \in Requests : RequestOK(q)'
  BY <1>1, RequestKept DEF Inv, Kept
<1>3. RegisteredLoadIsWatched'
  <2>1. loads \in DOMAIN flights \cup {NoFlight}
    BY DEF Inv, TypeOK
  <2> QED
    BY <1>1, <2>1 DEF Inv, RegisteredLoadIsWatched
<1>4. request' \in [Requests -> RequestType]
  BY DEF Inv, TypeOK, RequestType
<1> QED
  BY <1>2, <1>3, <1>4, FlightMoves

\* What is known of a request and the flight it holds.
LEMMA Holds ==
    ASSUME Inv, NEW r \in Requests, request[r].phase \in Holding
    PROVE  /\ request[r].flight \in DOMAIN flights /\ request[r] \in RequestType
           /\ FlightOf(r) = flights[request[r].flight] /\ FlightOf(r) \in Flight
           /\ FlightOK(request[r].flight) /\ RequestOK(r)
BY FlightTypes DEF Inv, TypeOK, RequestOK, RequestType, FlightOf

-----------------------------------------------------------------------------
(* Requests                                                                 *)

LEMMA LookupInv == ASSUME Inv, NEW r \in Requests, Lookup(r) PROVE Inv'
<1> USE DEF At
<1>1. CASE r \in Warmups \/ cache = NoEntry
  <2>1. CASE Move(r, "get")
    BY <2>1, FreeMove DEF Lookup, Phases, Holding
  <2> QED
    BY <1>1, <2>1, FreeEnd DEF Lookup, Answers
<1>2. CASE r \notin Warmups /\ cache # NoEntry
  <2>1. CASE cache.fresh \/ cache.backoff
    BY <1>2, <2>1, FreeEnd DEF Lookup, Answers
  <2>2. CASE ~(cache.fresh \/ cache.backoff)
    <3> DEFINE new == [request[r] EXCEPT !.phase = "refresh", !.flight = cache.id]
    <3>1. /\ request' = [request EXCEPT ![r] = new] /\ cache.id \in Nat
          /\ request[r] \in RequestType
      BY <1>2, <2>2 DEF Lookup, Inv, TypeOK, RequestType
    <3>2. /\ new \in RequestType /\ new.phase = "refresh" /\ new.flight \in Nat
          /\ new.answer = request[r].answer
      BY <3>1 DEF RequestType, Phases
    <3>3. request'[r] = new
      BY <3>1, <3>2, RequestChanged DEF Inv
    <3>4. RequestOK(r)'
      BY <3>2, <3>3 DEF Inv, RequestOK, Holding
    <3> QED
      BY <3>1, <3>2, <3>4, RequestMoves, CacheSame DEF Lookup
  <2> QED
    BY <2>1, <2>2
<1> QED
  BY <1>1, <1>2 DEF Lookup

LEMMA NewFlightIs ==
    ASSUME NEW refreshing \in BOOLEAN, NEW forced \in BOOLEAN, NEW stale \in Nat \cup {NoEntry}
    PROVE  LET flight == NewFlight(refreshing, forced, stale)
           IN  /\ flight \in Flight /\ flight.accepting /\ ~flight.abandoned /\ ~flight.cancelled
               /\ flight.task = "none" /\ flight.observer = "none"
BY DEF NewFlight, Flight, Tasks, Over

LEMMA AddRefreshInv == ASSUME Inv, NEW r \in Requests, AddRefresh(r) PROVE Inv'
<1> USE DEF At
<1>1. CASE loads # NoFlight
  BY <1>1, FreeEnd DEF AddRefresh, Answers
<1>2. CASE loads = NoFlight
  <2> DEFINE flight == [NewFlight(TRUE, FALSE, request[r].flight) EXCEPT
                            !.task = "scheduled", !.observer = "watching"]
  <2>1. flights' = Append(flights, flight) /\ loads' = Len(flights) + 1 /\ End(r, "ended")
    BY <1>2 DEF AddRefresh
  <2>2. /\ flight \in Flight /\ flight.accepting /\ ~flight.abandoned /\ ~flight.cancelled
        /\ flight.task = "scheduled" /\ flight.observer = "watching"
    <3>1. request[r].flight \in Nat
      BY DEF Inv, RequestOK, AddRefresh
    <3> QED
      BY <3>1 DEF NewFlight, Flight, Tasks, Over
  <2>3. \A f \in DOMAIN flights : loads # f
    BY <1>2, FlightTypes, SentinelAssumption DEF Inv
  <2>4. RegisteredLoadIsWatched'
    BY <2>1, <2>2, FlightAdded DEF Inv, RegisteredLoadIsWatched
  <2> HIDE DEF flight
  <2>5. PICK new \in RequestType : request' = [request EXCEPT ![r] = new] /\ RequestOK(r)'
    BY <2>1, EndIs DEF Answers
  <2> QED
    BY <2>1, <2>2, <2>3, <2>4, <2>5, FlightJoins DEF AddRefresh, Over
<1> QED
  BY <1>1, <1>2

LEMMA GetFlightInv == ASSUME Inv, NEW r \in Requests, GetFlight(r) PROVE Inv'
<1> USE DEF At
<1>1. CASE loads = NoFlight
  BY <1>1, FreeMove DEF GetFlight, Phases, Holding
<1>2. CASE loads # NoFlight
  <2> DEFINE new == [request[r] EXCEPT !.phase = "join", !.flight = loads]
  <2>1. request' = [request EXCEPT ![r] = new]
    BY <1>2 DEF GetFlight
  <2>2. loads \in DOMAIN flights /\ loads \in Nat /\ request[r] \in RequestType
    BY <1>2, FlightTypes DEF Inv, TypeOK, RequestType
  <2>3. /\ new \in RequestType /\ new.phase = "join" /\ new.flight = loads
        /\ new.answer = request[r].answer
    BY <2>2 DEF RequestType, Phases
  <2>4. request'[r] = new
    BY <2>1, <2>3, RequestChanged DEF Inv
  <2>5. RequestOK(r)'
    BY <2>2, <2>3, <2>4 DEF Inv, RequestOK, Holding, GetFlight
  <2> QED
    BY <2>1, <2>3, <2>5, RequestMoves, CacheSame DEF GetFlight
<1> QED
  BY <1>1, <1>2

\* Whoever is accepted waits for a flight that is not abandoned.
LEMMA AcquireInv ==
    ASSUME Inv, NEW r \in Requests, request[r].phase \in {"join", "first"},
           TryAcquire(r), Acquire(r), Move(r, "start"), UNCHANGED <<loads, cache>>
    PROVE  Inv'
<1>0. PICK f \in DOMAIN flights : f = request[r].flight
  BY Holds DEF Holding
<1> DEFINE flight == [flights[f] EXCEPT !.waiters = @ \cup {r}]
           new == [request[r] EXCEPT !.phase = "start"]
<1>1. flights[f] \in Flight /\ FlightOK(f) /\ RequestOK(r)
  BY <1>0, Holds DEF Holding
<1>2. flights[f].accepting /\ ~flights[f].abandoned
  BY <1>0, <1>1 DEF TryAcquire, FlightOf, FlightOK
<1>3. /\ flight \in Flight /\ flight.abandoned = flights[f].abandoned
      /\ flight.accepting = flights[f].accepting /\ flight.waiters = flights[f].waiters \cup {r}
      /\ flight.observer = flights[f].observer /\ flight.task = flights[f].task
      /\ flight.cancelled = flights[f].cancelled
  BY <1>1 DEF Flight
<1>4. flights' = [flights EXCEPT ![f] = flight]
  BY <1>0 DEF Acquire
<1>5. /\ new \in RequestType /\ request' = [request EXCEPT ![r] = new] /\ request'[r] = new
      /\ new.phase = "start" /\ new.flight = f /\ new.owns = request[r].owns
      /\ new.answer = request[r].answer
  BY <1>0, MoveIs, ZenonT(30) DEF Phases, Move
<1>6. flights'[f] = flight /\ DOMAIN flights' = DOMAIN flights
  BY <1>1, <1>3, <1>4, FlightChanged DEF Inv
<1>7. RequestOK(r)'
  BY <1>1, <1>2, <1>3, <1>5, <1>6, ZenonT(30) DEF RequestOK, FlightOf, Holding
<1> HIDE DEF flight, new
<1>8. FlightOK(f)'
  BY <1>1, <1>3, <1>6 DEF FlightOK
<1>9. RegisteredLoadIsWatched'
  BY <1>0, <1>1, <1>3, <1>4, <1>5, StillWatched
<1> QED
  BY <1>1, <1>3, <1>4, <1>5, <1>7, <1>8, <1>9, BothMove

LEMMA JoinInv == ASSUME Inv, NEW r \in Requests, Join(r) PROVE Inv'
<1> USE DEF At
<1>1. CASE TryAcquire(r)
  BY <1>1, AcquireInv DEF Join
<1>2. CASE ~TryAcquire(r)
  <2> DEFINE new == [request[r] EXCEPT !.phase = "replace"]
  <2>1. Move(r, "replace") /\ UNCHANGED <<flights, loads, cache>> /\ request[r].phase = "join"
    BY <1>2 DEF Join
  <2>2. /\ new \in RequestType /\ request' = [request EXCEPT ![r] = new] /\ request'[r] = new
        /\ new.phase = "replace" /\ new.flight = request[r].flight
        /\ new.answer = request[r].answer
    BY <2>1, MoveIs DEF Phases
  <2>3. RequestOK(r)'
    BY <1>2, <2>1, <2>2, Holds DEF RequestOK, TryAcquire, FlightOf, Holding
  <2> QED
    BY <2>1, <2>2, <2>3, RequestMoves, CacheSame
<1> QED
  BY <1>1, <1>2

\* Registering a load over one that is closed, or over none.
LEMMA RegisterInv ==
    ASSUME Inv, NEW r \in Requests, Register(r, NewFlight(FALSE, r \in Warmups, NoEntry), "first"),
           UNCHANGED cache,
           loads # NoFlight => loads \in DOMAIN flights /\ ~flights[loads].accepting
    PROVE  Inv'
<1> DEFINE flight == NewFlight(FALSE, r \in Warmups, NoEntry)
           n == Len(flights) + 1
           new == [request[r] EXCEPT !.phase = "first", !.flight = n, !.owns = TRUE]
<1>1. /\ flights' = Append(flights, flight) /\ loads' = n
      /\ request' = [request EXCEPT ![r] = new]
  BY DEF Register
<1>2. /\ flight \in Flight /\ flight.accepting /\ ~flight.abandoned /\ ~flight.cancelled
      /\ flight.task = "none" /\ flight.observer = "none"
  <2>1. (r \in Warmups) \in BOOLEAN
    OBVIOUS
  <2> QED
    BY <2>1, NewFlightIs
<1> HIDE DEF flight
<1>3. n \in Nat /\ DOMAIN flights' = DOMAIN flights \cup {n} /\ request[r] \in RequestType
  BY <1>1, <1>2, FlightAdded DEF Inv, TypeOK, RequestType
<1>4. /\ new \in RequestType /\ new.phase = "first" /\ new.flight = n /\ new.owns = TRUE
      /\ new.answer = request[r].answer
  BY <1>3 DEF RequestType, Phases
<1>5. request'[r] = new
  BY <1>1, <1>4, RequestChanged DEF Inv
<1>6. RequestOK(r)'
  BY <1>3, <1>4, <1>5 DEF Inv, RequestOK, Holding
<1>7. RegisteredLoadIsWatched'
  BY <1>1, <1>4, <1>5 DEF RegisteredLoadIsWatched
<1>8. \A f \in DOMAIN flights : loads # f \/ flights[f].abandoned \/ flights[f].task \in Over
  BY FlightTypes, SentinelAssumption DEF Inv, FlightOK
<1> QED
  BY <1>1, <1>2, <1>4, <1>6, <1>7, <1>8, FlightJoins DEF Over

LEMMA ReplaceInv == ASSUME Inv, NEW r \in Requests, Replace(r) PROVE Inv'
<1> USE DEF At
<1>1. CASE loads = request[r].flight
  <2>1. loads \in DOMAIN flights /\ ~flights[loads].accepting
    BY <1>1, Holds DEF Replace, Holding, RequestOK, FlightOf
  <2> QED
    BY <1>1, <2>1, RegisterInv DEF Replace
<1>2. CASE loads # request[r].flight
  BY <1>2, FreeMove DEF Replace, Phases, Holding
<1> QED
  BY <1>1, <1>2

LEMMA AddInv == ASSUME Inv, NEW r \in Requests, Add(r) PROVE Inv'
<1> USE DEF At
<1>1. CASE loads = NoFlight
  BY <1>1, RegisterInv DEF Add
<1>2. CASE loads # NoFlight
  BY <1>2, FreeMove DEF Add, Phases, Holding
<1> QED
  BY <1>1, <1>2

LEMMA FirstWaiterInv == ASSUME Inv, NEW r \in Requests, FirstWaiter(r) PROVE Inv'
<1> USE DEF At
<1>1. CASE TryAcquire(r)
  BY <1>1, AcquireInv DEF FirstWaiter
<1>2. CASE ~TryAcquire(r)
  <2>0. PICK f \in DOMAIN flights : f = request[r].flight
    BY Holds DEF FirstWaiter, Holding
  <2> DEFINE flight == [flights[f] EXCEPT !.accepting = FALSE, !.observer = "marked"]
  <2>1. /\ flights[f] \in Flight /\ FlightOK(f)
        /\ ~flights[f].accepting /\ request[r].phase = "first"
    BY <1>2, <2>0, Holds DEF FirstWaiter, Holding, TryAcquire, FlightOf
  <2>2. flights' = [flights EXCEPT ![f] = flight] /\ End(r, "rejected")
    BY <1>2, <2>0 DEF FirstWaiter
  <2>3. /\ flight \in Flight /\ ~flight.accepting /\ flight.observer = "marked"
        /\ flight.abandoned = flights[f].abandoned /\ flight.waiters = flights[f].waiters
        /\ flight.task = flights[f].task /\ flight.cancelled = flights[f].cancelled
    BY <2>1 DEF Flight
  <2> HIDE DEF flight
  <2>5. PICK new \in RequestType : request' = [request EXCEPT ![r] = new] /\ RequestOK(r)'
    BY <2>2, EndIs DEF Answers
  <2>6. FlightOK(f)'
    BY <2>1, <2>2, <2>3, FlightChanged DEF Inv, FlightOK, FirstWaiter
  <2>7. RegisteredLoadIsWatched'
    BY <2>0, <2>1, <2>2, <2>3, <2>5, StillWatched DEF FirstWaiter
  <2> QED
    BY <2>1, <2>2, <2>3, <2>5, <2>6, <2>7, BothMove DEF FirstWaiter
<1> QED
  BY <1>1, <1>2

LEMMA StartInv == ASSUME Inv, NEW r \in Requests, Start(r) PROVE Inv'
<1> USE DEF At
<1>0. PICK f \in DOMAIN flights : f = request[r].flight
  BY Holds DEF Start, Holding
<1> DEFINE flight == [flights[f] EXCEPT
                          !.task = IF @ = "none" THEN Rechecked(f) ELSE @,
                          !.observer = IF request[r].owns THEN "watching" ELSE @]
           new == [request[r] EXCEPT !.phase = "waiting"]
<1>1. /\ flights[f] \in Flight /\ FlightOK(f) /\ RequestOK(r) /\ r \in flights[f].waiters
      /\ ~flights[f].abandoned /\ request[r].phase = "start" /\ UNCHANGED <<loads, cache>>
  BY <1>0, Holds DEF Start, Holding, RequestOK, FlightOf
<1>2. /\ flights' = [flights EXCEPT ![f] = flight]
  BY <1>0 DEF Start
<1>3. /\ new \in RequestType /\ request' = [request EXCEPT ![r] = new] /\ request'[r] = new
      /\ new.phase = "waiting" /\ new.flight = f /\ new.answer = request[r].answer
  BY <1>0, MoveIs DEF Phases, Start
<1>4. /\ flight \in Flight /\ flight.abandoned = flights[f].abandoned
      /\ flight.accepting = flights[f].accepting /\ flight.waiters = flights[f].waiters
      /\ flight.cancelled = flights[f].cancelled
      /\ flight.task = flights[f].task
         \/ (flights[f].task = "none" /\ flight.task \in {"ok", "loading"})
      /\ flight.observer = IF request[r].owns THEN "watching" ELSE flights[f].observer
  <2>1. Rechecked(f) \in {"ok", "loading"} /\ request[r].owns \in BOOLEAN
    BY DEF Rechecked, Inv, TypeOK
  <2> HIDE DEF Rechecked
  <2> QED
    BY <1>1, <2>1 DEF Flight, Tasks, Over
<1> HIDE DEF flight, new
<1>5. flights'[f] = flight /\ DOMAIN flights' = DOMAIN flights
  BY <1>2, <1>4, FlightChanged DEF Inv
<1>6. RequestOK(r)'
  BY <1>1, <1>3, <1>4, <1>5 DEF RequestOK, FlightOf, Holding
<1>7. FlightOK(f)'
  BY <1>1, <1>4, <1>5 DEF FlightOK, Over
<1>8. RegisteredLoadIsWatched'
  BY <1>0, <1>1, <1>2, <1>3, <1>4, StillWatched DEF Inv, TypeOK
<1> QED
  BY <1>1, <1>2, <1>3, <1>4, <1>6, <1>7, <1>8, BothMove

\* A wait that ends is answered by the load, or by the request's own abort.
LEMMA WaitEnds ==
    ASSUME Inv, NEW r \in Requests, NEW answer \in Answers, answer # "cancelled",
           request[r].phase = "waiting", UNCHANGED <<flights, loads, cache>>,
           request' = [request EXCEPT ![r].phase = "leaving", ![r].answer = answer]
    PROVE  Inv'
<1> DEFINE new == [request[r] EXCEPT !.phase = "leaving", !.answer = answer]
<1>1. request[r] \in RequestType /\ RequestOK(r) /\ request[r].flight \in DOMAIN flights
  BY Holds DEF Holding
<1>2. /\ new \in RequestType /\ new.phase = "leaving" /\ new.flight = request[r].flight
      /\ new.answer = answer /\ request' = [request EXCEPT ![r] = new]
  BY <1>1 DEF RequestType, Phases
<1>3. request'[r] = new
  BY <1>2, RequestChanged DEF Inv
<1>4. RequestOK(r)'
  BY <1>1, <1>2, <1>3 DEF RequestOK, FlightOf, Holding
<1> QED
  BY <1>2, <1>4, RequestMoves, CacheSame

LEMMA AnsweredInv == ASSUME Inv, NEW r \in Requests, Answered(r) PROVE Inv'
<1>1. FlightOf(r).task # "cancelled"
  BY Holds DEF Answered, At, RequestOK, FlightOK, Holding, FlightOf
<1> QED
  BY <1>1, WaitEnds DEF Answered, At, Answers

LEMMA AbortInv == ASSUME Inv, NEW r \in Requests, Abort(r) PROVE Inv'
BY WaitEnds DEF Abort, At, Answers

LEMMA LeaveInv == ASSUME Inv, NEW r \in Requests, Leave(r) PROVE Inv'
<1> USE DEF At
<1>0. PICK f \in DOMAIN flights : f = request[r].flight
  BY Holds DEF Leave, Holding
<1> DEFINE flight == [flights[f] EXCEPT !.waiters = @ \ {r}, !.abandoned = @ \/ Orphans(r),
                                        !.accepting = @ /\ ~Orphans(r)]
<1>1. /\ flights[f] \in Flight /\ FlightOK(f) /\ RequestOK(r) /\ r \in flights[f].waiters
      /\ request[r].phase = "leaving" /\ UNCHANGED <<loads, cache>> /\ FlightOf(r) = flights[f]
      /\ request[r] \in RequestType
  BY <1>0, Holds DEF Leave, Holding, RequestOK, FlightOf
<1>2. /\ flights' = [flights EXCEPT ![f] = flight]
  BY <1>0 DEF Leave
<1>3. /\ flight \in Flight /\ flight.abandoned = (flights[f].abandoned \/ Orphans(r))
      /\ flight.accepting = (flights[f].accepting /\ ~Orphans(r))
      /\ flight.waiters = flights[f].waiters \ {r}
      /\ flight.cancelled = flights[f].cancelled
      /\ flight.task = flights[f].task /\ flight.observer = flights[f].observer
  BY <1>1 DEF Flight, Orphans
<1> HIDE DEF flight
<1>4. flights'[f] = flight /\ DOMAIN flights' = DOMAIN flights
  BY <1>2, <1>3, FlightChanged DEF Inv
<1>5. PICK new \in RequestType : request' = [request EXCEPT ![r] = new] /\ RequestOK(r)'
  <2>1. CASE Orphans(r)
    <3> DEFINE new == [request[r] EXCEPT !.phase = "cancel"]
    <3>1. /\ new \in RequestType /\ request' = [request EXCEPT ![r] = new] /\ request'[r] = new
          /\ new.phase = "cancel" /\ new.flight = f /\ new.answer = request[r].answer
      BY <1>0, <2>1, MoveIs DEF Phases, Leave
    <3>2. RequestOK(r)'
      BY <1>1, <1>3, <1>4, <2>1, <3>1 DEF RequestOK, FlightOf, Holding
    <3> QED
      BY <3>1, <3>2
  <2>2. CASE ~Orphans(r)
    BY <1>1, <2>2, EndIs DEF Leave, RequestOK, RequestType
  <2> QED
    BY <2>1, <2>2
<1>6. FlightOK(f)'
  BY <1>1, <1>3, <1>4 DEF FlightOK
<1>7. \A q \in flights[f].waiters \ {r} :
          q \in flight.waiters /\ (flight.abandoned => flights[f].abandoned)
  BY <1>1, <1>3 DEF Orphans
<1>8. RegisteredLoadIsWatched'
  BY <1>1, <1>2, <1>3, <1>5, StillWatched
<1> QED
  BY <1>1, <1>2, <1>3, <1>5, <1>6, <1>7, <1>8, BothMove

LEMMA CancelLoaderInv == ASSUME Inv, NEW r \in Requests, CancelLoader(r) PROVE Inv'
<1> USE DEF At
<1>0. PICK f \in DOMAIN flights : f = request[r].flight
  BY Holds DEF CancelLoader, Holding
<1> DEFINE flight == [flights[f] EXCEPT !.cancelled = TRUE]
<1>1. /\ flights[f] \in Flight /\ FlightOK(f) /\ RequestOK(r) /\ flights[f].abandoned
      /\ request[r].phase = "cancel" /\ UNCHANGED <<loads, cache>> /\ request[r] \in RequestType
  BY <1>0, Holds DEF CancelLoader, Holding, RequestOK, FlightOf
<1>2. /\ flights' = [flights EXCEPT ![f] = flight]
  BY <1>0 DEF CancelLoader
<1>3. /\ flight \in Flight /\ flight.abandoned /\ flight.accepting = flights[f].accepting
      /\ flight.waiters = flights[f].waiters /\ flight.cancelled
      /\ flight.task = flights[f].task /\ flight.observer = flights[f].observer
  BY <1>1 DEF Flight
<1> HIDE DEF flight
<1>4. flights'[f] = flight /\ DOMAIN flights' = DOMAIN flights
  BY <1>2, <1>3, FlightChanged DEF Inv
<1>5. PICK new \in RequestType : request' = [request EXCEPT ![r] = new] /\ RequestOK(r)'
  <2>1. /\ request[r].answer \in Answers /\ request[r].answer # "cancelled"
        /\ End(r, request[r].answer)
    BY <1>1 DEF CancelLoader, RequestOK, RequestType
  <2> QED
    BY <2>1, EndIs
<1>6. FlightOK(f)'
  BY <1>1, <1>3, <1>4 DEF FlightOK
<1>7. RegisteredLoadIsWatched'
  BY <1>1, <1>2, <1>3, <1>5, StillWatched
<1> QED
  BY <1>1, <1>2, <1>3, <1>5, <1>6, <1>7, BothMove

-----------------------------------------------------------------------------
(* Loaders and observers                                                    *)

LEMMA SetTaskInv ==
    ASSUME Inv, NEW f \in DOMAIN flights, NEW task \in Tasks, SetTask(f, task),
           flights[f].task \notin Over, task = "cancelled" => flights[f].cancelled,
           UNCHANGED <<request, loads>>, cache' \in CacheType
    PROVE  Inv'
<1> DEFINE flight == [flights[f] EXCEPT !.task = task]
<1>1. flights[f] \in Flight /\ FlightOK(f)
  BY FlightTypes DEF Inv
<1>2. /\ flight \in Flight /\ flight.abandoned = flights[f].abandoned
      /\ flight.accepting = flights[f].accepting /\ flight.waiters = flights[f].waiters
      /\ flight.cancelled = flights[f].cancelled /\ flight.task = task
      /\ flight.observer = flights[f].observer /\ flights' = [flights EXCEPT ![f] = flight]
  BY <1>1 DEF Flight, SetTask
<1> HIDE DEF flight
<1>3. FlightOK(f)'
  BY <1>1, <1>2, FlightChanged DEF FlightOK, Inv
<1> QED
  BY <1>2, <1>3, LoaderMoves

LEMMA RunScheduledInv == ASSUME Inv, NEW f \in DOMAIN flights, RunScheduled(f) PROVE Inv'
BY SetTaskInv, CacheSame DEF RunScheduled, Rechecked, Tasks, Over

LEMMA LoaderReturnsInv == ASSUME Inv, NEW f \in DOMAIN flights, LoaderReturns(f) PROVE Inv'
BY SetTaskInv, CacheSame DEF LoaderReturns, Tasks, Over

LEMMA PublishInv == ASSUME Inv, NEW f \in DOMAIN flights, Publish(f) PROVE Inv'
<1>1. f \in Nat
  BY FlightTypes DEF Inv
<1>2. cache' \in CacheType
  <2>1. CASE UNCHANGED cache
    BY <2>1, CacheSame
  <2>2. CASE cache' \in {NoEntry, [id |-> f, fresh |-> TRUE, backoff |-> FALSE]}
    <3> DEFINE entry == [id |-> f, fresh |-> TRUE, backoff |-> FALSE]
    <3>1. entry \in [id : Nat, fresh : BOOLEAN, backoff : BOOLEAN]
      BY <1>1
    <3>2. cache' = NoEntry \/ cache' = entry
      BY <2>2
    <3> HIDE DEF entry
    <3> QED
      BY <3>1, <3>2 DEF CacheType
  <2> QED
    BY <2>1, <2>2 DEF Publish
<1> QED
  BY <1>2, SetTaskInv DEF Publish, Tasks, Over

LEMMA ReturnInv == ASSUME Inv, NEW f \in DOMAIN flights, Return(f) PROVE Inv'
BY SetTaskInv, CacheSame DEF Return, Tasks, Over

LEMMA MarkCompletedInv == ASSUME Inv, NEW f \in DOMAIN flights, MarkCompleted(f) PROVE Inv'
<1> DEFINE flight == [flights[f] EXCEPT !.observer = "marked", !.accepting = FALSE,
                                        !.stale = NoEntry]
<1>1. flights[f] \in Flight /\ FlightOK(f) /\ flights[f].task \in Over
  BY FlightTypes DEF Inv, MarkCompleted
<1>2. /\ flight \in Flight /\ flight.abandoned = flights[f].abandoned
      /\ ~flight.accepting /\ flight.waiters = flights[f].waiters
      /\ flight.cancelled = flights[f].cancelled /\ flight.task = flights[f].task
      /\ flight.observer = "marked" /\ flights' = [flights EXCEPT ![f] = flight]
  BY <1>1 DEF Flight, MarkCompleted
<1> HIDE DEF flight
<1>3. FlightOK(f)'
  BY <1>1, <1>2, FlightChanged DEF FlightOK, Inv
<1>4. cache' \in CacheType
  BY DEF Inv, TypeOK, CacheType, MarkCompleted, RecordsFailure
<1> QED
  BY <1>2, <1>3, <1>4, LoaderMoves DEF MarkCompleted

LEMMA RemoveFlightInv == ASSUME Inv, NEW f \in DOMAIN flights, RemoveFlight(f) PROVE Inv'
<1> DEFINE flight == [flights[f] EXCEPT !.observer = "gone"]
<1>1. flights[f] \in Flight /\ FlightOK(f) /\ flights[f].observer = "marked"
  BY FlightTypes DEF Inv, RemoveFlight
<1>2. /\ flight \in Flight /\ flight.abandoned = flights[f].abandoned
      /\ flight.accepting = flights[f].accepting /\ flight.waiters = flights[f].waiters
      /\ flight.cancelled = flights[f].cancelled /\ flight.task = flights[f].task
      /\ flight.observer = "gone" /\ flights' = [flights EXCEPT ![f] = flight]
  BY <1>1 DEF Flight, RemoveFlight
<1> HIDE DEF flight
<1>3. FlightOK(f)'
  BY <1>1, <1>2, FlightChanged DEF FlightOK, Inv
<1>4. loads' # f /\ (loads' = loads \/ (loads = f /\ loads' = NoFlight))
  BY FlightTypes, SentinelAssumption DEF RemoveFlight, Inv
<1> QED
  BY <1>2, <1>3, <1>4, LoaderMoves, CacheSame DEF RemoveFlight

LEMMA TimeInv == ASSUME Inv, Time PROVE Inv'
<1>1. cache' \in CacheType /\ UNCHANGED <<request, flights, loads>>
  BY DEF Time, GoStale, BackoffOver, Evict, Fresh, Inv, TypeOK, CacheType
<1>2. TypeOK'
  BY <1>1 DEF Inv, TypeOK, CacheType
<1>3. \A f \in DOMAIN flights' : FlightOK(f)'
  BY <1>1 DEF Inv, FlightOK
<1>4. \A r \in Requests : RequestOK(r)'
  BY <1>1, RequestKept DEF Inv, Kept
<1>5. RegisteredLoadIsWatched'
  BY <1>1 DEF Inv, RegisteredLoadIsWatched
<1> QED
  BY <1>2, <1>3, <1>4, <1>5 DEF Inv

-----------------------------------------------------------------------------
(* The theorems                                                             *)

LEMMA InitInv == Init => Inv
<1> SUFFICES ASSUME Init
             PROVE  Inv
  OBVIOUS
<1>1. flights \in Seq(Flight) /\ DOMAIN flights = {}
  <2>1. <<>> \in Seq(Flight) /\ Len(<<>>) = 0
    BY EmptySeq
  <2> QED
    BY <2>1, LenProperties DEF Init
<1>2. request \in [Requests -> RequestType] /\ cache \in CacheType
  <2>1. Preloaded \in [id : Nat, fresh : BOOLEAN, backoff : BOOLEAN]
    BY DEF Preloaded
  <2>2. cache \in CacheType
    BY <2>1 DEF Init, CacheType
  <2>3. request \in [Requests -> RequestType]
    BY DEF Init, RequestType, Phases, Answers
  <2> QED
    BY <2>2, <2>3
<1>3. \A r \in Requests : RequestOK(r)
  BY DEF Init, RequestOK, Holding
<1>4. TypeOK
  BY <1>1, <1>2 DEF Init, TypeOK, RequestType, CacheType
<1>5. RegisteredLoadIsWatched
  BY DEF Init, RegisteredLoadIsWatched
<1> QED
  BY <1>1, <1>3, <1>4, <1>5 DEF Inv

LEMMA StutterInv == ASSUME Inv, UNCHANGED vars PROVE Inv'
BY DEF vars, Inv, TypeOK, FlightOK, RequestOK, FlightOf, RegisteredLoadIsWatched

LEMMA NextInv == Inv /\ [Next]_vars => Inv'
<1> SUFFICES ASSUME Inv, [Next]_vars
             PROVE  Inv'
  OBVIOUS
<1>1. ASSUME NEW r \in Requests, Lookup(r) \/ RequestStep(r) \/ Abort(r)
      PROVE  Inv'
  BY <1>1, LookupInv, AbortInv, AddRefreshInv, GetFlightInv, JoinInv, ReplaceInv, AddInv,
     FirstWaiterInv, StartInv, AnsweredInv, LeaveInv, CancelLoaderInv DEF RequestStep
<1>2. ASSUME NEW f \in DOMAIN flights, FlightStep(f)
      PROVE  Inv'
  BY <1>2, RunScheduledInv, LoaderReturnsInv, PublishInv, ReturnInv, MarkCompletedInv,
     RemoveFlightInv DEF FlightStep
<1> QED
  BY <1>1, <1>2, TimeInv, StutterInv DEF Next

\* The invariant holds: gates are closed once and for all, whoever has passed a
\* gate is a waiter, and a wanted load that is not over is the one registered
\* (AcquireFlight, TryAcquire, ReleaseWaiter and CompleteFlight).
THEOREM Invariance == Spec => []Inv
BY InitInv, NextInv, PTL DEF Spec

\* Nobody waits for a load that is being cancelled or is answered with somebody
\* else's cancellation, for any number of calls (SearchResponseCache.cs:45-49).
THEOREM NobodyIsDoomed == Spec => []NobodyJoinsADoomedLoad
<1>1. Inv => NobodyJoinsADoomedLoad
  BY DEF Inv, RequestOK, NobodyJoinsADoomedLoad
<1> QED
  BY <1>1, Invariance, PTL

\* At most one wanted load runs its query, for any number of calls and refreshes
\* (SearchResponseCache.cs:893-916).
THEOREM SingleFlight == Spec => []OneLoadAtATime
<1>1. Inv => OneLoadAtATime
  BY DEF Inv, FlightOK, OneLoadAtATime, Loading, Over
<1> QED
  BY <1>1, Invariance, PTL

\* A registered load has an observer, or a creator about to leave one, for any
\* number of calls and refusals (SearchResponseCache.cs:411-421 and 933-942).
THEOREM LoadsAreWatched == Spec => []RegisteredLoadIsWatched
<1>1. Inv => RegisteredLoadIsWatched
  BY DEF Inv
<1> QED
  BY <1>1, Invariance, PTL

-----------------------------------------------------------------------------
(* What is stored was wanted                                                *)

\* A load that runs its query and has not been abandoned is a refresh or has a
\* waiter, and no fresh entry has come meanwhile: only such a load makes one, and
\* there is no second.
WantedOK(f) ==
    /\ flights[f].task = "scheduled" => flights[f].refreshing
    /\ flights[f].observer = "gone" => ~flights[f].accepting
    /\ Loading(f) /\ ~flights[f].abandoned =>
        /\ flights[f].refreshing \/ flights[f].waiters # {}
        /\ flights[f].forced \/ ~Fresh

WantedInv == \A f \in DOMAIN flights : WantedOK(f)

LEMMA NoFlightChanges ==
    ASSUME WantedInv, UNCHANGED flights, Fresh' => Fresh
    PROVE  WantedInv'
BY DEF WantedInv, WantedOK, Loading

LEMMA OneFlightChanges ==
    ASSUME Inv, WantedInv, NEW f \in DOMAIN flights, NEW flight \in Flight,
           flights' = [flights EXCEPT ![f] = flight], Fresh' => Fresh,
           flight.refreshing = flights[f].refreshing, flight.forced = flights[f].forced,
           flight.task = "scheduled" => flights[f].task = "scheduled",
           flight.observer = "gone" => ~flight.accepting,
           ~flight.abandoned => ~flights[f].abandoned,
           flight.task \in {"loading", "checked"} /\ ~flight.abandoned =>
              \/ /\ Loading(f)
                 /\ flights[f].waiters # {} => flight.waiters # {} \/ flight.refreshing
              \/ /\ flight.refreshing \/ flight.waiters # {}
                 /\ flight.forced \/ ~Fresh
    PROVE  WantedInv'
<1>1. /\ DOMAIN flights' = DOMAIN flights /\ flights'[f] = flight
      /\ \A g \in DOMAIN flights : g # f => flights'[g] = flights[g]
  BY FlightChanged DEF Inv
<1>2. WantedOK(f)'
  BY <1>1 DEF WantedInv, WantedOK, Loading
<1>3. ASSUME NEW g \in DOMAIN flights, g # f
      PROVE  WantedOK(g)'
  BY <1>1, <1>3 DEF WantedInv, WantedOK, Loading
<1> QED
  BY <1>1, <1>2, <1>3 DEF WantedInv

LEMMA OneFlightComes ==
    ASSUME Inv, WantedInv, NEW flight \in Flight, flights' = Append(flights, flight),
           UNCHANGED cache, flight.task \in {"none", "scheduled"},
           flight.task = "scheduled" => flight.refreshing,
           flight.observer # "gone"
    PROVE  WantedInv'
<1>1. PICK n \in Nat :
        /\ DOMAIN flights' = DOMAIN flights \cup {n} /\ flights'[n] = flight
        /\ \A g \in DOMAIN flights : flights'[g] = flights[g]
  BY FlightAdded DEF Inv
<1>2. WantedOK(n)'
  BY <1>1 DEF WantedOK, Loading
<1>3. ASSUME NEW g \in DOMAIN flights
      PROVE  WantedOK(g)'
  BY <1>1 DEF WantedInv, WantedOK, Loading, Fresh
<1> QED
  BY <1>1, <1>2, <1>3 DEF WantedInv

\* The flight a request holds, with what it knows of it.
LEMMA HeldFlight ==
    ASSUME Inv, WantedInv, NEW r \in Requests, request[r].phase \in Holding
    PROVE  \E f \in DOMAIN flights :
              /\ f = request[r].flight /\ flights[f] \in Flight
              /\ FlightOK(f) /\ RequestOK(r) /\ WantedOK(f) /\ FlightOf(r) = flights[f]
BY Holds DEF WantedInv, FlightOf

LEMMA AcquireWanted ==
    ASSUME Inv, WantedInv, NEW r \in Requests, request[r].phase \in Holding, Acquire(r),
           UNCHANGED cache
    PROVE  WantedInv'
<1>1. PICK f \in DOMAIN flights : /\ f = request[r].flight /\ flights[f] \in Flight /\ WantedOK(f)
  BY HeldFlight
<1> DEFINE flight == [flights[f] EXCEPT !.waiters = @ \cup {r}]
<1>2. /\ flight \in Flight /\ flights' = [flights EXCEPT ![f] = flight]
      /\ flight.refreshing = flights[f].refreshing /\ flight.forced = flights[f].forced
      /\ flight.task = flights[f].task /\ flight.observer = flights[f].observer
      /\ flight.accepting = flights[f].accepting /\ flight.abandoned = flights[f].abandoned
      /\ flight.waiters = flights[f].waiters \cup {r}
  BY <1>1 DEF Acquire, Flight
<1> HIDE DEF flight
<1> QED
  BY <1>1, <1>2, OneFlightChanges DEF WantedOK, Loading, Fresh

LEMMA RefusedWanted ==
    ASSUME Inv, WantedInv, NEW r \in Requests, FirstWaiter(r), ~TryAcquire(r)
    PROVE  WantedInv'
<1>1. PICK f \in DOMAIN flights : /\ f = request[r].flight /\ flights[f] \in Flight /\ WantedOK(f)
  BY HeldFlight DEF FirstWaiter, At, Holding
<1> DEFINE flight == [flights[f] EXCEPT !.accepting = FALSE, !.observer = "marked"]
<1>2. /\ flight \in Flight /\ flights' = [flights EXCEPT ![f] = flight] /\ UNCHANGED cache
      /\ flight.refreshing = flights[f].refreshing /\ flight.forced = flights[f].forced
      /\ flight.task = flights[f].task /\ flight.observer = "marked"
      /\ flight.abandoned = flights[f].abandoned /\ flight.waiters = flights[f].waiters
  BY <1>1 DEF FirstWaiter, Flight
<1> HIDE DEF flight
<1> QED
  BY <1>1, <1>2, OneFlightChanges DEF WantedOK, Loading, Fresh

\* The recheck: an ordinary load starts its query only where nothing fresh is.
LEMMA StartWanted == ASSUME Inv, WantedInv, NEW r \in Requests, Start(r) PROVE WantedInv'
<1>1. PICK f \in DOMAIN flights :
        /\ f = request[r].flight /\ flights[f] \in Flight /\ WantedOK(f) /\ r \in flights[f].waiters
  BY HeldFlight DEF Start, At, Holding, RequestOK
<1> DEFINE flight == [flights[f] EXCEPT
                          !.task = IF @ = "none" THEN Rechecked(f) ELSE @,
                          !.observer = IF request[r].owns THEN "watching" ELSE @]
<1>2. /\ flight \in Flight /\ flights' = [flights EXCEPT ![f] = flight] /\ UNCHANGED cache
      /\ flight.refreshing = flights[f].refreshing /\ flight.forced = flights[f].forced
      /\ flight.task = IF flights[f].task = "none" THEN Rechecked(f) ELSE flights[f].task
      /\ flight.observer = IF request[r].owns THEN "watching" ELSE flights[f].observer
      /\ flight.accepting = flights[f].accepting
      /\ flight.abandoned = flights[f].abandoned /\ flight.waiters = flights[f].waiters
  <2>1. Rechecked(f) \in {"ok", "loading"}
    BY DEF Rechecked
  <2>2. flights' = [flights EXCEPT ![f] = flight] /\ UNCHANGED cache
    BY <1>1 DEF Start
  <2> HIDE DEF Rechecked
  <2> QED
    BY <1>1, <2>1, <2>2, ZenonT(30) DEF Flight, Tasks, Over
<1> HIDE DEF flight
<1>3. flight.task = "loading" => flights[f].task = "loading" \/ flights[f].forced \/ ~Fresh
  BY <1>2 DEF Rechecked
<1>4. flight.task = "checked" => flights[f].task = "checked"
  BY <1>2 DEF Rechecked
<1>5. flight.task = "scheduled" => flights[f].task = "scheduled"
  BY <1>2 DEF Rechecked
<1> QED
  BY <1>1, <1>2, <1>3, <1>4, <1>5, OneFlightChanges DEF WantedOK, Loading, Fresh

\* The last waiter of an ordinary load leaves it abandoned.
LEMMA LeaveWanted == ASSUME Inv, WantedInv, NEW r \in Requests, Leave(r) PROVE WantedInv'
<1>1. PICK f \in DOMAIN flights :
        /\ f = request[r].flight /\ flights[f] \in Flight /\ FlightOK(f) /\ WantedOK(f)
        /\ r \in flights[f].waiters /\ FlightOf(r) = flights[f]
  BY HeldFlight DEF Leave, At, Holding, RequestOK
<1> DEFINE flight == [flights[f] EXCEPT !.waiters = @ \ {r}, !.abandoned = @ \/ Orphans(r),
                                        !.accepting = @ /\ ~Orphans(r)]
<1>2. /\ flight \in Flight /\ flights' = [flights EXCEPT ![f] = flight] /\ UNCHANGED cache
      /\ flight.refreshing = flights[f].refreshing /\ flight.forced = flights[f].forced
      /\ flight.task = flights[f].task /\ flight.observer = flights[f].observer
      /\ flight.abandoned = (flights[f].abandoned \/ Orphans(r))
      /\ flight.accepting = (flights[f].accepting /\ ~Orphans(r))
      /\ flight.waiters = flights[f].waiters \ {r}
  BY <1>1, ZenonT(30) DEF Leave, Flight, Orphans
<1> HIDE DEF flight
<1>3. flights[f].waiters \ {r} = {} => flights[f].waiters = {r}
  BY <1>1
<1>4. flight.task \in {"loading", "checked"} /\ ~flight.abandoned =>
          flight.waiters # {} \/ flight.refreshing
  BY <1>1, <1>2, <1>3 DEF Orphans, FlightOK, WantedOK, Over
<1> QED
  BY <1>1, <1>2, <1>4, OneFlightChanges DEF WantedOK, Loading, Fresh

LEMMA CancelWanted == ASSUME Inv, WantedInv, NEW r \in Requests, CancelLoader(r) PROVE WantedInv'
<1>1. PICK f \in DOMAIN flights : /\ f = request[r].flight /\ flights[f] \in Flight /\ WantedOK(f)
  BY HeldFlight DEF CancelLoader, At, Holding
<1> DEFINE flight == [flights[f] EXCEPT !.cancelled = TRUE]
<1>2. /\ flight \in Flight /\ flights' = [flights EXCEPT ![f] = flight] /\ UNCHANGED cache
      /\ flight.refreshing = flights[f].refreshing /\ flight.forced = flights[f].forced
      /\ flight.task = flights[f].task /\ flight.observer = flights[f].observer
      /\ flight.accepting = flights[f].accepting
      /\ flight.abandoned = flights[f].abandoned /\ flight.waiters = flights[f].waiters
  BY <1>1 DEF CancelLoader, Flight
<1> HIDE DEF flight
<1> QED
  BY <1>1, <1>2, OneFlightChanges DEF WantedOK, Loading, Fresh

LEMMA RequestWanted ==
    ASSUME Inv, WantedInv, NEW r \in Requests, Lookup(r) \/ RequestStep(r) \/ Abort(r)
    PROVE  WantedInv'
<1>1. CASE AddRefresh(r)
  <2>1. CASE UNCHANGED flights
    BY <1>1, <2>1, NoFlightChanges DEF AddRefresh, Fresh
  <2>2. CASE loads = NoFlight
    <3> DEFINE flight == [NewFlight(TRUE, FALSE, request[r].flight) EXCEPT
                              !.task = "scheduled", !.observer = "watching"]
    <3>1. request[r].flight \in Nat /\ flights' = Append(flights, flight) /\ UNCHANGED cache
      BY <1>1, <2>2 DEF AddRefresh, Inv, RequestOK, At
    <3>2. /\ flight \in Flight /\ flight.task = "scheduled" /\ flight.refreshing
          /\ flight.observer = "watching"
      BY <3>1 DEF NewFlight, Flight, Tasks, Over
    <3> HIDE DEF flight
    <3> QED
      BY <3>1, <3>2, OneFlightComes
  <2> QED
    BY <1>1, <2>1, <2>2 DEF AddRefresh
<1>2. CASE \/ Lookup(r) \/ GetFlight(r) \/ Answered(r) \/ Abort(r)
           \/ (Join(r) \/ Replace(r) \/ Add(r)) /\ UNCHANGED flights
  BY <1>2, NoFlightChanges DEF Lookup, GetFlight, Answered, Abort, Join, Replace, Add, Fresh
<1>3. CASE (Join(r) \/ FirstWaiter(r)) /\ TryAcquire(r)
  BY <1>3, AcquireWanted DEF Join, FirstWaiter, At, Holding
<1>4. CASE (Replace(r) \/ Add(r)) /\ ~UNCHANGED flights
  <2> DEFINE flight == NewFlight(FALSE, r \in Warmups, NoEntry)
  <2>1. flights' = Append(flights, flight) /\ UNCHANGED cache
    BY <1>4 DEF Replace, Add, Register
  <2>2. flight \in Flight /\ flight.task = "none" /\ flight.observer = "none"
    <3>1. (r \in Warmups) \in BOOLEAN
      OBVIOUS
    <3> QED
      BY <3>1, NewFlightIs
  <2> HIDE DEF flight
  <2> QED
    BY <2>1, <2>2, OneFlightComes
<1>5. CASE FirstWaiter(r) /\ ~TryAcquire(r)
  BY <1>5, RefusedWanted
<1>6. Join(r) => UNCHANGED flights \/ TryAcquire(r)
  BY DEF Join
<1> QED
  BY <1>1, <1>2, <1>3, <1>4, <1>5, <1>6, StartWanted, LeaveWanted, CancelWanted DEF RequestStep

LEMMA SetTaskWanted ==
    ASSUME Inv, WantedInv, NEW f \in DOMAIN flights, NEW task \in Tasks, SetTask(f, task),
           Fresh' => Fresh, task # "scheduled",
           task \in {"loading", "checked"} =>
              \/ Loading(f)
              \/ flights[f].refreshing /\ (flights[f].forced \/ ~Fresh)
    PROVE  WantedInv'
<1> DEFINE flight == [flights[f] EXCEPT !.task = task]
<1>1. flights[f] \in Flight /\ WantedOK(f)
  BY FlightTypes DEF Inv, WantedInv
<1>2. /\ flight \in Flight /\ flights' = [flights EXCEPT ![f] = flight]
      /\ flight.refreshing = flights[f].refreshing /\ flight.forced = flights[f].forced
      /\ flight.task = task /\ flight.observer = flights[f].observer
      /\ flight.accepting = flights[f].accepting
      /\ flight.abandoned = flights[f].abandoned /\ flight.waiters = flights[f].waiters
  BY <1>1 DEF Flight, SetTask
<1> HIDE DEF flight
<1> QED
  BY <1>1, <1>2, OneFlightChanges DEF WantedOK, Loading, Fresh

\* A fresh entry comes from the one wanted load, which has ended its query with it.
LEMMA PublishWanted == ASSUME Inv, WantedInv, NEW f \in DOMAIN flights, Publish(f) PROVE WantedInv'
<1>1. /\ SetTask(f, "published") /\ flights[f] \in Flight /\ WantedOK(f)
      /\ flights[f].task = "checked"
  BY FlightTypes DEF Publish, Inv, WantedInv
<1> DEFINE flight == [flights[f] EXCEPT !.task = "published"]
<1>2. CASE flights[f].abandoned
  BY <1>1, <1>2, SetTaskWanted DEF Publish, TryPublish, Fresh, Tasks
<1>3. CASE ~flights[f].abandoned
  <2>1. /\ flight \in Flight /\ flights' = [flights EXCEPT ![f] = flight]
        /\ flight.task = "published" /\ flight.observer = flights[f].observer
        /\ flight.accepting = flights[f].accepting
    BY <1>1 DEF Flight, SetTask, Tasks
  <2> HIDE DEF flight
  <2>2. /\ DOMAIN flights' = DOMAIN flights /\ flights'[f] = flight
        /\ \A g \in DOMAIN flights : g # f => flights'[g] = flights[g]
    BY <2>1, FlightChanged DEF Inv
  <2>3. WantedOK(f)'
    BY <1>1, <2>1, <2>2 DEF WantedOK, Loading
  <2>4. ASSUME NEW g \in DOMAIN flights, g # f
        PROVE  WantedOK(g)'
    <3>1. ~Loading(g) \/ flights[g].abandoned
      BY <1>1, <1>3, <2>4 DEF Inv, FlightOK, Loading, Over
    <3> QED
      BY <2>2, <2>4, <3>1 DEF WantedInv, WantedOK, Loading
  <2> QED
    BY <2>2, <2>3, <2>4 DEF WantedInv
<1> QED
  BY <1>2, <1>3

LEMMA ObserverWanted ==
    ASSUME Inv, WantedInv, NEW f \in DOMAIN flights, MarkCompleted(f) \/ RemoveFlight(f)
    PROVE  WantedInv'
<1>1. flights[f] \in Flight /\ FlightOK(f) /\ WantedOK(f)
  BY FlightTypes DEF Inv, WantedInv
<1>2. CASE MarkCompleted(f)
  <2> DEFINE flight == [flights[f] EXCEPT !.observer = "marked", !.accepting = FALSE,
                                          !.stale = NoEntry]
  <2>1. /\ flight \in Flight /\ flights' = [flights EXCEPT ![f] = flight]
        /\ flight.refreshing = flights[f].refreshing /\ flight.forced = flights[f].forced
        /\ flight.task = flights[f].task /\ flight.observer = "marked"
        /\ flight.abandoned = flights[f].abandoned /\ flight.waiters = flights[f].waiters
    BY <1>1, <1>2 DEF Flight, MarkCompleted
  <2>2. Fresh' => Fresh
    BY <1>2 DEF MarkCompleted, RecordsFailure, Fresh, Inv, TypeOK
  <2> HIDE DEF flight
  <2> QED
    BY <1>1, <2>1, <2>2, OneFlightChanges DEF Loading
<1>3. CASE RemoveFlight(f)
  <2> DEFINE flight == [flights[f] EXCEPT !.observer = "gone"]
  <2>1. /\ flight \in Flight /\ flights' = [flights EXCEPT ![f] = flight] /\ UNCHANGED cache
        /\ flight.refreshing = flights[f].refreshing /\ flight.forced = flights[f].forced
        /\ flight.task = flights[f].task /\ flight.accepting = flights[f].accepting
        /\ flight.abandoned = flights[f].abandoned /\ flight.waiters = flights[f].waiters
    BY <1>1, <1>3 DEF Flight, RemoveFlight
  <2>2. ~flight.accepting
    BY <1>1, <1>3, <2>1 DEF RemoveFlight, FlightOK
  <2> HIDE DEF flight
  <2> QED
    BY <1>1, <2>1, <2>2, OneFlightChanges DEF Loading, Fresh
<1> QED
  BY <1>2, <1>3

LEMMA FlightWanted ==
    ASSUME Inv, WantedInv, NEW f \in DOMAIN flights, FlightStep(f)
    PROVE  WantedInv'
<1>1. CASE RunScheduled(f)
  BY <1>1, SetTaskWanted DEF RunScheduled, Rechecked, Tasks, Over, WantedInv, WantedOK, Fresh
<1>2. CASE LoaderReturns(f)
  BY <1>2, SetTaskWanted DEF LoaderReturns, Tasks, Over, Loading, Fresh
<1>3. CASE Return(f)
  BY <1>3, SetTaskWanted DEF Return, Tasks, Over, Fresh
<1> QED
  BY <1>1, <1>2, <1>3, PublishWanted, ObserverWanted DEF FlightStep

LEMMA WantedNext == Inv /\ WantedInv /\ [Next]_vars => WantedInv'
<1> SUFFICES ASSUME Inv, WantedInv, [Next]_vars
             PROVE  WantedInv'
  OBVIOUS
<1>1. CASE Time
  <2>1. UNCHANGED flights /\ (Fresh' => Fresh)
    BY <1>1 DEF Time, GoStale, BackoffOver, Evict, Fresh, Inv, TypeOK
  <2> QED
    BY <2>1, NoFlightChanges
<1>2. CASE UNCHANGED vars
  BY <1>2, NoFlightChanges DEF vars, Fresh
<1> QED
  BY <1>1, <1>2, RequestWanted, FlightWanted DEF Next

\* Only a refresh or a load somebody waits for is stored, and only a forced one over
\* a fresh entry, for any number of calls (SearchResponseCache.cs:555-571).
THEOREM StoredWasWanted == Spec => StoresWhatIsWanted
<1>1. Init => WantedInv
  <2>1. <<>> \in Seq(Flight) /\ Len(<<>>) = 0
    BY EmptySeq
  <2> QED
    BY <2>1, LenProperties DEF Init, WantedInv
<1>2. Inv /\ WantedInv /\ [Next]_vars =>
        [\A f \in DOMAIN flights :
            cache' # NoEntry /\ cache'.id = f /\ Id(cache) # {f} =>
                /\ flights[f].refreshing \/ flights[f].waiters # {}
                /\ flights[f].forced \/ ~Fresh]_vars
  <2> SUFFICES ASSUME Inv, WantedInv, Next, NEW f \in DOMAIN flights,
                      cache' # NoEntry, cache'.id = f, Id(cache) # {f}
               PROVE  /\ flights[f].refreshing \/ flights[f].waiters # {}
                      /\ flights[f].forced \/ ~Fresh
    BY DEF vars
  <2>1. cache # NoEntry => cache.id # f
    BY DEF Id
  <2>2. ~UNCHANGED cache
    BY <2>1
  <2>3. ~Time
    BY <2>1 DEF Time, GoStale, BackoffOver, Evict, Fresh, Inv, TypeOK
  <2>4. ASSUME NEW r \in Requests, Lookup(r) \/ RequestStep(r) \/ Abort(r)
        PROVE  FALSE
    BY <2>2, <2>4 DEF Lookup, RequestStep, Abort, AddRefresh, GetFlight, Join, Replace, Add,
       FirstWaiter, Start, Answered, Leave, CancelLoader
  <2>5. PICK g \in DOMAIN flights : FlightStep(g)
    BY <2>3, <2>4 DEF Next
  <2>6. ~MarkCompleted(g)
    BY <2>1 DEF MarkCompleted, RecordsFailure, Inv, TypeOK
  <2>7. Publish(g)
    BY <2>2, <2>5, <2>6 DEF FlightStep, RunScheduled, LoaderReturns, Return, RemoveFlight
  <2>8. ~flights[g].abandoned /\ cache' = [id |-> g, fresh |-> TRUE, backoff |-> FALSE]
    BY <2>2, <2>7 DEF Publish, TryPublish
  <2>9. g = f /\ Loading(f) /\ ~flights[f].abandoned
    BY <2>7, <2>8 DEF Publish, Loading
  <2> QED
    BY <2>9 DEF WantedInv, WantedOK
<1> QED
  BY <1>1, <1>2, WantedNext, Invariance, PTL DEF Spec, StoresWhatIsWanted
=============================================================================
