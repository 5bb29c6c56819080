---------------------- MODULE PlaybackOwnership_proofs ----------------------
(***************************************************************************)
(* For any number of tabs and messages: the types, and that of two players *)
(* one is always about to be paused.                                       *)
(***************************************************************************)
EXTENDS PlaybackOwnership, SequenceTheorems, TLAPS

-----------------------------------------------------------------------------
(* Messages and ways                                                        *)

\* Ageing keeps a message what it is.
LEMMA AgedMessage ==
    ASSUME NEW m \in Message
    PROVE  /\ [m EXCEPT !.age = Older(@)] \in Message
           /\ [m EXCEPT !.age = Older(@)].type = m.type
           /\ [m EXCEPT !.age = Older(@)].from = m.from
<1>1. Older(m.age) \in Ages
  BY OwnershipAssumption DEF Message, Ages, Older
<1> QED
  BY <1>1 DEF Message

\* An aged way has the same messages in the same places.
LEMMA AgedWay ==
    ASSUME NEW way \in Seq(Message)
    PROVE  /\ Aged(way) \in Seq(Message)
           /\ DOMAIN Aged(way) = DOMAIN way
           /\ \A i \in DOMAIN way : Aged(way)[i].type = way[i].type /\ Aged(way)[i].from = way[i].from
<1>1. DOMAIN way = 1..Len(way) /\ Len(way) \in Nat /\ \A i \in DOMAIN way : way[i] \in Message
  BY LenProperties, ElementOfSeq
<1>2. \A i \in DOMAIN way : /\ Aged(way)[i] \in Message
                            /\ Aged(way)[i].type = way[i].type
                            /\ Aged(way)[i].from = way[i].from
  BY <1>1, AgedMessage DEF Aged
<1>3. Aged(way) \in [1..Len(way) -> Message]
  BY <1>1, <1>2 DEF Aged
<1>4. Aged(way) \in Seq(Message)
  BY <1>1, <1>3, SeqDef
<1> QED
  BY <1>2, <1>4 DEF Aged

\* Sending adds one message to the ways of the others that are open.
LEMMA SentType ==
    ASSUME NEW ways \in [Tabs -> Seq(Message)], NEW t \in Tabs, NEW m \in Message
    PROVE  Sent(ways, t, m) \in [Tabs -> Seq(Message)]
BY AppendProperties DEF Sent

\* A way on which a claim of tab t is under way.
Tells(way, t) == \E i \in DOMAIN way : way[i].type = "claim" /\ way[i].from = t

\* It stays so when a message is added ...
LEMMA TellsAppend ==
    ASSUME NEW way \in Seq(Message), NEW m \in Message, NEW t, Tells(way, t)
    PROVE  Tells(Append(way, m), t)
<1>1. PICK i \in 1..Len(way) : way[i].type = "claim" /\ way[i].from = t
  BY LenProperties DEF Tells
<1>2. /\ Append(way, m)[i] = way[i] /\ i \in 1..Len(Append(way, m))
      /\ DOMAIN Append(way, m) = 1..Len(Append(way, m))
  BY <1>1, AppendProperties, LenProperties
<1> QED
  BY <1>1, <1>2 DEF Tells

\* ... which may be the claim, ...
LEMMA TellsAppended ==
    ASSUME NEW way \in Seq(Message), NEW m \in Message, m.type = "claim"
    PROVE  Tells(Append(way, m), m.from)
<1>1. /\ Append(way, m)[Len(way) + 1] = m /\ Len(way) + 1 \in 1..Len(Append(way, m))
      /\ DOMAIN Append(way, m) = 1..Len(Append(way, m))
  BY AppendProperties, LenProperties
<1> QED
  BY <1>1 DEF Tells

\* ... when one that is no claim is delivered, ...
LEMMA TellsTail ==
    ASSUME NEW way \in Seq(Message), way # <<>>, NEW t, Tells(way, t), Head(way).type # "claim"
    PROVE  Tells(Tail(way), t)
<1>1. PICK i \in 1..Len(way) : way[i].type = "claim" /\ way[i].from = t
  BY LenProperties DEF Tells
<1>2. i # 1
  BY <1>1
<1>3. /\ Tail(way) \in Seq(Message) /\ Len(Tail(way)) = Len(way) - 1
      /\ \A j \in 1..Len(Tail(way)) : Tail(way)[j] = way[j + 1]
  BY HeadTailProperties
<1>4. i - 1 \in DOMAIN Tail(way) /\ Tail(way)[i - 1] = way[i]
  BY <1>1, <1>2, <1>3, LenProperties
<1> QED
  BY <1>1, <1>4 DEF Tells

\* ... and while time goes by.
LEMMA TellsAged ==
    ASSUME NEW way \in Seq(Message), NEW t, Tells(way, t)
    PROVE  Tells(Aged(way), t)
BY AgedWay DEF Tells

-----------------------------------------------------------------------------
(* The invariant                                                            *)

\* Whoever plays is open, and so is told by every claim.
PlayersAreOpen == \A t \in Tabs : playing[t] => open[t]

Inv == TypeOK /\ PlayersAreOpen /\ TwoPlayersAreTold

\* TwoPlayersAreTold, one pair at a time.
Told(t, u, p, ways) == p[t] /\ p[u] => Tells(ways[u], t) \/ Tells(ways[t], u)

LEMMA ToldPairs ==
    TwoPlayersAreTold <=> \A t, u \in Tabs : t # u => Told(t, u, playing, channel)
BY DEF TwoPlayersAreTold, ClaimUnderWay, Told, Tells

LEMMA ToldPairsNext ==
    TwoPlayersAreTold' <=> \A t, u \in Tabs : t # u => Told(t, u, playing', channel')
BY DEF TwoPlayersAreTold, ClaimUnderWay, Told, Tells

\* What applyMessage and broadcast make of the types.
LEMMA KnowsType ==
    ASSUME TypeOK, NEW t \in Tabs, NEW which \in {"none", "local", "remote"},
           NEW age \in Ages \cup {None}, Knows(t, which, age)
    PROVE  /\ state' \in [Tabs -> {"none", "local", "remote"}]
           /\ claimAge' \in [Tabs -> Ages \cup {None}]
           /\ timer' \in [Tabs -> BOOLEAN]
BY DEF TypeOK, Knows

MessageOf(type, t) == [type |-> type, from |-> t, age |-> 0]

LEMMA MessageType ==
    ASSUME NEW type \in {"claim", "release"}, NEW t \in Tabs
    PROVE  MessageOf(type, t) \in Message
BY OwnershipAssumption DEF MessageOf, Message, Ages

LEMMA BroadcastType ==
    ASSUME TypeOK, NEW t \in Tabs, NEW type \in {"claim", "release"}, Broadcast(t, type)
    PROVE  /\ channel' \in [Tabs -> Seq(Message)] /\ events' \in [Tabs -> Seq(Message)]
           /\ stored' \in Message \cup {None}
BY MessageType, SentType DEF TypeOK, Broadcast, MessageOf

LEMMA ReleaseType ==
    ASSUME TypeOK, NEW t \in Tabs, Release(t)
    PROVE  /\ state' \in [Tabs -> {"none", "local", "remote"}]
           /\ claimAge' \in [Tabs -> Ages \cup {None}]
           /\ timer' \in [Tabs -> BOOLEAN]
           /\ channel' \in [Tabs -> Seq(Message)] /\ events' \in [Tabs -> Seq(Message)]
           /\ stored' \in Message \cup {None}
<1>1. CASE state[t] = "local" /\ Knows(t, "none", None) /\ Broadcast(t, "release")
  BY <1>1, KnowsType, BroadcastType
<1>2. CASE UNCHANGED <<tabVars, wayVars>>
  BY <1>2 DEF TypeOK, tabVars, wayVars
<1> QED
  BY <1>1, <1>2 DEF Release

LEMMA ClaimType ==
    ASSUME TypeOK, NEW t \in Tabs, Claim(t)
    PROVE  /\ state' \in [Tabs -> {"none", "local", "remote"}]
           /\ claimAge' \in [Tabs -> Ages \cup {None}]
           /\ timer' \in [Tabs -> BOOLEAN]
           /\ channel' \in [Tabs -> Seq(Message)] /\ events' \in [Tabs -> Seq(Message)]
           /\ stored' \in Message \cup {None}
BY KnowsType, BroadcastType DEF Claim

LEMMA HearType ==
    ASSUME TypeOK, NEW t \in Tabs, NEW m \in Message, Hear(t, m)
    PROVE  /\ state' \in [Tabs -> {"none", "local", "remote"}]
           /\ claimAge' \in [Tabs -> Ages \cup {None}]
           /\ timer' \in [Tabs -> BOOLEAN]
           /\ playing' \in [Tabs -> BOOLEAN]
<1>1. m.age \in Ages
  BY DEF Message
<1>2. CASE m.type = "claim" /\ Knows(t, "remote", m.age)
           /\ playing' = [playing EXCEPT ![t] = FALSE]
  BY <1>1, <1>2, KnowsType DEF TypeOK
<1>3. CASE Knows(t, "none", None) /\ UNCHANGED playing
  BY <1>3, KnowsType DEF TypeOK
<1>4. CASE UNCHANGED <<tabVars, playing>>
  BY <1>4 DEF TypeOK, tabVars
<1> QED
  BY <1>2, <1>3, <1>4 DEF Hear

\* The first read of a page gives a state and, of a remote claim, its age.
LEMMA InitialType ==
    ASSUME TypeOK, NEW t \in Tabs
    PROVE  /\ InitialState(t) \in {"none", "local", "remote"}
           /\ InitialState(t) = "remote" => stored.age \in Ages
BY DEF TypeOK, InitialState, Message

LEMMA GoneType ==
    ASSUME NEW ways \in [Tabs -> Seq(Message)], NEW t \in Tabs
    PROVE  Gone(t, ways) \in [Tabs -> Seq(Message)]
BY EmptySeq DEF Gone

LEMMA DeliveredType ==
    ASSUME NEW ways \in [Tabs -> Seq(Message)], NEW t \in Tabs, ways[t] # <<>>
    PROVE  /\ Head(ways[t]) \in Message
           /\ [ways EXCEPT ![t] = Tail(@)] \in [Tabs -> Seq(Message)]
BY HeadTailProperties

\* Every step keeps the types.
LEMMA TypeNext ==
    ASSUME TypeOK, [Next]_vars
    PROVE  TypeOK'
<1> USE DEF Gesture
<1>1. CASE Tick
  <2>1. \A age \in Ages : Older(age) \in Ages
    BY OwnershipAssumption DEF Ages, Older
  <2>2. claimAge' \in [Tabs -> Ages \cup {None}]
    BY <1>1, <2>1 DEF TypeOK, Tick
  <2>3. channel' \in [Tabs -> Seq(Message)] /\ events' \in [Tabs -> Seq(Message)]
    BY <1>1, AgedWay DEF TypeOK, Tick
  <2>4. stored' \in Message \cup {None}
    BY <1>1, AgedMessage DEF TypeOK, Tick
  <2> QED
    BY <1>1, <2>2, <2>3, <2>4 DEF TypeOK, Tick
<1>2. ASSUME NEW t \in Tabs, Load(t)
      PROVE  TypeOK'
  <2>1. (IF InitialState(t) = "remote" THEN stored.age ELSE None) \in Ages \cup {None}
    BY InitialType
  <2>2. /\ state' \in [Tabs -> {"none", "local", "remote"}]
        /\ claimAge' \in [Tabs -> Ages \cup {None}] /\ timer' \in [Tabs -> BOOLEAN]
    <3> DEFINE first == InitialState(t)
               age == IF first = "remote" THEN stored.age ELSE None
    <3>1. Knows(t, first, age)
      BY <1>2 DEF Load
    <3> HIDE DEF first, age
    <3>2. first \in {"none", "local", "remote"} /\ age \in Ages \cup {None}
      BY <2>1, InitialType DEF first, age
    <3> QED
      BY <3>1, <3>2, KnowsType
  <2>3. /\ open' \in [Tabs -> BOOLEAN] /\ playing' \in [Tabs -> BOOLEAN]
        /\ gestures' \in Nat
    BY <1>2 DEF TypeOK, Load
  <2>4. UNCHANGED <<channel, events, stored>>
    BY <1>2 DEF Load, wayVars
  <2> QED
    BY <2>2, <2>3, <2>4 DEF TypeOK
<1>3. ASSUME NEW t \in Tabs, LoadSongPage(t)
      PROVE  TypeOK'
  BY <1>3, ClaimType DEF TypeOK, LoadSongPage
<1>4. ASSUME NEW t \in Tabs, Play(t)
      PROVE  TypeOK'
  BY <1>4, ClaimType DEF TypeOK, Play
<1>5. ASSUME NEW t \in Tabs, Pause(t)
      PROVE  TypeOK'
  BY <1>5 DEF TypeOK, Pause, tabVars, wayVars
<1>6. ASSUME NEW t \in Tabs, ClosePlayer(t)
      PROVE  TypeOK'
  BY <1>6, ReleaseType DEF TypeOK, ClosePlayer
<1>7. ASSUME NEW t \in Tabs, Unload(t)
      PROVE  TypeOK'
  <2> DEFINE message == [type |-> "release", from |-> t, age |-> 0]
  <2>1. message \in Message
    BY MessageType DEF MessageOf
  <2>2. /\ Gone(t, Sent(channel, t, message)) \in [Tabs -> Seq(Message)]
        /\ Gone(t, Sent(events, t, message)) \in [Tabs -> Seq(Message)]
        /\ Gone(t, channel) \in [Tabs -> Seq(Message)]
        /\ Gone(t, events) \in [Tabs -> Seq(Message)]
    BY <2>1, SentType, GoneType DEF TypeOK
  <2>3. /\ channel' \in [Tabs -> Seq(Message)] /\ events' \in [Tabs -> Seq(Message)]
        /\ stored' \in Message \cup {None}
    BY <1>7, <2>1, <2>2 DEF TypeOK, Unload
  <2>4. /\ state' \in [Tabs -> {"none", "local", "remote"}]
        /\ claimAge' \in [Tabs -> Ages \cup {None}] /\ timer' \in [Tabs -> BOOLEAN]
    BY <1>7, KnowsType DEF Unload
  <2>5. /\ open' \in [Tabs -> BOOLEAN] /\ playing' \in [Tabs -> BOOLEAN]
        /\ gestures' \in Nat
    BY <1>7 DEF TypeOK, Unload
  <2> QED
    BY <2>3, <2>4, <2>5 DEF TypeOK
<1>8. ASSUME NEW t \in Tabs, Crash(t)
      PROVE  TypeOK'
  <2>1. /\ state' \in [Tabs -> {"none", "local", "remote"}]
        /\ claimAge' \in [Tabs -> Ages \cup {None}] /\ timer' \in [Tabs -> BOOLEAN]
    BY <1>8, KnowsType DEF Crash
  <2>2. channel' \in [Tabs -> Seq(Message)] /\ events' \in [Tabs -> Seq(Message)]
    BY <1>8, GoneType DEF TypeOK, Crash
  <2>3. /\ open' \in [Tabs -> BOOLEAN] /\ playing' \in [Tabs -> BOOLEAN]
        /\ gestures' \in Nat /\ stored' \in Message \cup {None}
    BY <1>8 DEF TypeOK, Crash
  <2> QED
    BY <2>1, <2>2, <2>3 DEF TypeOK
<1>9. ASSUME NEW t \in Tabs, Heartbeat(t)
      PROVE  TypeOK'
  BY <1>9, ClaimType DEF TypeOK, Heartbeat
<1>10. ASSUME NEW t \in Tabs, HearChannel(t)
       PROVE  TypeOK'
  <2>1. Head(channel[t]) \in Message /\ channel' \in [Tabs -> Seq(Message)]
    BY <1>10, DeliveredType DEF TypeOK, HearChannel
  <2> QED
    BY <1>10, <2>1, HearType DEF TypeOK, HearChannel
<1>11. ASSUME NEW t \in Tabs, HearEvent(t)
       PROVE  TypeOK'
  <2>1. Head(events[t]) \in Message /\ events' \in [Tabs -> Seq(Message)]
    BY <1>11, DeliveredType DEF TypeOK, HearEvent
  <2> QED
    BY <1>11, <2>1, HearType DEF TypeOK, HearEvent
<1>12. ASSUME NEW t \in Tabs, TimerFires(t) \/ GetState(t)
       PROVE  TypeOK'
  BY <1>12, KnowsType DEF TypeOK, TimerFires, GetState, wayVars
<1>13. CASE UNCHANGED vars
  BY <1>13 DEF TypeOK, vars, tabVars, wayVars
<1> QED
  BY <1>1, <1>2, <1>3, <1>4, <1>5, <1>6, <1>7, <1>8, <1>9, <1>10, <1>11, <1>12, <1>13
  DEF Next, Step

LEMMA TypeInit == Init => TypeOK
BY OwnershipAssumption, EmptySeq DEF Init, TypeOK

\* Every reachable state has its type, for any tabs and bounds.
THEOREM TypeCorrect == Spec => []TypeOK
BY TypeInit, TypeNext, PTL DEF Spec

-----------------------------------------------------------------------------
(* Two players                                                              *)

\* What was told of two tabs is still told when neither starts to play and what
\* their ways tell is not lost.
LEMMA StillTold ==
    ASSUME TwoPlayersAreTold,
           \A t \in Tabs : playing'[t] => playing[t],
           \A t, u \in Tabs : playing'[u] /\ Tells(channel[u], t) => Tells(channel'[u], t)
    PROVE  TwoPlayersAreTold'
BY ToldPairs, ToldPairsNext DEF Told

\* Sending loses nothing, and whoever is open hears it.
LEMMA SentTells ==
    ASSUME TypeOK, NEW t \in Tabs, NEW m \in Message, m.from = t
    PROVE  /\ \A u, v \in Tabs : Tells(channel[u], v) => Tells(Sent(channel, t, m)[u], v)
           /\ m.type = "claim" =>
                 \A u \in Tabs : u # t /\ open[u] => Tells(Sent(channel, t, m)[u], t)
<1>1. ASSUME NEW u \in Tabs, NEW v \in Tabs, Tells(channel[u], v)
      PROVE  Tells(Sent(channel, t, m)[u], v)
  BY <1>1, TellsAppend DEF TypeOK, Sent
<1>2. ASSUME m.type = "claim", NEW u \in Tabs, u # t, open[u]
      PROVE  Tells(Sent(channel, t, m)[u], t)
  BY <1>2, TellsAppended DEF TypeOK, Sent
<1> QED
  BY <1>1, <1>2

\* A tab that claims when it starts to play, or again, has told all that play.
LEMMA ClaimTells ==
    ASSUME Inv, NEW t \in Tabs, Claim(t),
           \A u \in Tabs : u # t /\ playing'[u] => playing[u]
    PROVE  TwoPlayersAreTold'
<1> DEFINE m == MessageOf("claim", t)
<1>1. m \in Message /\ m.from = t /\ m.type = "claim"
  BY MessageType DEF MessageOf
<1>2. channel' = Sent(channel, t, m)
  BY DEF Claim, Broadcast, MessageOf
<1>3. \A u, v \in Tabs : Tells(channel[u], v) => Tells(channel'[u], v)
  BY <1>1, <1>2, SentTells DEF Inv
<1>4. \A u \in Tabs : u # t /\ open[u] => Tells(channel'[u], t)
  BY <1>1, <1>2, SentTells DEF Inv
<1>5. ASSUME NEW u \in Tabs, NEW v \in Tabs, u # v
      PROVE  Told(u, v, playing', channel')
  <2>1. CASE u = t
    BY <1>4, <1>5, <2>1 DEF Told, Inv, PlayersAreOpen
  <2>2. CASE v = t
    BY <1>4, <1>5, <2>2 DEF Told, Inv, PlayersAreOpen
  <2>3. CASE u # t /\ v # t
    BY <1>3, <1>5, <2>3, ToldPairs DEF Told, Inv
  <2> QED
    BY <2>1, <2>2, <2>3
<1> QED
  BY <1>5, ToldPairsNext

\* A release takes nothing back.
LEMMA ReleaseTells ==
    ASSUME TypeOK, NEW t \in Tabs, Release(t)
    PROVE  \A u, v \in Tabs : Tells(channel[u], v) => Tells(channel'[u], v)
<1> DEFINE m == MessageOf("release", t)
<1>1. m \in Message /\ m.from = t
  BY MessageType DEF MessageOf
<1>2. CASE channel' = Sent(channel, t, m)
  BY <1>1, <1>2, SentTells
<1>3. CASE channel' = channel
  BY <1>3
<1> QED
  BY <1>2, <1>3 DEF Release, Broadcast, MessageOf, wayVars

\* A tab that goes takes only its own way along.
LEMMA GoneTells ==
    ASSUME TypeOK, NEW t \in Tabs, Unload(t) \/ Crash(t)
    PROVE  \A u, v \in Tabs : u # t /\ Tells(channel[u], v) => Tells(channel'[u], v)
<1> DEFINE m == MessageOf("release", t)
<1>1. m \in Message /\ m.from = t
  BY MessageType DEF MessageOf
<1>2. CASE channel' = Gone(t, channel)
  BY <1>2 DEF Gone, TypeOK
<1>3. CASE channel' = Gone(t, Sent(channel, t, m))
  <2>1. \A u \in Tabs : u # t => channel'[u] = Sent(channel, t, m)[u]
    BY <1>3 DEF Gone, Sent
  <2> QED
    BY <1>1, <2>1, SentTells
<1> QED
  BY <1>2, <1>3 DEF Unload, Crash, MessageOf

\* What a tab hears of somebody else's claim stops it, and a release that is
\* delivered was no claim.
LEMMA HearTells ==
    ASSUME Inv, NEW t \in Tabs, HearChannel(t) \/ HearEvent(t)
    PROVE  TwoPlayersAreTold'
<1>1. CASE HearChannel(t)
  <2>1. \A u \in Tabs : playing'[u] => playing[u]
    BY <1>1 DEF HearChannel, Hear, Inv, TypeOK
  <2>2. ASSUME NEW u \in Tabs, NEW v \in Tabs, playing'[u], Tells(channel[u], v)
        PROVE  Tells(channel'[u], v)
    <3>1. CASE u # t
      BY <1>1, <2>2, <3>1 DEF HearChannel, Inv, TypeOK
    <3>2. CASE u = t
      <4>1. Head(channel[t]).type # "claim"
        BY <1>1, <2>2, <3>2 DEF HearChannel, Hear, Inv, TypeOK
      <4>2. channel'[t] = Tail(channel[t]) /\ channel[t] # <<>> /\ channel[t] \in Seq(Message)
        BY <1>1 DEF HearChannel, Inv, TypeOK
      <4> QED
        BY <2>2, <3>2, <4>1, <4>2, TellsTail
    <3> QED
      BY <3>1, <3>2
  <2> QED
    BY <2>1, <2>2, StillTold DEF Inv
<1>2. CASE HearEvent(t)
  <2>1. (\A u \in Tabs : playing'[u] => playing[u]) /\ channel' = channel
    BY <1>2 DEF HearEvent, Hear, Inv, TypeOK
  <2> QED
    BY <2>1, StillTold DEF Inv
<1> QED
  BY <1>1, <1>2

LEMMA ToldNext ==
    ASSUME Inv, [Next]_vars
    PROVE  TwoPlayersAreTold'
<1>1. CASE Tick
  <2>1. \A t, u \in Tabs : Tells(channel[u], t) => Tells(channel'[u], t)
    BY <1>1, TellsAged DEF Tick, Inv, TypeOK
  <2> QED
    BY <1>1, <2>1, StillTold DEF Tick, Inv
<1>2. ASSUME NEW t \in Tabs, Load(t) \/ TimerFires(t) \/ GetState(t)
      PROVE  TwoPlayersAreTold'
  <2>1. UNCHANGED <<playing, channel>>
    BY <1>2 DEF Load, TimerFires, GetState, wayVars
  <2> QED
    BY <2>1, StillTold DEF Inv
<1>3. ASSUME NEW t \in Tabs, LoadSongPage(t) \/ Play(t) \/ Heartbeat(t)
      PROVE  TwoPlayersAreTold'
  <2>1. Claim(t) /\ \A u \in Tabs : u # t /\ playing'[u] => playing[u]
    BY <1>3 DEF LoadSongPage, Play, Heartbeat, Inv, TypeOK
  <2> QED
    BY <2>1, ClaimTells
<1>4. ASSUME NEW t \in Tabs, Pause(t)
      PROVE  TwoPlayersAreTold'
  BY <1>4, StillTold DEF Pause, wayVars, Inv, TypeOK
<1>5. ASSUME NEW t \in Tabs, ClosePlayer(t)
      PROVE  TwoPlayersAreTold'
  <2>1. \A u \in Tabs : playing'[u] => playing[u]
    BY <1>5 DEF ClosePlayer, Inv, TypeOK
  <2> QED
    BY <1>5, <2>1, ReleaseTells, StillTold DEF ClosePlayer, Inv
<1>6. ASSUME NEW t \in Tabs, Unload(t) \/ Crash(t)
      PROVE  TwoPlayersAreTold'
  <2>1. \A u \in Tabs : playing'[u] => playing[u] /\ u # t
    BY <1>6 DEF Unload, Crash, Inv, TypeOK
  <2> QED
    BY <1>6, <2>1, GoneTells, StillTold DEF Inv
<1>7. CASE UNCHANGED vars
  BY <1>7, StillTold DEF vars, wayVars, Inv
<1> QED
  BY <1>1, <1>2, <1>3, <1>4, <1>5, <1>6, <1>7, HearTells DEF Next, Step

\* Whoever plays was open when it started and stops when it goes.
LEMMA OpenNext ==
    ASSUME TypeOK, PlayersAreOpen, [Next]_vars
    PROVE  PlayersAreOpen'
<1>1. CASE Tick \/ UNCHANGED vars
  BY <1>1 DEF Tick, vars, PlayersAreOpen
<1>2. ASSUME NEW t \in Tabs, Load(t) \/ LoadSongPage(t) \/ Play(t) \/ Pause(t) \/ ClosePlayer(t)
      PROVE  PlayersAreOpen'
  BY <1>2 DEF Load, LoadSongPage, Play, Pause, ClosePlayer, PlayersAreOpen, TypeOK
<1>3. ASSUME NEW t \in Tabs, Unload(t) \/ Crash(t)
      PROVE  PlayersAreOpen'
  BY <1>3 DEF Unload, Crash, PlayersAreOpen, TypeOK
<1>4. ASSUME NEW t \in Tabs,
             Heartbeat(t) \/ HearChannel(t) \/ HearEvent(t) \/ TimerFires(t) \/ GetState(t)
      PROVE  PlayersAreOpen'
  BY <1>4 DEF Heartbeat, HearChannel, HearEvent, Hear, TimerFires, GetState, PlayersAreOpen, TypeOK
<1> QED
  BY <1>1, <1>2, <1>3, <1>4 DEF Next, Step

\* Of two tabs that play at once one has a claim coming that will pause it, in
\* any number of tabs and however late the messages (onRemoteClaim).
THEOREM TwoPlayersAreAlwaysTold == Spec => []TwoPlayersAreTold
<1>1. Init => Inv
  <2>1. Init => PlayersAreOpen /\ TwoPlayersAreTold
    BY DEF Init, PlayersAreOpen, TwoPlayersAreTold
  <2> QED
    BY <2>1, TypeInit DEF Inv
<1>2. Inv /\ [Next]_vars => Inv'
  <2> SUFFICES ASSUME Inv, [Next]_vars PROVE Inv'
    OBVIOUS
  <2> QED
    BY TypeNext, OpenNext, ToldNext DEF Inv
<1>3. Inv => TwoPlayersAreTold
  BY DEF Inv
<1> QED
  BY <1>1, <1>2, <1>3, PTL DEF Spec
=============================================================================
