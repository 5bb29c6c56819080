-------------------------- MODULE PlaybackOwnership --------------------------
(***************************************************************************)
(* Which tab plays: services/playbackOwnership.ts, and what PlayerEmbed    *)
(* (components/player/PlayerEmbed.tsx) and the song page                   *)
(* (pages/WatchPage.tsx) do with it.                                       *)
(*                                                                         *)
(* A tab that plays claims the playback, again every three seconds, and a  *)
(* tab that hears another's claim pauses.  Every message is sent twice,    *)
(* over a BroadcastChannel and by a write to localStorage, whose storage   *)
(* events arrive in an order of their own; a tab that opens reads the last *)
(* write.  Time is kept as the age of a claim: it is stale from age Stale  *)
(* on (PLAYBACK_OWNER_STALE_MS), and stays there.                          *)
(*                                                                         *)
(* Abstracted: the bfcache, where a page hears nothing and is suspended as *)
(* a whole, and tabs without localStorage or without a BroadcastChannel.   *)
(***************************************************************************)
EXTENDS Naturals, Sequences

CONSTANTS
    Tabs,           \* by the id each keeps in its sessionStorage
    Stale,          \* the age from which a claim counts no more
    None,           \* null
    MaxGestures,    \* bound: tabs opened or closed, plays started or paused
    MaxQueued       \* bound: messages on their way to a tab, per way

ASSUME OwnershipAssumption ==
    /\ Stale \in Nat \ {0} /\ None \notin Nat
    /\ MaxGestures \in Nat /\ MaxQueued \in Nat \ {0}

VARIABLES
    open,
    playing,    \* per tab: isPlaying
    state,      \* per tab: "none", "local" or "remote"
    claimAge,   \* per tab: the age of the remote claim it knows
    timer,      \* per tab: is remoteExpiryTimer set, for that claim?
    channel,    \* per tab: BroadcastChannel messages on their way to it
    events,     \* per tab: storage events on their way to it
    stored,     \* localStorage: the last message
    gestures    \* how many there have been

tabVars == <<state, claimAge, timer>>
wayVars == <<channel, events, stored>>
vars == <<open, playing, tabVars, wayVars, gestures>>

Ages == 0 .. Stale
Message == [type : {"claim", "release"}, from : Tabs, age : Ages]

\* Some tabs are open, none has played yet.
Init ==
    /\ open \in [Tabs -> BOOLEAN]
    /\ playing = [t \in Tabs |-> FALSE]
    /\ state = [t \in Tabs |-> "none"]
    /\ claimAge = [t \in Tabs |-> None]
    /\ timer = [t \in Tabs |-> FALSE]
    /\ channel = [t \in Tabs |-> <<>>]
    /\ events = [t \in Tabs |-> <<>>]
    /\ stored = None
    /\ gestures = 0

-----------------------------------------------------------------------------
(* applyMessage and broadcast                                               *)

Knows(t, which, age) ==
    /\ state' = [state EXCEPT ![t] = which]
    /\ claimAge' = [claimAge EXCEPT ![t] = age]
    /\ timer' = [timer EXCEPT ![t] = age # None]

Sent(ways, t, message) ==
    [u \in Tabs |-> IF u # t /\ open[u] THEN Append(ways[u], message) ELSE ways[u]]

Broadcast(t, type) ==
    LET message == [type |-> type, from |-> t, age |-> 0]
    IN /\ \A u \in Tabs \ {t} : Len(channel[u]) < MaxQueued /\ Len(events[u]) < MaxQueued
       /\ channel' = Sent(channel, t, message)
       /\ events' = Sent(events, t, message)
       /\ stored' = message

Claim(t) == Knows(t, "local", None) /\ Broadcast(t, "claim")

\* Only an owner releases.
Release(t) ==
    \/ state[t] = "local" /\ Knows(t, "none", None) /\ Broadcast(t, "release")
    \/ state[t] # "local" /\ UNCHANGED <<tabVars, wayVars>>

HearNotPausing(t, message) ==
    /\ \/ message.type = "claim" /\ Knows(t, "remote", message.age)
       \/ message.type = "release" /\ state[t] = "remote" /\ Knows(t, "none", None)
       \/ message.type = "release" /\ state[t] # "remote" /\ UNCHANGED tabVars
    /\ UNCHANGED playing

\* A claim of another tab pauses this one.  A release is taken for the owner's,
\* whoever it is from.
Hear(t, message) ==
    \/ /\ message.type = "claim"
       /\ Knows(t, "remote", message.age)
       /\ playing' = [playing EXCEPT ![t] = FALSE]
    \/ /\ message.type = "release" /\ state[t] = "remote"
       /\ Knows(t, "none", None)
       /\ UNCHANGED playing
    \/ /\ message.type = "release" /\ state[t] # "remote"
       /\ UNCHANGED <<tabVars, playing>>

-----------------------------------------------------------------------------
Gesture == gestures < MaxGestures /\ gestures' = gestures + 1

\* readInitialOwnership: the state of a new page from the last message.
InitialState(t) ==
    IF stored = None \/ stored.type # "claim" \/ stored.age = Stale THEN "none"
    ELSE IF stored.from = t THEN "local" ELSE "remote"

LoadUntimed(t) ==
    /\ ~open[t] /\ Gesture
    /\ open' = [open EXCEPT ![t] = TRUE]
    /\ LET first == InitialState(t)
       IN  /\ state' = [state EXCEPT ![t] = first]
           /\ claimAge' = [claimAge EXCEPT ![t] =
                              IF first = "remote" THEN stored.age ELSE None]
    /\ UNCHANGED <<playing, timer, wayVars>>

\* A page that does not play by itself.
Load(t) ==
    /\ ~open[t] /\ Gesture
    /\ open' = [open EXCEPT ![t] = TRUE]
    /\ LET first == InitialState(t)
       IN Knows(t, first, IF first = "remote" THEN stored.age ELSE None)
    /\ UNCHANGED <<playing, wayVars>>

\* The page of a song plays unless another tab does.
LoadSongPage(t) ==
    /\ ~open[t] /\ Gesture
    /\ InitialState(t) # "remote"
    /\ open' = [open EXCEPT ![t] = TRUE]
    /\ playing' = [playing EXCEPT ![t] = TRUE]
    /\ Claim(t)

\* The user plays; the effect of PlayerEmbed claims.
Play(t) ==
    /\ open[t] /\ ~playing[t] /\ Gesture
    /\ playing' = [playing EXCEPT ![t] = TRUE]
    /\ Claim(t)
    /\ UNCHANGED open

\* A paused tab stays the owner and says no more.
Pause(t) ==
    /\ playing[t] /\ Gesture
    /\ playing' = [playing EXCEPT ![t] = FALSE]
    /\ UNCHANGED <<open, tabVars, wayVars>>

\* closePlayer unmounts the player.
ClosePlayer(t) ==
    /\ open[t] /\ Gesture
    /\ playing' = [playing EXCEPT ![t] = FALSE]
    /\ Release(t)
    /\ UNCHANGED open

Gone(t, ways) == [ways EXCEPT ![t] = <<>>]

\* pagehide
Unload(t) ==
    /\ open[t] /\ Gesture
    /\ open' = [open EXCEPT ![t] = FALSE]
    /\ playing' = [playing EXCEPT ![t] = FALSE]
    /\ Knows(t, "none", None)
    /\ LET message == [type |-> "release", from |-> t, age |-> 0]
       IN \/ /\ state[t] = "local"
             /\ \A u \in Tabs \ {t} : Len(channel[u]) < MaxQueued /\ Len(events[u]) < MaxQueued
             /\ channel' = Gone(t, Sent(channel, t, message))
             /\ events' = Gone(t, Sent(events, t, message))
             /\ stored' = message
          \/ /\ state[t] # "local"
             /\ channel' = Gone(t, channel)
             /\ events' = Gone(t, events)
             /\ UNCHANGED stored

Crash(t) ==
    /\ open[t] /\ Gesture
    /\ open' = [open EXCEPT ![t] = FALSE]
    /\ playing' = [playing EXCEPT ![t] = FALSE]
    /\ Knows(t, "none", None)
    /\ channel' = Gone(t, channel)
    /\ events' = Gone(t, events)
    /\ UNCHANGED stored

-----------------------------------------------------------------------------
ClaimOnce(t) ==
    /\ playing[t] /\ state[t] # "local"
    /\ Claim(t)
    /\ UNCHANGED <<open, playing, gestures>>

\* refreshClaim, every PLAYBACK_OWNER_HEARTBEAT_MS; to bound what is under way, a
\* claim is refreshed only when the others have heard the one before.
Heartbeat(t) ==
    /\ playing[t]
    /\ \A u \in Tabs \ {t} : channel[u] = <<>> /\ events[u] = <<>>
    /\ Claim(t)
    /\ UNCHANGED <<open, playing, gestures>>

HearChannel(t) ==
    /\ channel[t] # <<>>
    /\ Hear(t, Head(channel[t]))
    /\ channel' = [channel EXCEPT ![t] = Tail(@)]
    /\ UNCHANGED <<open, events, stored, gestures>>

HearEvent(t) ==
    /\ events[t] # <<>>
    /\ Hear(t, Head(events[t]))
    /\ events' = [events EXCEPT ![t] = Tail(@)]
    /\ UNCHANGED <<open, channel, stored, gestures>>

Expired(t) == state[t] = "remote" /\ claimAge[t] = Stale

\* scheduleRemoteExpiry's timer.
TimerFires(t) ==
    /\ timer[t] /\ Expired(t)
    /\ Knows(t, "none", None)
    /\ UNCHANGED <<open, playing, wayVars, gestures>>

\* getState, when something else renders.
GetState(t) ==
    /\ Expired(t)
    /\ Knows(t, "none", None)
    /\ UNCHANGED <<open, playing, wayVars, gestures>>

Older(age) == IF age < Stale THEN age + 1 ELSE Stale
Aged(way) == [i \in DOMAIN way |-> [way[i] EXCEPT !.age = Older(@)]]

\* Time goes by.
Tick ==
    /\ claimAge' = [t \in Tabs |-> IF claimAge[t] = None THEN None ELSE Older(claimAge[t])]
    /\ channel' = [t \in Tabs |-> Aged(channel[t])]
    /\ events' = [t \in Tabs |-> Aged(events[t])]
    /\ stored' = IF stored = None THEN None ELSE [stored EXCEPT !.age = Older(@)]
    /\ UNCHANGED <<open, playing, state, timer, gestures>>

Step(t) ==
    \/ Load(t) \/ LoadSongPage(t) \/ Play(t) \/ Pause(t) \/ ClosePlayer(t)
    \/ Unload(t) \/ Crash(t)
    \/ Heartbeat(t) \/ HearChannel(t) \/ HearEvent(t) \/ TimerFires(t) \/ GetState(t)

Next == Tick \/ \E t \in Tabs : Step(t)

\* Messages arrive, timers fire, also in a tab in the background that sounds.
Fairness ==
    /\ WF_vars(Tick)
    /\ \A t \in Tabs :
        WF_vars(HearChannel(t)) /\ WF_vars(HearEvent(t))
        /\ WF_vars(TimerFires(t)) /\ WF_vars(Heartbeat(t))

Spec == Init /\ [][Next]_vars /\ Fairness

-----------------------------------------------------------------------------
(* Properties                                                               *)

\* Every variable keeps its type (all of the module).
TypeOK ==
    /\ open \in [Tabs -> BOOLEAN] /\ playing \in [Tabs -> BOOLEAN]
    /\ state \in [Tabs -> {"none", "local", "remote"}]
    /\ claimAge \in [Tabs -> Ages \cup {None}]
    /\ timer \in [Tabs -> BOOLEAN]
    /\ channel \in [Tabs -> Seq(Message)] /\ events \in [Tabs -> Seq(Message)]
    /\ stored \in Message \cup {None}
    /\ gestures \in Nat

\* Two tabs play at once only while a claim that will pause one of them is on
\* its way (onRemoteClaim, PlayerEmbed.tsx:592).
ClaimUnderWay(t, u) ==
    \E i \in DOMAIN channel[u] : channel[u][i].type = "claim" /\ channel[u][i].from = t
TwoPlayersAreTold ==
    \A t, u \in Tabs :
        t # u /\ playing[t] /\ playing[u] => ClaimUnderWay(t, u) \/ ClaimUnderWay(u, t)

\* While a tab plays, every other open tab comes to know it, also one that a
\* late release of a third tab has told otherwise (the heartbeat).
SeenBy(t, u) ==
    playing[t] /\ open[u] ~> ~playing[t] \/ ~open[u] \/ state[u] = "remote"
PlayerIsSeen == \A t, u \in Tabs : t # u => SeenBy(t, u)

\* "Stale crashed owners are expired by playbackOwnership" (WatchPage.tsx:123):
\* a tab does not wait for ever for an owner that is silent.
ForgottenBy(u) ==
    state[u] = "remote" ~> state[u] # "remote" \/ \E t \in Tabs : playing[t]
SilentOwnerForgotten == \A u \in Tabs : ForgottenBy(u)
=============================================================================
