----------------------------- MODULE PlayHistory -----------------------------
(***************************************************************************)
(* How a play is counted: the PlayerTracker component (App.tsx), the       *)
(* listening history of the page (stores/historyStore.ts), its event log   *)
(* in IndexedDB and the receipts that survive an unload                    *)
(* (services/historyFinalization.ts).                                      *)
(*                                                                         *)
(* The store updates of one handler are rendered together and the effects  *)
(* they trigger run before the next task, so a handler and the effects are *)
(* one action (Rendered).  The transactions of the page are committed one  *)
(* by one, in the order the page made them.  An event of the log is named  *)
(* by its turn: the n-th event appended is n, which stands for its key and *)
(* for the time of its record.                                             *)
(***************************************************************************)
EXTENDS Naturals, Sequences

CONSTANTS
    Songs,
    NoSong,
    None,           \* null
    MaxSequence,    \* bound: playbackSequence
    MaxEvents,      \* bound: events appended
    MaxPosition,    \* bound: how far a song is listened to
    MaxTroubles     \* bound: starts and hides of the page, cleared histories

ASSUME SongsAssumption == NoSong \notin Songs /\ None \notin Nat
ASSUME BoundsAssumption ==
    /\ MaxSequence \in Nat /\ MaxEvents \in Nat
    /\ MaxPosition \in Nat /\ MaxTroubles \in Nat

VARIABLES
    page,       \* "open", "hidden" (it may return from the bfcache) or "gone"
    player,     \* what PlayerTracker reads of the player and progress stores
    offer,      \* the closed play that the toast offers to bring back
    tracker,    \* prevSongRef, finalizedPlaybackSequenceRef
    history,    \* the active play of historyStore and its writes under way
    log,        \* IndexedDB: the details of each event
    receipts,   \* localStorage: the position to finalize an event with
    recovery,   \* a starting page at work on the receipts
    lost,       \* ghost: the position whose write an unload interrupted
    spent       \* how often each trouble has come

vars == <<page, player, offer, tracker, history, log, receipts, recovery, lost, spent>>

Events == 1 .. MaxEvents
Positions == 0 .. MaxPosition
Playbacks == 0 .. MaxSequence
NoEvent == 0

NoPlay == [song |-> NoSong, sequence |-> None, position |-> 0]
NoOffer == [song |-> NoSong, sequence |-> None, position |-> 0,
            counted |-> 0, returned |-> FALSE]     \* counted, returned: ghosts
NoActivePlay == [event |-> NoEvent, known |-> FALSE, song |-> NoSong, sequence |-> None]
AtRest == [todo |-> {}, event |-> NoEvent, position |-> 0, applied |-> FALSE]

NewTracker == [previous |-> NoPlay, finalized |-> None,
               counted |-> [s \in Playbacks |-> 0]]     \* counted: ghost
NewHistory(created) == [active |-> NoActivePlay, pending |-> [e \in Events |-> None],
                        writes |-> <<>>, created |-> created]
\* The song of the last session comes back with playback sequence 0.
Restored(song) == [song |-> song, sequence |-> 0, undoable |-> None, position |-> 0,
                   seek |-> 0, hydrated |-> FALSE]

Init ==
    /\ page = "open"
    /\ \E song \in Songs \cup {NoSong} : player = Restored(song)
    /\ offer = NoOffer
    /\ tracker = NewTracker
    /\ history = NewHistory(0)
    /\ log = [e \in Events |-> [status |-> "none", position |-> 0]]
    /\ receipts = [e \in Events |-> None]
    /\ recovery = AtRest
    /\ lost = [e \in Events |-> None]
    /\ spent = [starts |-> 0, hides |-> 0, clears |-> 0]

------------------------------------------------------------------------------
(* The history of the page                                                  *)

Write(kind, event, position) == [kind |-> kind, event |-> event, position |-> position]

\* A sequence that is active already is the same play going on.
AddToHistory(h, song, sequence) ==
    IF h.active.sequence = sequence
    THEN h
    ELSE LET event == h.created + 1
         IN [h EXCEPT !.created = event,
                      !.writes = Append(@, Write("append", event, 0)),
                      !.active = [event |-> event, known |-> FALSE,
                                  song |-> song, sequence |-> sequence]]

FinalizeKnownEntry(h, play) ==
    IF ~h.active.known \/ h.active.song # play.song \/ h.active.sequence # play.sequence
    THEN h
    ELSE [h EXCEPT !.writes = Append(@, Write("finalize", h.active.event, play.position))]

\* Without an answer to the append there is no key to write the details under yet.
FinalizeHistoryEntry(h, play) ==
    IF h.active.event = NoEvent \/ h.active.song # play.song \/ h.active.sequence # play.sequence
    THEN h
    ELSE IF h.active.known
    THEN [h EXCEPT !.writes = Append(@, Write("finalize", h.active.event, play.position))]
    ELSE [h EXCEPT !.pending[h.active.event] = play.position]

------------------------------------------------------------------------------
(* PlayerTracker.  An effect maps the tracker and the history, s, to what   *)
(* it leaves of them.                                                       *)

FinalizeAgain(s) ==
    LET play == s.tracker.previous
    IN IF play = NoPlay
       THEN s
       ELSE [tracker |-> [s.tracker EXCEPT !.finalized = play.sequence,
                                           !.counted[play.sequence] = @ + 1],
             history |-> FinalizeHistoryEntry(s.history, play)]

FinalizePreviousPlayback(s) ==
    LET play == s.tracker.previous
    IN IF play = NoPlay \/ s.tracker.finalized = play.sequence
       THEN s
       ELSE [tracker |-> [s.tracker EXCEPT !.finalized = play.sequence,
                                           !.counted[play.sequence] = @ + 1],
             history |-> FinalizeHistoryEntry(s.history, play)]

SamePlay(play, p) == play.song = p.song /\ play.sequence = p.sequence

SongEffect(p, s) ==
    IF p.song = NoSong
    THEN IF s.tracker.previous.sequence = p.undoable THEN s ELSE FinalizePreviousPlayback(s)
    ELSE IF ~p.hydrated
    THEN s
    ELSE LET ended == IF SamePlay(s.tracker.previous, p) THEN s ELSE FinalizePreviousPlayback(s)
         IN [tracker |-> [ended.tracker EXCEPT
                !.previous = [song |-> p.song, sequence |-> p.sequence, position |-> p.position]],
             history |-> IF p.sequence > 0
                         THEN AddToHistory(ended.history, p.song, p.sequence)
                         ELSE ended.history]

NoUndoEffect(p, s) == s

UndoEffect(p, s) ==
    IF p.undoable = None /\ p.song = NoSong THEN FinalizePreviousPlayback(s) ELSE s

\* A paused undo shows position 0 until its seek is applied.
PositionEffect(p, s) ==
    IF p.song # NoSong /\ s.tracker.previous.song = p.song
    THEN [s EXCEPT !.tracker.previous.position = IF p.seek > 0 THEN p.seek ELSE p.position]
    ELSE s

\* The effects whose dependencies differ between the renders of p and q.
Effects(p, q, s) ==
    LET first == IF <<p.song, p.sequence, p.hydrated>> # <<q.song, q.sequence, q.hydrated>>
                 THEN SongEffect(q, s) ELSE s
        second == IF p.undoable # q.undoable THEN UndoEffect(q, first) ELSE first
    IN IF p.position # q.position THEN PositionEffect(q, second) ELSE second

\* The player becomes q; without a song the first effect resets the position.
Rendered(q) ==
    LET s == Effects(player, q, [tracker |-> tracker, history |-> history])
    IN /\ s.history.created <= MaxEvents
       /\ player' = [q EXCEPT !.position = IF q.song = NoSong THEN 0 ELSE @]
       /\ tracker' = s.tracker
       /\ history' = s.history

------------------------------------------------------------------------------
(* The player, as PlayerStore and the embedded players drive it             *)

Stored == <<log, receipts, recovery, lost>>

Trouble(kind) ==
    /\ spent.starts + spent.hides + spent.clears < MaxTroubles
    /\ spent' = [spent EXCEPT ![kind] = @ + 1]

Hydrate ==
    /\ page = "open" /\ ~player.hydrated
    /\ Rendered([player EXCEPT !.hydrated = TRUE])
    /\ UNCHANGED <<page, offer, Stored, spent>>

\* A song starts, by choice, at the end of another, or again.
PlaySong(song) ==
    /\ page = "open" /\ player.sequence < MaxSequence
    /\ Rendered([player EXCEPT !.song = song, !.sequence = @ + 1, !.position = 0, !.seek = 0])
    /\ UNCHANGED <<page, offer, Stored, spent>>

\* selectPV starts the other video at 0, tryNextPV does not touch the position.
ChangeVideo ==
    /\ page = "open" /\ player.song # NoSong /\ player.sequence < MaxSequence
    /\ \E position \in {0, player.position} :
          Rendered([player EXCEPT !.sequence = @ + 1, !.position = position])
    /\ UNCHANGED <<page, offer, Stored, spent>>

Listen ==
    /\ page = "open" /\ player.song # NoSong /\ player.seek = 0 /\ player.position < MaxPosition
    /\ Rendered([player EXCEPT !.position = @ + 1])
    /\ UNCHANGED <<page, offer, Stored, spent>>

\* The embedded player shows the start of a cued video, then applies the seek.
ShowCued ==
    /\ page = "open" /\ player.song # NoSong /\ player.seek > 0
    /\ Rendered([player EXCEPT !.position = 0])
    /\ UNCHANGED <<page, offer, Stored, spent>>
Resume ==
    /\ page = "open" /\ player.song # NoSong /\ player.seek > 0
    /\ Rendered([player EXCEPT !.position = player.seek, !.seek = 0])
    /\ UNCHANGED <<page, offer, Stored, spent>>

Closed == [player EXCEPT !.song = NoSong, !.seek = 0]

\* closePlayer.
Close ==
    /\ page = "open" /\ player.song # NoSong
    /\ Rendered([Closed EXCEPT !.undoable = None])
    /\ UNCHANGED <<page, offer, Stored, spent>>

\* removeFromQueue: a pending seek and the offer of an older close stay.  (With
\* another row left the next song starts, PlaySong.)
RemoveOnlyRow ==
    /\ page = "open" /\ player.song # NoSong
    /\ Rendered([player EXCEPT !.song = NoSong])
    /\ UNCHANGED <<page, offer, Stored, spent>>

\* The microtask after the toast of the closed play is gone.
Settled(p) == [p EXCEPT !.undoable = IF @ = offer.sequence THEN None ELSE @]

\* A second toast of the same words takes the place of the first, whose
\* microtask ends the new offer too if both are of the same playback.
CloseWithUndo ==
    /\ page = "open" /\ player.song # NoSong
    /\ Rendered(Settled([Closed EXCEPT !.undoable = player.sequence]))
    /\ offer' = [song |-> player.song, sequence |-> player.sequence, position |-> player.position,
                 counted |-> tracker.counted[player.sequence], returned |-> FALSE]
    /\ UNCHANGED <<page, Stored, spent>>

ToastGoes ==
    /\ page = "open" /\ offer # NoOffer
    /\ Rendered(Settled(player))
    /\ offer' = NoOffer
    /\ UNCHANGED <<page, Stored, spent>>

\* restoreClosedPlayer.  A closed play that was counted comes back as a new one.
UndoClose ==
    /\ page = "open" /\ offer # NoOffer
    /\ player.song = NoSong /\ player.sequence = offer.sequence
    /\ LET counted == player.undoable # offer.sequence
       IN /\ counted => player.sequence < MaxSequence
          /\ \E resumeAt \in {0, offer.position} :
                Rendered([player EXCEPT !.song = offer.song, !.undoable = None,
                                        !.seek = resumeAt, !.position = resumeAt,
                                        !.sequence = IF counted THEN @ + 1 ELSE @])
    /\ offer' = NoOffer
    /\ UNCHANGED <<page, Stored, spent>>

\* The undo of a removal.  Any row may have been added and removed before, which
\* the tracker does not see; with no song playing its song becomes the current
\* one, under the sequence there is and whatever close may still be undone.
RestoreQueueItem(song) ==
    /\ page = "open" /\ player.song = NoSong
    /\ Rendered([player EXCEPT !.song = song])
    /\ offer' = IF offer = NoOffer THEN offer ELSE [offer EXCEPT !.returned = TRUE]
    /\ UNCHANGED <<page, Stored, spent>>

ClearHistory ==
    /\ page = "open" /\ Trouble("clears")
    /\ history' = [history EXCEPT !.writes = Append(@, Write("clear", NoEvent, 0))]
    /\ UNCHANGED <<page, player, offer, tracker, Stored>>

------------------------------------------------------------------------------
(* The transactions of the page                                             *)

CommitIsNext(kind) == page # "gone" /\ history.writes # <<>> /\ Head(history.writes).kind = kind

\* The answer to the append tells its key, and what waited for it is written.
CommitAppend ==
    /\ CommitIsNext("append")
    /\ LET event == Head(history.writes).event
           position == history.pending[event]
           rest == Tail(history.writes)
       IN /\ log' = [log EXCEPT ![event].status = "active"]
          /\ history' = [history EXCEPT
                !.active.known = @ \/ history.active.event = event,
                !.pending[event] = None,
                !.writes = IF position = None THEN rest
                           ELSE Append(rest, Write("finalize", event, position))]
    /\ UNCHANGED <<page, player, offer, tracker, receipts, recovery, lost, spent>>

Finalized(event, position) ==
    IF log[event].status = "none"
    THEN log
    ELSE [log EXCEPT ![event] = [status |-> "final", position |-> position]]

CommitFinalize ==
    /\ CommitIsNext("finalize")
    /\ log' = Finalized(Head(history.writes).event, Head(history.writes).position)
    /\ history' = [history EXCEPT !.writes = Tail(@)]
    /\ UNCHANGED <<page, player, offer, tracker, receipts, recovery, lost, spent>>

CommitClear ==
    /\ CommitIsNext("clear")
    /\ log' = [e \in Events |-> [status |-> "none", position |-> 0]]
    /\ history' = [history EXCEPT !.writes = Tail(@), !.active = NoActivePlay,
                                  !.pending = [e \in Events |-> None]]
    /\ UNCHANGED <<page, player, offer, tracker, receipts, recovery, lost, spent>>

------------------------------------------------------------------------------
(* The page goes and comes back                                             *)

\* The receipt takes the position from the progress store, which a close has reset.
WriteReceipt ==
    receipts' = IF history.active.known
                THEN [receipts EXCEPT ![history.active.event] = player.position]
                ELSE receipts

HideKeepingOffer ==
    /\ page = "open" /\ Trouble("hides")
    /\ page' = "hidden"
    /\ LET s == FinalizePreviousPlayback([tracker |-> tracker, history |-> history])
       IN tracker' = s.tracker /\ history' = s.history
    /\ WriteReceipt
    /\ UNCHANGED <<player, offer, log, recovery, lost>>

PageHide ==
    /\ page = "open" /\ Trouble("hides")
    /\ page' = "hidden"
    /\ LET s == FinalizePreviousPlayback([tracker |-> tracker, history |-> history])
       IN tracker' = s.tracker /\ history' = s.history
    /\ player' = [player EXCEPT !.undoable =
          IF player.song = NoSong /\ @ = tracker.previous.sequence THEN None ELSE @]
    /\ WriteReceipt
    /\ UNCHANGED <<offer, log, recovery, lost>>

Return ==
    /\ page = "hidden"
    /\ page' = "open"
    /\ UNCHANGED <<player, offer, tracker, history, Stored, spent>>

\* The position of the last write under way for an event, None without one.
Interrupted(event) ==
    LET under == {i \in DOMAIN history.writes :
                    history.writes[i].kind = "finalize" /\ history.writes[i].event = event}
    IN IF under = {} THEN None
       ELSE history.writes[CHOOSE i \in under : \A j \in under : j <= i].position

Leave ==
    /\ page' = "gone"
    /\ player' = Restored(NoSong)
    /\ offer' = NoOffer
    /\ tracker' = NewTracker
    /\ history' = NewHistory(history.created)
    /\ UNCHANGED <<log, receipts, recovery>>

Unload ==
    /\ page = "hidden"
    /\ lost' = [e \in Events |-> IF Interrupted(e) = None THEN lost[e] ELSE Interrupted(e)]
    /\ Leave
    /\ UNCHANGED spent

\* Killed without a pagehide.
Crash ==
    /\ page # "gone"
    /\ Leave
    /\ UNCHANGED <<lost, spent>>

Start(song) ==
    /\ page = "gone" /\ Trouble("starts")
    /\ page' = "open"
    /\ player' = Restored(song)
    /\ UNCHANGED <<offer, tracker, history, Stored>>

------------------------------------------------------------------------------
(* The receipts of unloaded pages.  Any page that starts, in this tab or in *)
(* another, finishes what they say and may be closed at it.                 *)

RecoverReceipts ==
    /\ recovery = AtRest
    /\ \E e \in Events : receipts[e] # None
    /\ recovery' = [AtRest EXCEPT !.todo = {e \in Events : receipts[e] # None}]
    /\ UNCHANGED <<page, player, offer, tracker, history, log, receipts, lost, spent>>

ReadReceipt(e) ==
    /\ recovery.event = NoEvent /\ e \in recovery.todo
    /\ recovery' = IF receipts[e] = None
                   THEN [recovery EXCEPT !.todo = @ \ {e}]
                   ELSE [recovery EXCEPT !.todo = @ \ {e}, !.event = e, !.position = receipts[e]]
    /\ UNCHANGED <<page, player, offer, tracker, history, log, receipts, lost, spent>>

\* Only an event still active takes its details from a receipt.
ApplyReceipt ==
    /\ recovery.event # NoEvent /\ ~recovery.applied
    /\ log' = IF log[recovery.event].status = "active"
              THEN Finalized(recovery.event, recovery.position)
              ELSE log
    /\ recovery' = [recovery EXCEPT !.applied = TRUE]
    /\ UNCHANGED <<page, player, offer, tracker, history, receipts, lost, spent>>

RemoveAnyReceipt ==
    /\ recovery.applied
    /\ receipts' = [receipts EXCEPT ![recovery.event] = None]
    /\ recovery' = [AtRest EXCEPT !.todo = recovery.todo]
    /\ UNCHANGED <<page, player, offer, tracker, history, log, lost, spent>>

\* A newer receipt for the same event stays.
RemoveReceipt ==
    /\ recovery.applied
    /\ receipts' = [receipts EXCEPT ![recovery.event] =
                       IF @ = recovery.position THEN None ELSE @]
    /\ recovery' = [AtRest EXCEPT !.todo = recovery.todo]
    /\ UNCHANGED <<page, player, offer, tracker, history, log, lost, spent>>

StopRecovery ==
    /\ recovery # AtRest
    /\ recovery' = AtRest
    /\ UNCHANGED <<page, player, offer, tracker, history, log, receipts, lost, spent>>

------------------------------------------------------------------------------

Gesture ==
    \/ Hydrate \/ ChangeVideo \/ Listen \/ ShowCued \/ Resume
    \/ Close \/ RemoveOnlyRow \/ CloseWithUndo \/ ToastGoes \/ UndoClose \/ ClearHistory
    \/ \E song \in Songs : PlaySong(song) \/ RestoreQueueItem(song)

Commit == CommitAppend \/ CommitFinalize \/ CommitClear

Lifecycle ==
    \/ PageHide \/ Return \/ Unload \/ Crash
    \/ \E song \in Songs \cup {NoSong} : Start(song)

Recovery ==
    \/ RecoverReceipts \/ ApplyReceipt \/ RemoveReceipt \/ StopRecovery
    \/ \E e \in Events : ReadReceipt(e)

Next == Gesture \/ Commit \/ Lifecycle \/ Recovery

\* IndexedDB carries out the transactions of a page that lives.
Fairness == WF_vars(Commit)

Spec == Init /\ [][Next]_vars /\ Fairness

------------------------------------------------------------------------------
(* Properties                                                               *)

\* Every variable keeps its type (all of the module).
TypeOK ==
    /\ page \in {"open", "hidden", "gone"}
    /\ player \in [song : Songs \cup {NoSong}, sequence : Playbacks,
                   undoable : Playbacks \cup {None}, position : Positions,
                   seek : Positions, hydrated : BOOLEAN]
    /\ offer \in [song : Songs \cup {NoSong}, sequence : Playbacks \cup {None},
                  position : Positions, counted : Nat, returned : BOOLEAN]
    /\ tracker.previous \in
          [song : Songs \cup {NoSong}, sequence : Playbacks \cup {None}, position : Positions]
    /\ tracker.finalized \in Playbacks \cup {None}
    /\ tracker.counted \in [Playbacks -> Nat]
    /\ history.active \in [event : Events \cup {NoEvent}, known : BOOLEAN,
                           song : Songs \cup {NoSong}, sequence : Playbacks \cup {None}]
    /\ history.pending \in [Events -> Positions \cup {None}]
    /\ history.writes \in Seq([kind : {"append", "finalize", "clear"},
                               event : Events \cup {NoEvent}, position : Positions])
    /\ history.created \in Nat
    /\ log \in [Events -> [status : {"none", "active", "final"}, position : Positions]]
    /\ receipts \in [Events -> Positions \cup {None}]
    /\ recovery \in [todo : SUBSET Events, event : Events \cup {NoEvent},
                     position : Positions, applied : BOOLEAN]
    /\ lost \in [Events -> Positions \cup {None}]

\* A playback gives its details and its skip or completion once, whatever
\* closes, undos, hides and returns it goes through
\* (finalizedPlaybackSequenceRef, App.tsx:111-134).
PlaybackCountedOnce == \A s \in Playbacks : tracker.counted[s] <= 1

\* A play that is over has been counted: with no song spent, only a close whose
\* undo is still offered waits (the effects of App.tsx:137-191).
EndedPlaysCounted ==
    tracker.previous # NoPlay /\ player.song = NoSong
        /\ player.undoable # tracker.previous.sequence
    => tracker.finalized = tracker.previous.sequence

\* The close that the toast offers to undo would go on with its play.
Resumable == /\ offer # NoOffer /\ player.song = NoSong
             /\ player.sequence = offer.sequence /\ player.undoable = offer.sequence
CountedSinceClose == tracker.counted[offer.sequence] > offer.counted

\* An undo goes on with a closed play only while nothing counted it since its
\* close: whatever counts it takes the offer back (App.tsx:211-221,
\* playerStore.ts:1070).  The exception is a removed row that an undo brought
\* back meanwhile: its song ends and counts the closed play, and leaves the offer.
OfferedPlaysUncounted == Resumable /\ ~offer.returned => ~CountedSinceClose

\* A receipt is dropped only when the log needs it no more: its event is
\* finalized or deleted, and no newer receipt was written for it
\* (historyFinalization.ts:34-58).
ReceiptsOutliveTheirUse ==
    [][\A e \in Events :
          receipts[e] # None /\ receipts'[e] = None
          => log[e].status # "active" /\ recovery.position = receipts[e]]_vars

\* The details of a play that was counted reach the log, whether the answer to
\* its append comes before or after the count, unless the page ends or the
\* history is cleared (historyStore.ts:375-414).
NeverCleared == spent.clears = 0
CountedPlayReachesTheLog(e) ==
    page = "open" /\ NeverCleared
        /\ history.active.event = e /\ tracker.finalized = history.active.sequence
    ~> page = "gone" \/ log[e].status = "final" \/ ~NeverCleared

\* What a receipt finishes is the write that the unload interrupted
\* (historyFinalization.ts:1).
ReceiptsFinishTheWrite ==
    \A e \in Events :
        lost[e] # None /\ log[e].status = "final" => log[e].position = lost[e]
=============================================================================
