---------------------------- MODULE PlayerStore ----------------------------
(***************************************************************************)
(* The playback queue of one tab: src/stores/playerStore.ts.               *)
(*                                                                         *)
(* The store keeps the queue in memory, writes it to localStorage at every *)
(* change, and brings it back after a reload in an asynchronous            *)
(* restoration that the user's actions interleave with: while it runs, the *)
(* saved list of ids stays authoritative and navigation uses the songs     *)
(* loaded so far.  Around it run the timer that skips a song without a     *)
(* playable video, the autoplay refill that answers late, the undo toasts, *)
(* and other tabs that write the same localStorage key.                    *)
(*                                                                         *)
(* Abstracted: which of a song's videos plays and whether it runs or is    *)
(* paused (isPlaying, volume, seekTarget, progress), the attribution kept  *)
(* beside the queue (currentPlaybackSource, queueTitle, rootSeed, the      *)
(* autoplay session), which no guard modelled here reads, and the legacy   *)
(* format of the saved queue.                                              *)
(***************************************************************************)
EXTENDS QueueOps

CONSTANTS
    Playable,        \* the songs with a playable video
    Playlists,       \* the lists of songs the pages offer to play
    Queued,          \* the songs the pages offer one by one, and the refills bring
    StartSources,    \* the sources setQueue is called with
    LoopModes,       \* the loop modes the user turns through
    Gestures,        \* the user's gestures of the instance
    OtherTabQueues,  \* what another tab may leave in localStorage
    PageSize,        \* songs per page of the restoration (100 in the code)
    MaxQueue,        \* bound: rows of the queue
    MaxSequence,     \* bound: playbacks per page load
    MaxSkips,        \* bound: pending skip timers
    MaxToasts,       \* bound: undo toasts shown or waiting
    MaxReloads,      \* bound: reloads of the page
    NoStored         \* localStorage without a saved queue

GestureNames ==
    {"play", "video", "jump", "select", "add", "remove", "hide", "dedupe", "close",
     "shuffle", "refill", "loop"}

ASSUME BoundsAssumption ==
    /\ MaxQueue \in Nat /\ MaxSequence \in Nat /\ MaxSkips \in Nat
    /\ MaxToasts \in Nat /\ MaxReloads \in Nat /\ PageSize \in Nat

ASSUME InputsAssumption ==
    /\ Playable \subseteq Songs /\ Queued \subseteq Songs
    /\ Playlists \subseteq Seq(Songs) \ {<<>>}
    /\ StartSources \subseteq PlaybackSource
    /\ "none" \in LoopModes /\ LoopModes \subseteq {"none", "all", "one"}
    /\ Gestures \subseteq GestureNames

VARIABLES
    queue, queueIndex, queueSources,
    currentSong, playbackSequence,
    shuffleEnabled, originalQueue, loopMode,
    skips,      \* setTimeout(next, 500) calls that have not fired
    refill,     \* the playback an autoplay request is in flight for
    toasts, undoableCloseSequence,
    stored,     \* localStorage: diva_playerQueue
    snapshot,   \* the saved queue as the restoration last read or wrote it
    restore,    \* where restoreStoredPlayerQueue stands
    awaited,    \* the current song the restoration is fetching
    loaded,     \* the songs it has (its byId map)
    reloads     \* page loads so far, capped by MaxReloads

rowVars == <<queue, queueIndex, queueSources>>
playVars == <<currentSong, playbackSequence>>
shuffleVars == <<shuffleEnabled, originalQueue>>
toastVars == <<toasts, undoableCloseSequence>>
savedVars == <<stored, snapshot, restore>>
loadVars == <<awaited, loaded>>
vars == <<rowVars, playVars, shuffleVars, loopMode, skips, refill, toastVars,
          savedVars, loadVars, reloads>>

None == -1

Stored == [songIds : Seq(Songs), sources : Seq(PlaybackSource),
           index : Nat, current : Songs \cup {NoSong}]

Expectation == [song : Songs, sequence : Nat]

NoRefill == [song |-> NoSong, sequence |-> 0]

RemovedToast ==
    [kind : {"remove", "hide"}, song : Songs, source : PlaybackSource, index : Nat \ {0},
     jump : BOOLEAN]

ClosedToast ==
    [kind : {"close"}, queue : Seq(Songs), index : Nat, sources : Seq(PlaybackSource),
     shuffle : BOOLEAN, original : Seq(Songs), current : Songs, sequence : Nat]

ASSUME SentinelsAssumption ==
    /\ NoStored \notin Stored
    /\ OtherTabQueues \subseteq Stored \cup {NoStored}

-----------------------------------------------------------------------------
(***************************************************************************)
(* The saved queue and its restoration.                                    *)
(*                                                                         *)
(* restore is "idle" when no restoration is under way: the code's          *)
(* queueRestoring is restore # "idle".  Every save that is not the         *)
(* restoration's own bumps playerQueuePersistenceRevision, which ends it   *)
(* for good, so no revision number is kept here.                           *)
(***************************************************************************)
\* canCommitRestore: nobody else wrote localStorage meanwhile.
CanCommitAlways == TRUE

CanCommit == stored = snapshot

\* pending.valid(): restoringQueue is set and may still be committed.
Restoring == restore \in {"current", "pages", "stopped"} /\ CanCommit

\* getStoredPlayerQueue: null for an absent or empty list.
HasStoredQueue == stored # NoStored /\ stored.songIds # <<>>

Parsed(saved) ==
    [saved EXCEPT !.index = IF @ \in DOMAIN saved.songIds THEN @ ELSE 0,
                  !.sources = NormalizeSources(Len(saved.songIds), saved.sources)]

\* The rows navigation moves over: the whole saved list while it is restored.
Rows == IF Restoring THEN snapshot.songIds ELSE queue

SaveReplacing(rows, index, current, sources) ==
    /\ stored' = [songIds |-> rows, index |-> index, current |-> current,
                  sources |-> NormalizeSources(Len(rows), sources)]
    /\ snapshot' = NoStored
    /\ restore' = "idle"

SaveForgettingSnapshot(rows, index, current, sources) ==
    IF /\ Restoring /\ rows = <<>>
       /\ index \in DOMAIN snapshot.songIds /\ snapshot.songIds[index] = current
    THEN /\ stored' = [snapshot EXCEPT
                !.index = index, !.current = current,
                !.sources = NormalizeSources(Len(snapshot.songIds), sources)]
         /\ UNCHANGED <<snapshot, restore>>
    ELSE SaveReplacing(rows, index, current, sources)

\* savePlayerQueue: a navigation inside a restoring queue only moves its
\* position; any other save replaces the saved queue and ends the restoration.
Save(rows, index, current, sources) ==
    IF /\ Restoring /\ rows = <<>>
       /\ index \in DOMAIN snapshot.songIds /\ snapshot.songIds[index] = current
    THEN /\ stored' = [snapshot EXCEPT
                !.index = index, !.current = current,
                !.sources = NormalizeSources(Len(snapshot.songIds), sources)]
         /\ snapshot' = stored'
         /\ UNCHANGED restore
    ELSE SaveReplacing(rows, index, current, sources)

\* clearStoredPlayerQueue
ClearStored ==
    /\ stored' = NoStored
    /\ snapshot' = NoStored
    /\ restore' = "idle"

-----------------------------------------------------------------------------
(***************************************************************************)
(* playSong.  The caller has just set the row fields v = [queue, index,    *)
(* sources, current] and saved them (saved = TRUE) or not.  A song without *)
(* a playable video changes nothing but asks for a skip in 500 ms when a   *)
(* row follows.                                                            *)
(***************************************************************************)
View(rows, index, sources) ==
    [queue |-> rows, index |-> index, sources |-> sources, current |-> currentSong]

PlayUnsaved(v, song, isUserAction, saved, timers) ==
    /\ queue' = v.queue /\ queueIndex' = v.index /\ queueSources' = v.sources
    /\ playbackSequence < MaxSequence
    /\ playbackSequence' = playbackSequence + 1
    /\ currentSong' = song
    /\ skips' = timers
    /\ UNCHANGED savedVars

PlaySong(v, song, isUserAction, saved, timers) ==
    /\ queue' = v.queue
    /\ queueIndex' = v.index
    /\ \/ /\ song \in Playable
          /\ playbackSequence < MaxSequence
          /\ queueSources' =
                IF isUserAction /\ v.index \in DOMAIN v.queue /\ v.queue[v.index] = song
                THEN [v.sources EXCEPT ![v.index] = "manual"] ELSE v.sources
          /\ Save(v.queue, v.index, song, queueSources')
          /\ currentSong' = song
          /\ playbackSequence' = playbackSequence + 1
          /\ skips' = timers
       \/ /\ song \notin Playable
          /\ queueSources' = v.sources
          /\ IF saved THEN Save(v.queue, v.index, song, v.sources)
             ELSE UNCHANGED savedVars
          /\ currentSong' = v.current
          /\ UNCHANGED playbackSequence
          /\ IF v.index < Len(v.queue)
             THEN timers < MaxSkips /\ skips' = timers + 1
             ELSE skips' = timers

\* A song played by itself (history, sound map): it need not be in the queue.
PlayDirect(song) ==
    /\ "play" \in Gestures
    /\ PlaySong(View(queue, queueIndex, queueSources), song, TRUE, FALSE, skips)
    /\ UNCHANGED <<shuffleVars, loopMode, refill, toastVars, loadVars, reloads>>

(***************************************************************************)
(* next, from the user, from the end of a video, or from a skip timer; a   *)
(* row that is not loaded yet is waited for, and next past the end (or     *)
(* with no current row to repeat) only stops playback.                     *)
(***************************************************************************)
NextIndex(n) ==
    CASE loopMode = "one" -> queueIndex
      [] loopMode # "one" /\ queueIndex < n -> queueIndex + 1
      [] loopMode = "all" /\ queueIndex >= n -> 1
      [] OTHER -> 0

CanPlayRow(i) == i \in DOMAIN Rows /\ (Restoring => Rows[i] \in loaded)

Advance(timers) ==
    LET i == NextIndex(Len(Rows))
    IN  IF CanPlayRow(i)
        THEN PlaySong(View(queue, i, queueSources), Rows[i], FALSE, FALSE, timers)
        ELSE skips' = timers /\ UNCHANGED <<rowVars, playVars, savedVars>>

NextSong ==
    /\ Advance(skips)
    /\ UNCHANGED <<shuffleVars, loopMode, refill, toastVars, loadVars, reloads>>

SkipTimerFires ==
    /\ skips > 0
    /\ Advance(skips - 1)
    /\ UNCHANGED <<shuffleVars, loopMode, refill, toastVars, loadVars, reloads>>

\* previous within the first three seconds of a song (later it only rewinds).
\* A position left beyond the rows moves without a song to play.
PreviousSong ==
    /\ queueIndex > 1
    /\ IF CanPlayRow(queueIndex - 1)
       THEN PlaySong(View(queue, queueIndex - 1, queueSources),
                     Rows[queueIndex - 1], TRUE, FALSE, skips)
       ELSE /\ queueIndex' = IF Restoring THEN queueIndex ELSE queueIndex - 1
            /\ UNCHANGED <<queue, queueSources, playVars, savedVars, skips>>
    /\ UNCHANGED <<shuffleVars, loopMode, refill, toastVars, loadVars, reloads>>

\* jumpToIndex: the picked row becomes the user's choice.
JumpToIndex(i) ==
    /\ "jump" \in Gestures
    /\ CanPlayRow(i)
    /\ IF Restoring
       THEN PlaySong(View(queue, i, queueSources), Rows[i], TRUE, FALSE, skips)
       ELSE PlaySong(View(queue, i, [queueSources EXCEPT ![i] = "manual"]),
                     queue[i], TRUE, TRUE, skips)
    /\ UNCHANGED <<shuffleVars, loopMode, refill, toastVars, loadVars, reloads>>

\* selectPV, tryNextPV: another video of the same song is a playback of its own.
SelectPV ==
    /\ "video" \in Gestures
    /\ currentSong # NoSong /\ playbackSequence < MaxSequence
    /\ playbackSequence' = playbackSequence + 1
    /\ UNCHANGED <<rowVars, currentSong, shuffleVars, loopMode, skips, refill, toastVars,
                   savedVars, loadVars, reloads>>

ToggleLoopMode ==
    /\ "loop" \in Gestures
    /\ loopMode' \in LoopModes \ {loopMode}
    /\ UNCHANGED <<rowVars, playVars, shuffleVars, skips, refill, toastVars,
                   savedVars, loadVars, reloads>>

-----------------------------------------------------------------------------
(***************************************************************************)
(* Replacing the queue.  The callers never pass an empty list.             *)
(***************************************************************************)
UserStarts(source) == source = "manual"

SetQueue(songs, start, source) ==
    /\ "select" \in Gestures
    /\ Len(songs) <= MaxQueue
    /\ start \in DOMAIN songs
    /\ UNCHANGED shuffleEnabled
    /\ \/ /\ shuffleEnabled
          /\ originalQueue' = songs
          /\ \E rest \in Shuffles(RemoveAt(songs, start)) :
                PlaySong(View(<<songs[start]>> \o rest, 1, Constantly(source, songs)),
                         songs[start], UserStarts(source), TRUE, skips)
       \/ /\ ~shuffleEnabled
          /\ originalQueue' = <<>>
          /\ PlaySong(View(songs, start, Constantly(source, songs)),
                      songs[start], UserStarts(source), TRUE, skips)
    /\ UNCHANGED <<loopMode, refill, toastVars, loadVars, reloads>>

SetQueueShuffled(songs) ==
    /\ {"select", "shuffle"} \subseteq Gestures
    /\ Len(songs) <= MaxQueue
    /\ shuffleEnabled' = TRUE
    /\ originalQueue' = songs
    /\ \E rows \in Shuffles(songs) :
          PlaySong(View(rows, 1, Constantly("manual", songs)), rows[1], TRUE, TRUE, skips)
    /\ UNCHANGED <<loopMode, refill, toastVars, loadVars, reloads>>

(***************************************************************************)
(* toggleShuffle.  The controls are disabled for a queue of fewer than two *)
(* songs that is not shuffled, and the code ignores it during a            *)
(* restoration.                                                            *)
(***************************************************************************)
ShuffleOn ==
    /\ "shuffle" \in Gestures
    /\ restore = "idle" /\ ~shuffleEnabled /\ Len(queue) > 1
    /\ \E rows \in IF queueIndex \in DOMAIN queue
                   THEN {<<queue[queueIndex]>> \o rest :
                            rest \in Shuffles(RemoveAt(queue, queueIndex))}
                   ELSE Shuffles(queue) :
          /\ queue' = rows
          /\ queueSources' = MapSources(rows, queue, queueSources)
          /\ Save(rows, 1, currentSong, queueSources')
    /\ queueIndex' = 1
    /\ shuffleEnabled' = TRUE
    /\ originalQueue' = queue
    /\ UNCHANGED <<playVars, loopMode, skips, refill, toastVars, loadVars, reloads>>

UnshuffledIndexKept == queueIndex

UnshuffledIndex ==
    LET found == IF currentSong # NoSong THEN FirstRowOf(currentSong, originalQueue)
                 ELSE queueIndex
    IN  IF found = 0 THEN 1 ELSE found

ShuffleOff ==
    /\ "shuffle" \in Gestures
    /\ restore = "idle" /\ shuffleEnabled
    /\ queueIndex' = UnshuffledIndex
    /\ queue' = originalQueue
    /\ queueSources' = MapSources(originalQueue, queue, queueSources)
    /\ Save(originalQueue, queueIndex', currentSong, queueSources')
    /\ shuffleEnabled' = FALSE
    /\ originalQueue' = <<>>
    /\ UNCHANGED <<playVars, loopMode, skips, refill, toastVars, loadVars, reloads>>

-----------------------------------------------------------------------------
(***************************************************************************)
(* Editing the queue.                                                      *)
(***************************************************************************)
InsertUnsaved(songs, source) ==
    /\ queue' = Splice(queue, InsertPosition(queueSources, queueIndex, source), songs)
    /\ queueSources' = Splice(queueSources, InsertPosition(queueSources, queueIndex, source),
                              Constantly(source, songs))
    /\ UNCHANGED <<queueIndex, savedVars>>

\* insertIntoQueue and its save
InsertIntoQueue(songs, source) ==
    LET sources == NormalizeSources(Len(queue), queueSources)
        at == InsertPosition(sources, queueIndex, source)
    IN  /\ queue' = Splice(queue, at, songs)
        /\ queueSources' = Splice(sources, at, Constantly(source, songs))
        /\ Save(queue', queueIndex, currentSong, queueSources')
        /\ UNCHANGED queueIndex

\* appendRestoringQueue: the same rule over the complete saved list, in place.
AppendToRestoring(songs, source) ==
    LET saved == Parsed(snapshot)
        at == InsertPosition(saved.sources, queueIndex, source)
        sources == Splice(saved.sources, at, Constantly(source, songs))
    IN  /\ stored' = [saved EXCEPT !.songIds = Splice(@, at, songs), !.sources = sources]
        /\ snapshot' = stored'
        /\ queueSources' = sources
        /\ loaded' = loaded \cup ToSet(songs)
        /\ UNCHANGED <<queue, queueIndex, restore>>

\* addToQueue, addManyToQueue
AddToQueue(songs) ==
    /\ "add" \in Gestures
    /\ Len(Rows) + Len(songs) <= MaxQueue
    /\ IF Restoring THEN AppendToRestoring(songs, "manual")
       ELSE InsertIntoQueue(songs, "manual") /\ UNCHANGED loaded
    /\ UNCHANGED <<playVars, shuffleVars, loopMode, skips, refill, toastVars, awaited, reloads>>

\* useAutoQueue asks for more songs for the current playback ...
RequestRefill ==
    /\ "refill" \in Gestures
    /\ refill = NoRefill /\ currentSong # NoSong
    /\ refill' = [song |-> currentSong, sequence |-> playbackSequence]
    /\ UNCHANGED <<rowVars, playVars, shuffleVars, loopMode, skips, toastVars,
                   savedVars, loadVars, reloads>>

RefillUnchecked == restore = "idle"

\* addManyToQueue: not into another playback, nor into a restoring queue.
RefillExpected ==
    /\ restore = "idle"
    /\ refill = [song |-> currentSong, sequence |-> playbackSequence]

\* ... and appends them only while that playback goes on.
RefillArrives(songs) ==
    /\ refill # NoRefill
    /\ refill' = NoRefill
    /\ IF RefillExpected
       THEN Len(queue) + Len(songs) <= MaxQueue /\ InsertIntoQueue(songs, "auto")
       ELSE UNCHANGED <<rowVars, savedVars>>
    /\ UNCHANGED <<playVars, shuffleVars, loopMode, skips, toastVars, loadVars, reloads>>

\* showToast: the same notice again replaces the last toast, unless another
\* notice has come between.
WithToast(toast) ==
    (IF Len(toasts) < MaxToasts THEN {Append(toasts, toast)} ELSE {})
    \cup (IF toasts # <<>> /\ toasts[Len(toasts)].kind = toast.kind
          THEN {[toasts EXCEPT ![Len(toasts)] = toast]} ELSE {})

RemovedRowClamped(i, hide) ==
    [kind |-> IF hide THEN "hide" ELSE "remove", song |-> queue[i],
     index |-> Smaller(i, Len(queue) - 1), source |-> queueSources[i], jump |-> FALSE]

RemovedRow(i, hide) ==
    [kind |-> IF hide THEN "hide" ELSE "remove", song |-> queue[i], index |-> i,
     source |-> IF i \in DOMAIN queueSources THEN queueSources[i] ELSE "manual",
     jump |-> hide /\ i = queueIndex /\ queue[i] = currentSong]

IndexUnmoved(i) == queueIndex

IndexWithout(i) == IF i < queueIndex THEN queueIndex - 1 ELSE queueIndex

\* removeQueueItemWithUndo (hide = FALSE) and hideSongWithUndo
RemoveFromQueue(i, hide) ==
    /\ (IF hide THEN "hide" ELSE "remove") \in Gestures
    /\ i \in DOMAIN queue
    /\ toasts' \in WithToast(RemovedRow(i, hide))
    /\ LET rows == RemoveAt(queue, i)
           sources == RemoveAt(queueSources, i)
           row == Smaller(i, Len(rows))
           index == IndexWithout(i)
       IN  \/ /\ i # queueIndex
              /\ queue' = rows /\ queueSources' = sources /\ queueIndex' = index
              /\ Save(rows, index, currentSong, sources)
              /\ UNCHANGED <<playVars, skips>>
           \/ /\ i = queueIndex /\ rows # <<>>
              /\ PlaySong(View(rows, row, sources), rows[row], FALSE, TRUE, skips)
           \/ /\ i = queueIndex /\ rows = <<>>
              /\ queue' = <<>> /\ queueSources' = <<>> /\ queueIndex' = 0
              /\ currentSong' = NoSong
              /\ ClearStored
              /\ UNCHANGED <<playbackSequence, skips>>
    /\ UNCHANGED <<shuffleVars, loopMode, refill, undoableCloseSequence, loadVars, reloads>>

RemoveDuplicates ==
    /\ "dedupe" \in Gestures
    /\ KeptRows(queue, queueIndex) # DOMAIN queue
    /\ \E kept \in Enumerations(KeptRows(queue, queueIndex)) :
          LET rows == RowsAt(queue, kept)
              found == FirstRowOf(currentSong, rows)
              index == IF found # 0 THEN found ELSE Smaller(queueIndex, Len(rows))
              current == IF index = 0 THEN NoSong ELSE rows[index]
          IN  /\ queue' = rows
              /\ queueIndex' = index
              /\ queueSources' = MapSources(rows, queue, queueSources)
              /\ currentSong' = current
              /\ Save(rows, index, current, queueSources')
    /\ UNCHANGED <<playbackSequence, shuffleVars, loopMode, skips, refill, toastVars,
                   loadVars, reloads>>

-----------------------------------------------------------------------------
(***************************************************************************)
(* Closing the player, and undo.                                           *)
(***************************************************************************)
Empty ==
    /\ queue' = <<>> /\ queueIndex' = 0 /\ queueSources' = <<>>
    /\ currentSong' = NoSong
    /\ ClearStored

ClosePlayer ==
    /\ "close" \in Gestures
    /\ Empty
    /\ undoableCloseSequence' = None
    /\ UNCHANGED <<playbackSequence, shuffleVars, loopMode, skips, refill, toasts,
                   loadVars, reloads>>

ClosePlayerWithUndo ==
    /\ "close" \in Gestures
    /\ currentSong # NoSong /\ queue # <<>>
    /\ toasts' \in WithToast(
          [kind |-> "close", queue |-> queue, index |-> queueIndex, sources |-> queueSources,
           shuffle |-> shuffleEnabled, original |-> originalQueue,
           current |-> currentSong, sequence |-> playbackSequence])
    /\ undoableCloseSequence' =
          \* a replaced toast of the same playback takes the new offer along
          IF /\ Len(toasts') = Len(toasts)
             /\ toasts[Len(toasts)].sequence = playbackSequence
          THEN None ELSE playbackSequence
    /\ Empty
    /\ UNCHANGED <<playbackSequence, shuffleVars, loopMode, skips, refill, loadVars, reloads>>

OfferKept(toast) == undoableCloseSequence

\* The toast of a close takes its undo offer along when it goes.
CloseOfferAfter(toast) ==
    IF toast.kind = "close" /\ undoableCloseSequence = toast.sequence
    THEN None ELSE undoableCloseSequence

DismissToast ==
    /\ toasts # <<>>
    /\ toasts' = Tail(toasts)
    /\ undoableCloseSequence' = CloseOfferAfter(Head(toasts))
    /\ UNCHANGED <<rowVars, playVars, shuffleVars, loopMode, skips, refill,
                   savedVars, loadVars, reloads>>

\* pagehide (the page may come back from the back/forward cache): the closed
\* play is counted now.
PageHide ==
    /\ undoableCloseSequence # None /\ currentSong = NoSong
    /\ undoableCloseSequence' = None
    /\ UNCHANGED <<rowVars, playVars, shuffleVars, loopMode, skips, refill, toasts,
                   savedVars, loadVars, reloads>>

\* restoreQueueItem, followed by jumpToIndex when the hidden row was playing
UndoRemove ==
    /\ toasts # <<>> /\ Head(toasts).kind # "close"
    /\ Len(queue) < MaxQueue
    /\ toasts' = Tail(toasts)
    /\ LET removed == Head(toasts)
           at == Smaller(removed.index, Len(queue) + 1)
           shifted == IF at <= queueIndex THEN queueIndex + 1 ELSE queueIndex
           v == [queue |-> InsertAt(queue, at, removed.song),
                 index |-> IF currentSong = NoSong THEN at ELSE shifted,
                 sources |-> InsertAt(queueSources, at, removed.source),
                 current |-> IF currentSong = NoSong THEN removed.song ELSE currentSong]
           picked == [v.sources EXCEPT ![at] = "manual"]
       IN  \/ /\ ~removed.jump
              /\ queue' = v.queue /\ queueIndex' = v.index /\ queueSources' = v.sources
              /\ currentSong' = v.current
              /\ Save(v.queue, v.index, v.current, v.sources)
              /\ UNCHANGED <<playbackSequence, skips>>
           \/ /\ removed.jump
              /\ PlaySong([queue |-> v.queue, index |-> at, sources |-> picked,
                           current |-> v.current], removed.song, TRUE, TRUE, skips)
    /\ UNCHANGED <<shuffleVars, loopMode, refill, undoableCloseSequence, loadVars, reloads>>

\* restoreClosedPlayer: a song started or queued after the close wins.  A close
\* that pagehide has counted comes back as a new play.
UndoClose ==
    /\ toasts # <<>> /\ Head(toasts).kind = "close"
    /\ toasts' = Tail(toasts)
    /\ LET closed == Head(toasts)
           counted == undoableCloseSequence # closed.sequence
       IN  IF currentSong = NoSong /\ queue = <<>> /\ playbackSequence = closed.sequence
           THEN /\ queue' = closed.queue
                /\ queueIndex' = closed.index
                /\ queueSources' = closed.sources
                /\ shuffleEnabled' = closed.shuffle
                /\ originalQueue' = closed.original
                /\ currentSong' = closed.current
                /\ counted => playbackSequence < MaxSequence
                /\ playbackSequence' = playbackSequence + (IF counted THEN 1 ELSE 0)
                /\ undoableCloseSequence' = None
                /\ Save(closed.queue, closed.index, closed.current, closed.sources)
           ELSE /\ undoableCloseSequence' = CloseOfferAfter(closed)
                /\ UNCHANGED <<rowVars, playVars, shuffleVars, savedVars>>
    /\ UNCHANGED <<loopMode, skips, refill, loadVars, reloads>>

-----------------------------------------------------------------------------
(***************************************************************************)
(* A new page load, and the steps of restoreStoredPlayerQueue.             *)
(***************************************************************************)
Reload ==
    /\ reloads < MaxReloads
    /\ reloads' = reloads + 1
    /\ queue' = <<>>
    /\ queueIndex' = IF HasStoredQueue THEN Parsed(stored).index ELSE 0
    /\ queueSources' = IF HasStoredQueue THEN Parsed(stored).sources ELSE <<>>
    /\ currentSong' = IF HasStoredQueue THEN stored.current ELSE NoSong
    /\ playbackSequence' = 0
    /\ shuffleEnabled' = FALSE /\ originalQueue' = <<>>
    /\ skips' = 0 /\ refill' = NoRefill
    /\ toasts' = <<>> /\ undoableCloseSequence' = None
    /\ restore' = IF HasStoredQueue THEN "cache" ELSE "idle"
    /\ snapshot' = IF HasStoredQueue THEN stored ELSE NoStored
    /\ awaited' = NoSong /\ loaded' = {}
    /\ UNCHANGED <<stored, loopMode>>

\* The IndexedDB cache holds all the saved songs or is of no use; the song
\* that was current is saved with the queue.
CacheRead ==
    /\ restore = "cache" /\ CanCommit
    /\ LET saved == Parsed(snapshot)
           target == IF saved.current # NoSong THEN saved.current
                     ELSE saved.songIds[IF saved.index = 0 THEN 1 ELSE saved.index]
       IN  \E cached \in {{}, ToSet(saved.songIds)} :
              /\ loaded' = cached \cup ({saved.current} \ {NoSong})
              /\ \/ /\ target \in loaded'
                    /\ currentSong' = target
                    /\ awaited' = NoSong
                    /\ restore' = "pages"
                 \/ /\ target \notin loaded'
                    /\ awaited' = target
                    /\ restore' = "current"
                    /\ UNCHANGED currentSong
    /\ UNCHANGED <<rowVars, playbackSequence, shuffleVars, loopMode, skips, refill, toastVars,
                   stored, snapshot, reloads>>

\* getSongById answered, or failed (then the saved ids are kept as they are).
CurrentArrives(found) ==
    /\ restore = "current" /\ CanCommit
    /\ loaded' = IF found THEN loaded \cup {awaited} ELSE loaded
    /\ currentSong' = IF awaited \in loaded' THEN awaited ELSE currentSong
    /\ awaited' = NoSong
    /\ restore' = "pages"
    /\ UNCHANGED <<rowVars, playbackSequence, shuffleVars, loopMode, skips, refill, toastVars,
                   stored, snapshot, reloads>>

Missing == IF restore = "pages" THEN ToSet(snapshot.songIds) \ loaded ELSE {}

\* One page of getSongsByIds; an incomplete one ends the loading.
PageArrives(page, found) ==
    /\ restore = "pages" /\ CanCommit
    /\ page # {} /\ Cardinality(page) <= PageSize
    /\ loaded' = loaded \cup found
    /\ restore' = IF found = page THEN "pages" ELSE "stopped"
    /\ UNCHANGED <<rowVars, playVars, shuffleVars, loopMode, skips, refill, toastVars,
                   stored, snapshot, awaited, reloads>>

\* Every saved song is there: the queue is published and saved again.
RestoreCommits ==
    /\ restore = "pages" /\ CanCommit
    /\ Missing = {}
    /\ LET saved == Parsed(snapshot)
           index == IF queueIndex = 0 THEN 1 ELSE Smaller(queueIndex, Len(saved.songIds))
       IN  /\ queue' = saved.songIds
           /\ queueIndex' = index
           /\ queueSources' = saved.sources
           /\ currentSong' = saved.songIds[index]
           /\ Save(saved.songIds, index, currentSong', saved.sources)
    /\ UNCHANGED <<playbackSequence, shuffleVars, loopMode, skips, refill, toastVars,
                   loadVars, reloads>>

\* canCommitRestore fails: another tab wrote localStorage.
RestoreGivesUp ==
    /\ restore \in {"cache", "current", "pages"} /\ ~CanCommit
    /\ restore' = IF restore = "cache" THEN "abandoned" ELSE "stopped"
    /\ awaited' = NoSong
    /\ UNCHANGED <<rowVars, playVars, shuffleVars, loopMode, skips, refill, toastVars,
                   stored, snapshot, loaded, reloads>>

OtherTabSaves(value) ==
    /\ stored' = value
    /\ UNCHANGED <<rowVars, playVars, shuffleVars, loopMode, skips, refill, toastVars,
                   snapshot, restore, loadVars, reloads>>

-----------------------------------------------------------------------------
Init ==
    /\ queue = <<>> /\ queueIndex = 0 /\ queueSources = <<>>
    /\ currentSong = NoSong /\ playbackSequence = 0
    /\ shuffleEnabled = FALSE /\ originalQueue = <<>> /\ loopMode = "none"
    /\ skips = 0 /\ refill = NoRefill
    /\ toasts = <<>> /\ undoableCloseSequence = None
    /\ stored = NoStored /\ snapshot = NoStored /\ restore = "idle"
    /\ awaited = NoSong /\ loaded = {}
    /\ reloads = 0

Navigate ==
    \/ NextSong
    \/ PreviousSong
    \/ ToggleLoopMode
    \/ SelectPV
    \/ \E song \in Queued : PlayDirect(song)
    \/ \E i \in 1..MaxQueue : JumpToIndex(i)

Replace ==
    \/ \E songs \in Playlists :
          \/ \E start \in DOMAIN songs, source \in StartSources : SetQueue(songs, start, source)
          \/ SetQueueShuffled(songs)
    \/ ShuffleOn
    \/ ShuffleOff
    \/ ClosePlayer
    \/ ClosePlayerWithUndo

Edit ==
    \/ \E song \in Queued : AddToQueue(<<song>>)
    \/ \E i \in 1..MaxQueue, hide \in BOOLEAN : RemoveFromQueue(i, hide)
    \/ RemoveDuplicates

Undo ==
    \/ UndoRemove
    \/ UndoClose
    \/ DismissToast
    \/ PageHide

RestoreStep ==
    \/ CacheRead
    \/ \E found \in BOOLEAN : CurrentArrives(found)
    \/ \E page \in SUBSET Missing : \E found \in SUBSET page : PageArrives(page, found)
    \/ RestoreCommits
    \/ RestoreGivesUp

Background ==
    \/ SkipTimerFires
    \/ RequestRefill
    \/ \E song \in Queued : RefillArrives(<<song>>)
    \/ RestoreStep

Next ==
    \/ Navigate
    \/ Replace
    \/ Edit
    \/ Undo
    \/ Background
    \/ Reload
    \/ \E value \in OtherTabQueues : OtherTabSaves(value)

Spec == Init /\ [][Next]_vars /\ WF_vars(RestoreStep)
-----------------------------------------------------------------------------
(***************************************************************************)
(* Properties.                                                             *)
(***************************************************************************)
TypeOK ==
    /\ queue \in Seq(Songs) /\ queueIndex \in Nat /\ queueSources \in Seq(PlaybackSource)
    /\ currentSong \in Songs \cup {NoSong} /\ playbackSequence \in Nat
    /\ shuffleEnabled \in BOOLEAN /\ originalQueue \in Seq(Songs)
    /\ loopMode \in LoopModes
    /\ skips \in Nat /\ refill \in Expectation \cup {NoRefill}
    /\ toasts \in Seq(RemovedToast \cup ClosedToast)
    /\ undoableCloseSequence \in Nat \cup {None}
    /\ stored \in Stored \cup {NoStored} /\ snapshot \in Stored \cup {NoStored}
    /\ restore \in {"idle", "cache", "current", "pages", "stopped", "abandoned"}
    /\ awaited \in Songs \cup {NoSong} /\ loaded \subseteq Songs
    /\ reloads \in Nat

(***************************************************************************)
(* What a reload would bring back is what the user has: unless another tab *)
(* wrote localStorage last, the saved rows and their sources are those in  *)
(* memory after every handler and callback, and while a saved queue is     *)
(* being restored nothing else is in memory (savePlayerQueue).             *)
(***************************************************************************)
SavedQueueCurrent ==
    stored \notin OtherTabQueues =>
        IF restore = "idle"
        THEN IF queue = <<>> THEN ~HasStoredQueue
             ELSE /\ stored # NoStored
                  /\ stored.songIds = queue /\ stored.sources = queueSources
        ELSE /\ queue = <<>> /\ stored = snapshot /\ HasStoredQueue
             /\ Len(queueSources) = Len(snapshot.songIds)

(***************************************************************************)
(* The saved position and song are those in memory, unless the last move   *)
(* hit a row without a playable video (playSong leaves that move unsaved). *)
(***************************************************************************)
SavedPositionCurrent ==
    /\ stored \notin OtherTabQueues
    /\ queueIndex \in DOMAIN queue /\ queue[queueIndex] \in Playable
    => stored # NoStored /\ stored.index = queueIndex /\ stored.current = currentSong

CurrentRow ==
    IF queueIndex \in DOMAIN queue
    THEN <<queue[queueIndex], queueSources[queueIndex]>> ELSE <<>>

EditsAround ==
    \/ \E song \in Queued : AddToQueue(<<song>>) \/ RefillArrives(<<song>>)
    \/ \E i \in DOMAIN queue, hide \in BOOLEAN : i # queueIndex /\ RemoveFromQueue(i, hide)
    \/ UndoRemove /\ ~Head(toasts).jump /\ currentSong # NoSong

(***************************************************************************)
(* Rows added, refilled, removed or put back around the current row leave  *)
(* it current, with its source: insertions and the index move together.    *)
(***************************************************************************)
EditsKeepCurrentRow ==
    [][EditsAround /\ CurrentRow # <<>> => CurrentRow' = CurrentRow]_vars

(***************************************************************************)
(* A song the user queues plays before every recommendation still to come  *)
(* and after what was queued before it (comment of manualInsertIndex).     *)
(***************************************************************************)
QueuedSongsPlayNext ==
    [][\A song \in Queued :
          AddToQueue(<<song>>) /\ restore = "idle" /\ queueIndex \in DOMAIN queue =>
            \E p \in DOMAIN queue' :
                /\ queue'[p] = song /\ RemoveAt(queue', p) = queue
                /\ p > queueIndex
                /\ \A j \in DOMAIN queue' :
                      /\ queueIndex < j /\ j < p => queueSources'[j] # "auto"
                      /\ p < j /\ queueSources'[j] # "auto"
                         => \E k \in p .. j : queueSources'[k] = "auto"]_vars

(***************************************************************************)
(* The toast of a removal holds what its undo needs: put back at once, the *)
(* removed row gives the queue and its sources as they were, also when the *)
(* playing row went and the next one has started (restoreQueueItem).       *)
(***************************************************************************)
RemovalUndoable ==
    [][(\E i \in DOMAIN queue, hide \in BOOLEAN : RemoveFromQueue(i, hide)) =>
        LET removed == toasts'[Len(toasts')]
            at == Smaller(removed.index, Len(queue') + 1)
        IN  /\ InsertAt(queue', at, removed.song) = queue
            /\ InsertAt(queueSources', at, removed.source) = queueSources]_vars

(***************************************************************************)
(* Shuffling, unshuffling and removing duplicates never interrupt: the     *)
(* playing song stays the song and the current row, where the rearranged   *)
(* queue has it (toggleShuffle, dedupeQueueBySongId).                      *)
(***************************************************************************)
RearrangingKeepsPlaying ==
    [][/\ ShuffleOn \/ ShuffleOff \/ RemoveDuplicates
       /\ CurrentRow # <<>> /\ CurrentRow[1] = currentSong
       /\ currentSong \in ToSet(queue')
       => currentSong' = currentSong /\ queue'[queueIndex'] = currentSong]_vars

(***************************************************************************)
(* The undo offer of a close never outlives its toast: otherwise the       *)
(* closed play would wait for ever to be counted (closePlayerWithUndo).    *)
(***************************************************************************)
OfferHasToast ==
    undoableCloseSequence # None =>
        \E i \in DOMAIN toasts :
            toasts[i].kind = "close" /\ toasts[i].sequence = undoableCloseSequence

(***************************************************************************)
(* A closed player stays closed: no timer, late refill or restoration step *)
(* brings a queue or a song back, in memory or in localStorage.            *)
(***************************************************************************)
ClosedStaysClosed ==
    [][Background /\ queue = <<>> /\ currentSong = NoSong /\ restore = "idle"
       => UNCHANGED <<queue, currentSong, stored>>]_vars

SavedList ==
    IF HasStoredQueue THEN <<stored.songIds, Parsed(stored).sources>> ELSE <<>>

\* The saved list is the one before with one row more.
SavedRowAdded ==
    \E p \in DOMAIN stored'.songIds :
        /\ RemoveAt(stored'.songIds, p) = stored.songIds
        /\ RemoveAt(Parsed(stored').sources, p) = Parsed(stored).sources

(***************************************************************************)
(* The restoration never changes the saved list, whatever the user or      *)
(* another tab did meanwhile: it only publishes it.                        *)
(***************************************************************************)
RestorePreservesSaved ==
    [][RestoreStep => SavedList' = SavedList]_vars

(***************************************************************************)
(* Through the restoring queue, navigation keeps the saved list and a      *)
(* queued song is added to all of it, never to its loaded part.            *)
(***************************************************************************)
RestoringKeepsSaved ==
    [][Restoring =>
        /\ NextSong \/ PreviousSong \/ (\E i \in 1..MaxQueue : JumpToIndex(i))
           => SavedList' = SavedList
        /\ (\E song \in Queued : AddToQueue(<<song>>)) => SavedRowAdded]_vars

(***************************************************************************)
(* The same for the whole restoration, its first await included ("A cold   *)
(* queue keeps its complete ID list authoritative", playerStore.ts:275).   *)
(***************************************************************************)
ColdQueueKeepsItsIds ==
    [][restore # "idle" /\ (\E song \in Queued : AddToQueue(<<song>>))
        => SavedRowAdded]_vars

(***************************************************************************)
(* What the page does to a queue it is restoring never makes it give the   *)
(* restoration up: the queue is published, unless the user puts another in *)
(* its place or closes it, another tab saves, or a song cannot be fetched. *)
(* (Each move and added song rewrites the text that canCommitRestore       *)
(* compares, playerStore.ts:324 and 352.)                                  *)
(***************************************************************************)
RestoringQueueComesBack ==
    restore \in {"cache", "current", "pages"}
    ~> \/ queue # <<>> \/ ~HasStoredQueue
       \/ stored \in OtherTabQueues
       \/ restore = "stopped" /\ CanCommit
=============================================================================
