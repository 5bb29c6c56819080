------------------------- MODULE PlayerStore_proofs -------------------------
(***************************************************************************)
(* Theorems about the playback queue, for every set of songs, every bound  *)
(* and every choice of gestures.                                           *)
(*                                                                         *)
(* The inductive invariant Inv adds to TypeOK what the handlers rely on    *)
(* without saying so: a queue that is being restored has no rows in        *)
(* memory and no toast yet; rows in memory have one source each, also when *)
(* an undo toast outlives an emptied queue; and what is saved is what is   *)
(* in memory unless another tab wrote it.                                  *)
(***************************************************************************)
EXTENDS PlayerStore, QueueOps_proofs

RowTypes ==
    /\ queue \in Seq(Songs) /\ queueIndex \in Nat /\ queueSources \in Seq(PlaybackSource)
    /\ currentSong \in Songs \cup {NoSong} /\ playbackSequence \in Nat /\ skips \in Nat
    /\ stored \in Stored \cup {NoStored} /\ snapshot \in Stored \cup {NoStored}
    /\ restore \in {"idle", "cache", "current", "pages", "stopped", "abandoned"}

OneSourceEach == Len(queueSources) = Len(queue)

RestoringRows ==
    restore # "idle" =>
        /\ queue = <<>>
        /\ snapshot \in Stored /\ snapshot.songIds # <<>>
        /\ Len(queueSources) = Len(snapshot.songIds)
        /\ stored = snapshot \/ stored \in OtherTabQueues

LoadedRows == restore = "idle" /\ queue # <<>> => OneSourceEach

SavedRows ==
    restore = "idle" /\ stored \notin OtherTabQueues =>
        IF queue = <<>> THEN ~HasStoredQueue
        ELSE /\ stored # NoStored
             /\ stored.songIds = queue /\ stored.sources = queueSources

RowInv == RowTypes /\ RestoringRows /\ LoadedRows /\ SavedRows

ToastInv ==
    /\ toasts # <<>> => restore = "idle" /\ OneSourceEach
    /\ \A i \in DOMAIN toasts :
          toasts[i].kind = "close" => Len(toasts[i].sources) = Len(toasts[i].queue)

Inv ==
    /\ TypeOK /\ RowInv /\ ToastInv
    /\ restore = "current" => awaited \in Songs

\* What every step does to the rows: RowInv holds again, and rows with one
\* source each keep one source each.
RowStep ==
    /\ RowInv'
    /\ restore' \in {restore, "idle"}
    /\ restore = "idle" /\ OneSourceEach => OneSourceEach'

-----------------------------------------------------------------------------
(***************************************************************************)
(* The two outcomes of savePlayerQueue.                                    *)
(***************************************************************************)
Moved(index, current, sources) ==
    /\ restore # "idle" /\ restore' = restore
    /\ stored' = snapshot' /\ stored' \in Stored
    /\ stored'.songIds = snapshot.songIds
    /\ stored'.sources = NormalizeSources(Len(snapshot.songIds), sources)

Replaced(rows, sources) ==
    /\ restore' = "idle" /\ snapshot' = NoStored
    /\ stored' \in Stored
    /\ stored'.songIds = rows
    /\ stored'.sources = NormalizeSources(Len(rows), sources)

LEMMA SaveOutcome ==
    ASSUME RowInv,
           NEW rows \in Seq(Songs), NEW index \in Nat, NEW current \in Songs \cup {NoSong},
           NEW sources \in Seq(PlaybackSource), Save(rows, index, current, sources)
    PROVE  \/ Replaced(rows, sources)
           \/ rows = <<>> /\ Moved(index, current, sources)
<1> DEFINE moved == /\ Restoring /\ rows = <<>>
                    /\ index \in DOMAIN snapshot.songIds /\ snapshot.songIds[index] = current
<1>1. CASE moved
  <2>1. restore # "idle" /\ snapshot \in Stored /\ Len(snapshot.songIds) \in Nat
    BY <1>1, LenProperties DEF Restoring, RowInv, RestoringRows, Stored
  <2>2. NormalizeSources(Len(snapshot.songIds), sources) \in Seq(PlaybackSource)
    BY <2>1, NormalizeSourcesType
  <2> QED
    BY <1>1, <2>1, <2>2 DEF Save, Moved, Stored
<1>2. CASE ~moved
  <2>1. NormalizeSources(Len(rows), sources) \in Seq(PlaybackSource)
    BY NormalizeSourcesType, LenProperties
  <2> QED
    BY <1>2, <2>1 DEF Save, SaveReplacing, Replaced, Stored
<1> QED
  BY <1>1, <1>2

\* Rows saved with one source each: RowInv holds again.
LEMMA ReplacedRows ==
    ASSUME RowInv,
           NEW rows \in Seq(Songs), NEW sources \in Seq(PlaybackSource),
           Replaced(rows, sources), Len(sources) = Len(rows),
           queue' = rows, queueSources' = sources,
           queueIndex' \in Nat, currentSong' \in Songs \cup {NoSong},
           playbackSequence' \in Nat, skips' \in Nat
    PROVE  RowStep
<1>1. NormalizeSources(Len(rows), sources) = sources
  BY NormalizeSourcesExact
<1>2. RowTypes'
  BY DEF RowTypes, Replaced
<1>3. RestoringRows' /\ LoadedRows' /\ OneSourceEach'
  BY DEF RestoringRows, LoadedRows, OneSourceEach, Replaced
<1>4. stored' # NoStored
  BY SentinelsAssumption DEF Replaced
<1>5. SavedRows'
  BY <1>1, <1>4 DEF SavedRows, HasStoredQueue, Replaced
<1> QED
  BY <1>2, <1>3, <1>5 DEF RowStep, RowInv, Replaced

(***************************************************************************)
(* Any save of the rows the step has set: either one source for each row   *)
(* of a queue that replaces the old one, or the rows as they were.         *)
(***************************************************************************)
SaveableRows(rows, sources) ==
    \/ Len(sources) = Len(rows) /\ (rows # <<>> \/ restore = "idle")
    \/ rows = queue /\ Len(sources) = Len(queueSources)

LEMMA SavedStep ==
    ASSUME RowInv,
           NEW rows \in Seq(Songs), NEW index \in Nat, NEW current \in Songs \cup {NoSong},
           NEW sources \in Seq(PlaybackSource), Save(rows, index, current, sources),
           SaveableRows(rows, sources),
           queue' = rows, queueSources' = sources,
           queueIndex' \in Nat, currentSong' \in Songs \cup {NoSong},
           playbackSequence' \in Nat, skips' \in Nat
    PROVE  RowStep
<1>1. CASE Replaced(rows, sources) /\ Len(sources) = Len(rows)
  BY <1>1, ReplacedRows
<1>2. CASE Replaced(rows, sources) /\ Len(sources) # Len(rows)
  <2>1. rows = queue /\ Len(sources) = Len(queueSources)
    BY <1>2 DEF SaveableRows
  <2>2. queue = <<>>
    BY <1>2, <2>1 DEF RowInv, RestoringRows, LoadedRows, OneSourceEach
  <2>3. RowTypes' /\ RestoringRows' /\ LoadedRows'
    BY <1>2, <2>1, <2>2 DEF RowTypes, RestoringRows, LoadedRows, Replaced
  <2>4. SavedRows'
    BY <1>2, <2>1, <2>2 DEF SavedRows, HasStoredQueue, Replaced
  <2> QED
    BY <1>2, <2>1, <2>3, <2>4 DEF RowStep, RowInv, OneSourceEach, Replaced
<1>3. CASE rows = <<>> /\ Moved(index, current, sources)
  <2>1. Len(sources) = Len(queueSources)
    BY <1>3 DEF SaveableRows, Moved
  <2>2. RowTypes'
    BY <1>3 DEF RowTypes, RowInv, Moved
  <2>3. RestoringRows'
    BY <1>3, <2>1 DEF RestoringRows, RowInv, Moved
  <2> QED
    BY <1>3, <2>2, <2>3 DEF RowStep, RowInv, LoadedRows, SavedRows, Moved
<1> QED
  BY <1>1, <1>2, <1>3, SaveOutcome

\* A queue emptied and cleared from localStorage.
LEMMA ClearedStep ==
    ASSUME RowInv, ClearStored, queue' = <<>>, queueSources' = <<>>,
           queueIndex' = 0, currentSong' = NoSong,
           playbackSequence' \in Nat, skips' \in Nat
    PROVE  RowStep
  BY DEF RowStep, RowInv, RowTypes, RestoringRows, LoadedRows, SavedRows, OneSourceEach,
         ClearStored, HasStoredQueue

\* playSong, whatever rows its caller has set.
LEMMA PlayStep ==
    ASSUME RowInv,
           NEW rows \in Seq(Songs), NEW index \in Nat, NEW current \in Songs \cup {NoSong},
           NEW sources \in Seq(PlaybackSource), NEW song \in Songs,
           NEW user \in BOOLEAN, NEW saved \in BOOLEAN, NEW timers \in Nat,
           PlaySong([queue |-> rows, index |-> index, sources |-> sources, current |-> current],
                    song, user, saved, timers),
           SaveableRows(rows, sources),
           ~saved => rows = queue /\ sources = queueSources
    PROVE  RowStep
<1>1. skips' \in Nat /\ playbackSequence' \in Nat
  BY DEF PlaySong, RowInv, RowTypes
<1>2. CASE song \in Playable
  <2>1. queueSources' \in Seq(PlaybackSource) /\ Len(queueSources') = Len(sources)
    <3>1. "manual" \in PlaybackSource
      BY DEF PlaybackSource
    <3> QED
      BY <1>2, <3>1, ExceptSeq DEF PlaySong
  <2>2. Save(rows, index, song, queueSources') /\ queue' = rows /\ currentSong' = song
        /\ queueIndex' = index
    BY <1>2 DEF PlaySong
  <2>3. SaveableRows(rows, queueSources')
    BY <2>1 DEF SaveableRows
  <2> QED
    BY <1>1, <2>1, <2>2, <2>3, SavedStep
<1>3. CASE song \notin Playable /\ saved
  BY <1>1, <1>3, SavedStep DEF PlaySong
<1>4. CASE song \notin Playable /\ ~saved
  <2>1. /\ queue' = queue /\ queueSources' = queueSources /\ UNCHANGED savedVars
        /\ queueIndex' \in Nat /\ currentSong' \in Songs \cup {NoSong}
    BY <1>4 DEF PlaySong
  <2> QED
    BY <1>1, <2>1 DEF RowStep, RowInv, RowTypes, RestoringRows, LoadedRows, SavedRows,
                      OneSourceEach, HasStoredQueue, savedVars
<1> QED
  BY <1>2, <1>3, <1>4

-----------------------------------------------------------------------------
(***************************************************************************)
(* From the rows to the whole state.                                       *)
(***************************************************************************)
CloseToasts(list) ==
    \A i \in DOMAIN list : list[i].kind = "close" => Len(list[i].sources) = Len(list[i].queue)

LEMMA RowStepKeepsInv ==
    ASSUME Inv, RowStep, MaxReloads \in Nat,
           shuffleEnabled' \in BOOLEAN, originalQueue' \in Seq(Songs), loopMode' \in LoopModes,
           refill' \in Expectation \cup {NoRefill},
           toasts' \in Seq(RemovedToast \cup ClosedToast), CloseToasts(toasts'),
           toasts' # <<>> => toasts # <<>> \/ queue # <<>>,
           undoableCloseSequence' \in Nat \cup {None},
           awaited' = awaited, loaded' \in SUBSET Songs, reloads' = reloads
    PROVE  Inv'
<1>1. TypeOK'
  BY DEF Inv, TypeOK, RowStep, RowInv, RowTypes
<1>2. toasts' # <<>> => restore = "idle" /\ OneSourceEach
  BY DEF Inv, RowInv, ToastInv, RestoringRows, LoadedRows
<1>3. ToastInv'
  BY <1>2 DEF ToastInv, RowStep, CloseToasts
<1> QED
  BY <1>1, <1>3 DEF Inv, RowStep

\* Playback alone: rows, song, and whatever the shuffle and loop modes became.
LEMMA PlayerStep ==
    ASSUME Inv, RowStep,
           shuffleEnabled' \in BOOLEAN, originalQueue' \in Seq(Songs), loopMode' \in LoopModes,
           UNCHANGED <<refill, toastVars, loadVars, reloads>>
    PROVE  Inv'
  BY RowStepKeepsInv, BoundsAssumption
     DEF Inv, TypeOK, ToastInv, CloseToasts, toastVars, loadVars

LEMMA RowsUnchanged ==
    ASSUME RowInv, UNCHANGED <<queue, queueSources, savedVars>>,
           queueIndex' \in Nat, currentSong' \in Songs \cup {NoSong},
           playbackSequence' \in Nat, skips' \in Nat
    PROVE  RowStep
  BY DEF RowStep, RowInv, RowTypes, RestoringRows, LoadedRows, SavedRows,
         OneSourceEach, HasStoredQueue, savedVars

-----------------------------------------------------------------------------
(***************************************************************************)
(* Navigation.                                                             *)
(***************************************************************************)
\* The rows navigation moves over are songs, also while they are restored.
LEMMA RowsType ==
    ASSUME RowInv
    PROVE  Rows \in Seq(Songs) /\ (~Restoring => Rows = queue)
  BY DEF RowInv, RowTypes, RestoringRows, Rows, Restoring, Stored

LEMMA AdvanceStep ==
    ASSUME RowInv, NEW timers \in Nat, Advance(timers)
    PROVE  RowStep
<1> DEFINE i == NextIndex(Len(Rows))
<1>1. Rows \in Seq(Songs) /\ Len(Rows) \in Nat /\ DOMAIN Rows = 1..Len(Rows)
  BY RowsType, LenProperties
<1>2. CASE CanPlayRow(i)
  <2>1. i \in Nat /\ Rows[i] \in Songs
    BY <1>1, <1>2, ElementOfSeq DEF CanPlayRow
  <2>2. PlaySong([queue |-> queue, index |-> i, sources |-> queueSources,
                  current |-> currentSong], Rows[i], FALSE, FALSE, timers)
    BY <1>2 DEF Advance, View
  <2> HIDE DEF i
  <2> QED
    BY <2>1, <2>2, PlayStep DEF RowInv, RowTypes, SaveableRows
<1>3. CASE ~CanPlayRow(i)
  BY <1>3, RowsUnchanged DEF Advance, RowInv, RowTypes, rowVars, playVars
<1> QED
  BY <1>2, <1>3

LEMMA NextSongStep == Inv /\ NextSong => Inv'
  BY AdvanceStep, PlayerStep DEF Inv, TypeOK, NextSong, shuffleVars

LEMMA SkipTimerStep == Inv /\ SkipTimerFires => Inv'
<1> SUFFICES ASSUME Inv, SkipTimerFires PROVE Inv'
  OBVIOUS
<1>1. skips - 1 \in Nat
  BY DEF Inv, TypeOK, SkipTimerFires
<1> QED
  BY <1>1, AdvanceStep, PlayerStep DEF Inv, TypeOK, SkipTimerFires, shuffleVars

LEMMA PreviousSongStep == Inv /\ PreviousSong => Inv'
<1> SUFFICES ASSUME Inv, PreviousSong PROVE Inv'
  OBVIOUS
<1> DEFINE i == queueIndex - 1
<1>1. i \in Nat /\ RowInv
  BY DEF Inv, TypeOK, PreviousSong
<1>2. ASSUME CanPlayRow(i) PROVE RowStep
  <2>1. Rows[i] \in Songs
    BY <1>1, <1>2, RowsType, LenProperties, ElementOfSeq DEF CanPlayRow
  <2>2. PlaySong([queue |-> queue, index |-> i, sources |-> queueSources,
                  current |-> currentSong], Rows[i], TRUE, FALSE, skips)
    BY <1>2 DEF PreviousSong, View
  <2> HIDE DEF i
  <2> QED
    BY <1>1, <2>1, <2>2, PlayStep DEF RowInv, RowTypes, SaveableRows
<1>3. ASSUME ~CanPlayRow(i) PROVE RowStep
  BY <1>1, <1>3, RowsUnchanged DEF PreviousSong, RowInv, RowTypes, playVars
<1>4. RowStep
  BY <1>2, <1>3
<1> QED
  BY <1>4, PlayerStep DEF Inv, TypeOK, PreviousSong, shuffleVars

LEMMA JumpToIndexStep ==
    ASSUME Inv, NEW i \in Nat, JumpToIndex(i)
    PROVE  Inv'
<1>1. RowInv /\ Rows[i] \in Songs
  BY RowsType, LenProperties, ElementOfSeq DEF Inv, JumpToIndex, CanPlayRow
<1>2. ASSUME Restoring PROVE RowStep
  <2>1. PlaySong([queue |-> queue, index |-> i, sources |-> queueSources,
                  current |-> currentSong], Rows[i], TRUE, FALSE, skips)
    BY <1>2 DEF JumpToIndex, View
  <2> QED
    BY <1>1, <2>1, PlayStep DEF RowInv, RowTypes, SaveableRows
<1>3. ASSUME ~Restoring PROVE RowStep
  <2> DEFINE sources == [queueSources EXCEPT ![i] = "manual"]
  <2>1. /\ i \in 1..Len(queue) /\ queue[i] \in Songs /\ queue # <<>>
        /\ Len(queue) \in Nat
    BY <1>1, <1>3, RowsType, LenProperties DEF JumpToIndex, CanPlayRow, RowInv, RowTypes
  <2>2. Len(queueSources) = Len(queue)
    BY <1>1, <2>1 DEF RowInv, RestoringRows, LoadedRows, OneSourceEach
  <2>3. "manual" \in PlaybackSource
    BY DEF PlaybackSource
  <2>4. sources \in Seq(PlaybackSource) /\ Len(sources) = Len(queue)
    BY <1>1, <2>1, <2>2, <2>3, ExceptSeq DEF RowInv, RowTypes
  <2>5. PlaySong([queue |-> queue, index |-> i, sources |-> sources,
                  current |-> currentSong], queue[i], TRUE, TRUE, skips)
    BY <1>3 DEF JumpToIndex, View
  <2> HIDE DEF sources
  <2> QED
    BY <1>1, <2>1, <2>4, <2>5, PlayStep DEF RowInv, RowTypes, SaveableRows
<1>4. RowStep
  BY <1>2, <1>3
<1> QED
  BY <1>4, PlayerStep DEF Inv, TypeOK, JumpToIndex, shuffleVars

LEMMA PlayDirectStep ==
    ASSUME Inv, NEW song \in Songs, PlayDirect(song)
    PROVE  Inv'
<1>1. PlaySong([queue |-> queue, index |-> queueIndex, sources |-> queueSources,
                current |-> currentSong], song, TRUE, FALSE, skips)
  BY DEF PlayDirect, View
<1>2. RowStep
  BY <1>1, PlayStep DEF Inv, RowInv, RowTypes, SaveableRows
<1> QED
  BY <1>2, PlayerStep DEF Inv, TypeOK, PlayDirect, shuffleVars

LEMMA PlaybackStep == Inv /\ (SelectPV \/ ToggleLoopMode) => Inv'
<1> SUFFICES ASSUME Inv, SelectPV \/ ToggleLoopMode PROVE Inv'
  OBVIOUS
<1>1. RowStep
  BY RowsUnchanged DEF Inv, RowInv, RowTypes, SelectPV, ToggleLoopMode, rowVars, playVars
<1> QED
  BY <1>1, PlayerStep DEF Inv, TypeOK, SelectPV, ToggleLoopMode, shuffleVars

-----------------------------------------------------------------------------
(***************************************************************************)
(* Replacing the queue.                                                    *)
(***************************************************************************)
\* playSong over new rows, all of one source.
LEMMA StartQueueStep ==
    ASSUME RowInv, NEW songs \in Seq(Songs) \ {<<>>}, NEW rows \in Seq(Songs),
           Len(rows) = Len(songs), NEW start \in 1..Len(songs), NEW source \in PlaybackSource,
           NEW user \in BOOLEAN,
           PlaySong(View(rows, start, Constantly(source, songs)), rows[start], user, TRUE, skips)
    PROVE  RowStep
<1> DEFINE sources == Constantly(source, songs)
<1>1. sources \in Seq(PlaybackSource) /\ Len(sources) = Len(songs)
  BY ConstantlyType
<1>2. Len(songs) \in Nat /\ start \in Nat /\ rows # <<>> /\ rows[start] \in Songs
  <2>1. Len(songs) \in Nat /\ start \in 1..Len(rows)
    BY LenProperties
  <2> QED
    BY <2>1, LenProperties, ElementOfSeq
<1>3. PlaySong([queue |-> rows, index |-> start, sources |-> sources, current |-> currentSong],
               rows[start], user, TRUE, skips)
  BY DEF View
<1> HIDE DEF sources
<1>4. SaveableRows(rows, sources) /\ currentSong \in Songs \cup {NoSong} /\ skips \in Nat
  BY <1>1, <1>2 DEF SaveableRows, RowInv, RowTypes
<1> QED
  BY <1>1, <1>2, <1>3, <1>4, PlayStep

\* A row moved to the front of the shuffled others: all the rows.
LEMMA FrontedType ==
    ASSUME NEW S, NEW list \in Seq(S), NEW i \in 1..Len(list),
           NEW rest \in Shuffles(RemoveAt(list, i))
    PROVE  /\ <<list[i]>> \o rest \in Seq(S)
           /\ Len(<<list[i]>> \o rest) = Len(list)
           /\ (<<list[i]>> \o rest)[1] = list[i]
<1>1. Len(list) \in Nat /\ list[i] \in S
  BY LenProperties, ElementOfSeq
<1>2. RemoveAt(list, i) \in Seq(S) /\ Len(RemoveAt(list, i)) = Len(list) - 1
  BY RemoveAtProperties
<1>3. rest \in Seq(S) /\ Len(rest) = Len(list) - 1
  BY <1>2, ShufflesType
<1>4. <<list[i]>> \in Seq(S) /\ Len(<<list[i]>>) = 1 /\ <<list[i]>>[1] = list[i]
  BY <1>1
<1> DEFINE front == <<list[i]>>
<1>5. front \in Seq(S) /\ Len(front) = 1 /\ front[1] = list[i]
  BY <1>4
<1> HIDE DEF front
<1>6. /\ front \o rest \in Seq(S) /\ Len(front \o rest) = Len(front) + Len(rest)
      /\ \A k \in 1..Len(front) + Len(rest) : (front \o rest)[k] =
            IF k <= Len(front) THEN front[k] ELSE rest[k - Len(front)]
  BY <1>3, <1>5, ConcatProperties
<1>7. 1 \in 1..Len(front) + Len(rest) /\ 1 <= Len(front)
      /\ Len(front) + Len(rest) = Len(list)
  BY <1>1, <1>3, <1>5
<1> QED
  BY <1>5, <1>6, <1>7 DEF front

LEMMA SetQueueStep ==
    ASSUME Inv, NEW songs \in Playlists, NEW start \in DOMAIN songs,
           NEW source \in StartSources, SetQueue(songs, start, source)
    PROVE  Inv'
<1>1. /\ songs \in Seq(Songs) \ {<<>>} /\ source \in PlaybackSource /\ RowInv
      /\ start \in 1..Len(songs) /\ Len(songs) \in Nat \ {0}
  <2>1. songs \in Seq(Songs) \ {<<>>} /\ source \in PlaybackSource /\ RowInv
    BY InputsAssumption DEF Inv
  <2> QED
    BY <2>1, LenProperties
<1>2. UserStarts(source) \in BOOLEAN
  BY DEF UserStarts
<1>3. ASSUME shuffleEnabled PROVE RowStep
  <2>1. PICK rest \in Shuffles(RemoveAt(songs, start)) :
            PlaySong(View(<<songs[start]>> \o rest, 1, Constantly(source, songs)),
                     songs[start], UserStarts(source), TRUE, skips)
    BY <1>3 DEF SetQueue
  <2> DEFINE rows == <<songs[start]>> \o rest
  <2>2. rows \in Seq(Songs) /\ Len(rows) = Len(songs) /\ rows[1] = songs[start]
    BY <1>1, FrontedType
  <2>3. PlaySong(View(rows, 1, Constantly(source, songs)), rows[1], UserStarts(source),
                 TRUE, skips)
    BY <2>1, <2>2
  <2> HIDE DEF rows
  <2>4. 1 \in 1..Len(songs)
    BY <1>1
  <2> QED
    BY <1>1, <1>2, <2>2, <2>3, <2>4, StartQueueStep
<1>4. ASSUME ~shuffleEnabled PROVE RowStep
  BY <1>1, <1>2, <1>4, StartQueueStep DEF SetQueue
<1>5. RowStep
  BY <1>3, <1>4
<1>6. originalQueue' = songs \/ originalQueue' = <<>>
  BY DEF SetQueue
<1>7. originalQueue' \in Seq(Songs)
  <2>1. <<>> \in Seq(Songs)
    OBVIOUS
  <2>2. songs \in Seq(Songs)
    BY <1>1
  <2> QED
    BY <1>6, <2>1, <2>2
<1> QED
  BY <1>5, <1>7, PlayerStep DEF Inv, TypeOK, SetQueue

LEMMA SetQueueShuffledStep ==
    ASSUME Inv, NEW songs \in Playlists, SetQueueShuffled(songs)
    PROVE  Inv'
<1>1. songs \in Seq(Songs) \ {<<>>} /\ RowInv /\ Len(songs) \in Nat \ {0}
  <2>1. songs \in Seq(Songs) \ {<<>>} /\ RowInv
    BY InputsAssumption DEF Inv
  <2> QED
    BY <2>1, LenProperties
<1>2. PICK rows \in Shuffles(songs) :
          PlaySong(View(rows, 1, Constantly("manual", songs)), rows[1], TRUE, TRUE, skips)
  BY DEF SetQueueShuffled
<1>3. rows \in Seq(Songs) /\ Len(rows) = Len(songs) /\ 1 \in 1..Len(songs)
  BY <1>1, ShufflesType
<1>4. RowStep
  BY <1>1, <1>2, <1>3, StartQueueStep DEF PlaybackSource
<1> QED
  BY <1>1, <1>4, PlayerStep DEF Inv, TypeOK, SetQueueShuffled

\* Rearranged rows, their sources looked up in the queue they come from.
LEMMA RearrangedStep ==
    ASSUME RowInv, NEW rows \in Seq(Songs), NEW index \in Nat,
           rows # <<>> \/ restore = "idle", NEW current \in Songs \cup {NoSong},
           Save(rows, index, current, queueSources'),
           queue' = rows, queueSources' = MapSources(rows, queue, queueSources),
           queueIndex' = index, currentSong' = current, UNCHANGED <<playbackSequence, skips>>
    PROVE  RowStep
<1>1. queueSources' \in Seq(PlaybackSource) /\ Len(queueSources') = Len(rows)
  BY MapSourcesType DEF RowInv, RowTypes
<1>2. SaveableRows(rows, queueSources')
  BY <1>1 DEF SaveableRows
<1> QED
  BY <1>1, <1>2, SavedStep DEF RowInv, RowTypes

LEMMA ShuffleOnStep == Inv /\ ShuffleOn => Inv'
<1> SUFFICES ASSUME Inv, ShuffleOn PROVE Inv'
  OBVIOUS
<1>1. RowInv /\ queue \in Seq(Songs) /\ DOMAIN queue = 1..Len(queue)
  BY LenProperties DEF Inv, TypeOK
<1>2. PICK rows \in IF queueIndex \in DOMAIN queue
                    THEN {<<queue[queueIndex]>> \o rest :
                             rest \in Shuffles(RemoveAt(queue, queueIndex))}
                    ELSE Shuffles(queue) :
          /\ queue' = rows
          /\ queueSources' = MapSources(rows, queue, queueSources)
          /\ Save(rows, 1, currentSong, queueSources')
  BY DEF ShuffleOn
<1>3. rows \in Seq(Songs)
  BY <1>1, <1>2, FrontedType, ShufflesType
<1>4. RowStep
  BY <1>1, <1>2, <1>3, RearrangedStep DEF ShuffleOn, playVars, Inv, TypeOK
<1> QED
  BY <1>1, <1>4, PlayerStep DEF Inv, TypeOK, ShuffleOn

LEMMA ShuffleOffStep == Inv /\ ShuffleOff => Inv'
<1> SUFFICES ASSUME Inv, ShuffleOff PROVE Inv'
  OBVIOUS
<1>1. RowInv /\ originalQueue \in Seq(Songs) /\ <<>> \in Seq(Songs)
  BY DEF Inv, TypeOK
<1>2. UnshuffledIndex \in Nat
  <2>1. FirstRowOf(currentSong, originalQueue) \in Nat
    BY <1>1, FirstRowOfRange, LenProperties
  <2> QED
    BY <2>1 DEF UnshuffledIndex, Inv, TypeOK
<1>3. RowStep
  BY <1>1, <1>2, RearrangedStep DEF ShuffleOff, playVars, Inv, TypeOK
<1> QED
  BY <1>1, <1>3, PlayerStep DEF Inv, TypeOK, ShuffleOff

-----------------------------------------------------------------------------
(***************************************************************************)
(* Editing the queue.                                                      *)
(***************************************************************************)
LEMMA ToSetType ==
    ASSUME NEW songs \in Seq(Songs)
    PROVE  ToSet(songs) \in SUBSET Songs
  BY LenProperties, ElementOfSeq DEF ToSet

LEMMA InsertIntoQueueStep ==
    ASSUME RowInv, NEW songs \in Seq(Songs), NEW source \in PlaybackSource,
           restore # "idle" => songs # <<>>,
           InsertIntoQueue(songs, source), UNCHANGED <<playVars, skips>>
    PROVE  RowStep
<1> DEFINE sources == NormalizeSources(Len(queue), queueSources)
           at == InsertPosition(sources, queueIndex, source)
           rows == Splice(queue, at, songs)
           added == Constantly(source, songs)
           next == Splice(sources, at, added)
<1>1. queue \in Seq(Songs) /\ Len(queue) \in Nat /\ Len(songs) \in Nat /\ queueIndex \in Nat
  BY LenProperties DEF RowInv, RowTypes
<1>2. sources \in Seq(PlaybackSource) /\ Len(sources) = Len(queue)
  BY <1>1, NormalizeSourcesType
<1>3. at \in 1..Len(queue) + 1
  BY <1>1, <1>2, InsertPositionRange
<1>4. rows \in Seq(Songs) /\ Len(rows) = Len(queue) + Len(songs)
  BY <1>1, <1>3, SpliceType
<1>5. added \in Seq(PlaybackSource) /\ Len(added) = Len(songs)
  BY ConstantlyType
<1>6. next \in Seq(PlaybackSource) /\ Len(next) = Len(queue) + Len(songs)
  <2> HIDE DEF sources, at, added
  <2>1. /\ sources \in Seq(PlaybackSource) /\ added \in Seq(PlaybackSource)
        /\ at \in 1..Len(sources) + 1
    BY <1>2, <1>3, <1>5
  <2>2. /\ Splice(sources, at, added) \in Seq(PlaybackSource)
        /\ Len(Splice(sources, at, added)) = Len(sources) + Len(added)
    BY <2>1, SpliceType
  <2> QED
    BY <1>2, <1>5, <2>2
<1>7. Save(rows, queueIndex, currentSong, next) /\ queue' = rows /\ queueSources' = next
      /\ UNCHANGED queueIndex
  BY DEF InsertIntoQueue
<1> HIDE DEF sources, at, rows, added, next
<1>8. Len(rows) = Len(next) /\ (rows # <<>> \/ restore = "idle")
  BY <1>1, <1>4, <1>6
<1> QED
  BY <1>1, <1>4, <1>6, <1>7, <1>8, SavedStep DEF SaveableRows, RowInv, RowTypes, playVars

\* Songs queued into the list that is being restored.
LEMMA AppendToRestoringStep ==
    ASSUME RowInv, Restoring, NEW songs \in Seq(Songs), NEW source \in PlaybackSource,
           AppendToRestoring(songs, source), UNCHANGED <<playVars, skips>>
    PROVE  RowStep
<1> DEFINE saved == Parsed(snapshot)
           at == InsertPosition(saved.sources, queueIndex, source)
           added == Constantly(source, songs)
           ids == Splice(saved.songIds, at, songs)
           sources == Splice(saved.sources, at, added)
<1>1. /\ restore # "idle" /\ queue = <<>> /\ snapshot \in Stored
      /\ queueIndex \in Nat /\ Len(songs) \in Nat
      /\ snapshot.songIds \in Seq(Songs) /\ snapshot.songIds # <<>>
      /\ Len(snapshot.songIds) \in Nat \ {0}
  BY LenProperties DEF RowInv, RowTypes, RestoringRows, Restoring, Stored
<1>2. /\ saved.songIds = snapshot.songIds
      /\ saved.sources \in Seq(PlaybackSource) /\ Len(saved.sources) = Len(snapshot.songIds)
  BY <1>1, NormalizeSourcesType DEF Parsed, Stored
<1>3. at \in 1..Len(snapshot.songIds) + 1
  BY <1>1, <1>2, InsertPositionRange
<1>4. added \in Seq(PlaybackSource) /\ Len(added) = Len(songs)
  BY ConstantlyType
<1>5. ids \in Seq(Songs) /\ Len(ids) = Len(snapshot.songIds) + Len(songs)
  BY <1>1, <1>2, <1>3, SpliceType
<1>6. sources \in Seq(PlaybackSource) /\ Len(sources) = Len(snapshot.songIds) + Len(songs)
  <2> DEFINE old == saved.sources
  <2>1. at \in 1..Len(old) + 1 /\ old \in Seq(PlaybackSource)
        /\ Len(old) = Len(snapshot.songIds)
    BY <1>2, <1>3
  <2> HIDE DEF old, at, added
  <2>2. Splice(old, at, added) \in Seq(PlaybackSource)
        /\ Len(Splice(old, at, added)) = Len(old) + Len(added)
    BY <1>4, <2>1, SpliceType
  <2> QED
    BY <1>4, <2>1, <2>2 DEF old
<1>7. saved \in Stored
  BY <1>1, <1>2 DEF Parsed, Stored
<1>8. /\ stored' = [saved EXCEPT !.songIds = ids, !.sources = sources]
      /\ snapshot' = stored' /\ queueSources' = sources
      /\ UNCHANGED <<queue, queueIndex, restore>>
  BY DEF AppendToRestoring
<1> HIDE DEF saved, at, added, ids, sources
<1>9. stored' \in Stored /\ stored'.songIds = ids /\ ids # <<>>
  <2>1. ids # <<>>
    BY <1>1, <1>5
  <2>2. stored' = [songIds |-> ids, sources |-> sources, index |-> saved.index,
                   current |-> saved.current]
    BY <1>7, <1>8 DEF Stored
  <2> QED
    BY <1>5, <1>6, <1>7, <2>1, <2>2 DEF Stored
<1>10. RowTypes'
  BY <1>6, <1>8, <1>9 DEF RowTypes, RowInv, playVars
<1>11. RestoringRows'
  BY <1>1, <1>5, <1>6, <1>8, <1>9 DEF RestoringRows
<1> QED
  BY <1>1, <1>8, <1>10, <1>11 DEF RowStep, RowInv, LoadedRows, SavedRows

LEMMA AddToQueueStep ==
    ASSUME Inv, NEW song \in Songs, AddToQueue(<<song>>)
    PROVE  Inv'
<1>1. RowInv /\ <<song>> \in Seq(Songs) /\ <<song>> # <<>> /\ "manual" \in PlaybackSource
  BY DEF Inv, PlaybackSource
<1> DEFINE songs == <<song>>
<1>2. ToSet(songs) \in SUBSET Songs
  BY <1>1, ToSetType
<1> HIDE DEF songs
<1>3. RowInv /\ songs \in Seq(Songs) /\ songs # <<>> /\ AddToQueue(songs)
  BY <1>1 DEF songs
<1>4. ASSUME Restoring PROVE RowStep /\ loaded' \in SUBSET Songs
  <2>1. AppendToRestoring(songs, "manual") /\ UNCHANGED <<playVars, skips>>
    BY <1>3, <1>4 DEF AddToQueue
  <2> QED
    BY <1>1, <1>2, <1>3, <1>4, <2>1, AppendToRestoringStep DEF AppendToRestoring, Inv, TypeOK
<1>5. ASSUME ~Restoring PROVE RowStep /\ loaded' \in SUBSET Songs
  <2>1. /\ InsertIntoQueue(songs, "manual") /\ UNCHANGED loaded
        /\ UNCHANGED <<playVars, skips>>
    BY <1>3, <1>5 DEF AddToQueue
  <2> QED
    BY <1>1, <1>3, <2>1, InsertIntoQueueStep DEF Inv, TypeOK
<1>6. RowStep /\ loaded' \in SUBSET Songs
  BY <1>4, <1>5
<1> QED
  BY <1>3, <1>6, RowStepKeepsInv, BoundsAssumption
     DEF AddToQueue, Inv, TypeOK, ToastInv, CloseToasts, toastVars, shuffleVars

LEMMA RefillStep ==
    ASSUME Inv, RequestRefill \/ \E song \in Songs : RefillArrives(<<song>>)
    PROVE  Inv'
<1>1. RowInv /\ "auto" \in PlaybackSource
  BY DEF Inv, PlaybackSource
<1>2. CASE RequestRefill
  <2>1. RowStep
    BY <1>1, <1>2, RowsUnchanged DEF RowInv, RowTypes, RequestRefill, rowVars, playVars
  <2>2. refill' \in Expectation
    BY <1>2 DEF RequestRefill, Expectation, Inv, TypeOK
  <2> QED
    BY <1>2, <2>1, <2>2, RowStepKeepsInv, BoundsAssumption
       DEF RequestRefill, Inv, TypeOK, ToastInv, CloseToasts, toastVars, shuffleVars, loadVars
<1>3. ASSUME NEW song \in Songs, RefillArrives(<<song>>) PROVE Inv'
  <2> DEFINE songs == <<song>>
  <2>1. songs \in Seq(Songs) /\ RefillArrives(songs)
    BY <1>3
  <2> HIDE DEF songs
  <2>2. ASSUME RefillExpected PROVE RowStep
    <3>1. restore = "idle" /\ InsertIntoQueue(songs, "auto") /\ UNCHANGED <<playVars, skips>>
      BY <2>1, <2>2 DEF RefillArrives, RefillExpected
    <3> QED
      BY <1>1, <2>1, <3>1, InsertIntoQueueStep
  <2>3. ASSUME ~RefillExpected PROVE RowStep
    BY <1>1, <2>1, <2>3, RowsUnchanged DEF RowInv, RowTypes, RefillArrives, rowVars, playVars
  <2>4. RowStep
    BY <2>2, <2>3
  <2> QED
    BY <2>1, <2>4, RowStepKeepsInv, BoundsAssumption
       DEF RefillArrives, Inv, TypeOK, ToastInv, CloseToasts, toastVars, shuffleVars, loadVars
<1> QED
  BY <1>2, <1>3

\* showToast: the new toast is a toast like the others.
LEMMA WithToastType ==
    ASSUME NEW T, toasts \in Seq(T), NEW toast \in T, CloseToasts(toasts),
           toast.kind = "close" => Len(toast.sources) = Len(toast.queue),
           NEW next \in WithToast(toast)
    PROVE  next \in Seq(T) /\ CloseToasts(next)
<1>1. Len(toasts) \in Nat /\ DOMAIN toasts = 1..Len(toasts)
  BY LenProperties
<1>2. CASE next = Append(toasts, toast)
  BY <1>1, <1>2, AppendProperties, LenProperties DEF CloseToasts
<1>3. CASE toasts # <<>> /\ next = [toasts EXCEPT ![Len(toasts)] = toast]
  <2>1. Len(toasts) \in 1..Len(toasts)
    BY <1>1, <1>3, EmptySeq
  <2>2. next \in Seq(T) /\ Len(next) = Len(toasts)
    BY <1>3, <2>1, ExceptSeq
  <2>3. \A i \in 1..Len(toasts) : next[i] = IF i = Len(toasts) THEN toast ELSE toasts[i]
    BY <1>3, <2>1, ExceptSeq
  <2> QED
    BY <1>1, <2>2, <2>3, LenProperties DEF CloseToasts
<1> QED
  BY <1>2, <1>3 DEF WithToast

LEMMA SmallerType ==
    ASSUME NEW m \in Nat, NEW n \in Nat
    PROVE  Smaller(m, n) \in Nat /\ Smaller(m, n) <= m /\ Smaller(m, n) <= n
  BY DEF Smaller

LEMMA RemoveStep ==
    ASSUME Inv, NEW i \in Nat, NEW hide \in BOOLEAN, RemoveFromQueue(i, hide)
    PROVE  Inv'
<1> DEFINE rows == RemoveAt(queue, i)
           sources == RemoveAt(queueSources, i)
           row == Smaller(i, Len(rows))
           index == IndexWithout(i)
           toast == RemovedRow(i, hide)
<1>1. /\ RowInv /\ queue \in Seq(Songs) /\ queueSources \in Seq(PlaybackSource)
      /\ i \in 1..Len(queue) /\ Len(queue) \in Nat \ {0} /\ queue # <<>> /\ queueIndex \in Nat
  BY LenProperties DEF Inv, TypeOK, RemoveFromQueue
<1>2. restore = "idle" /\ Len(queueSources) = Len(queue)
  BY <1>1 DEF RowInv, RestoringRows, LoadedRows, OneSourceEach
<1>3. rows \in Seq(Songs) /\ Len(rows) = Len(queue) - 1
  BY <1>1, RemoveAtProperties
<1>4. sources \in Seq(PlaybackSource) /\ Len(sources) = Len(queue) - 1
  <2>1. i \in 1..Len(queueSources)
    BY <1>1, <1>2
  <2> QED
    BY <1>1, <1>2, <2>1, RemoveAtProperties
<1>5. row \in Nat /\ row <= Len(rows) /\ index \in Nat
  <2>1. i \in Nat /\ Len(rows) \in Nat
    BY <1>1, <1>3
  <2>2. row \in Nat /\ row <= Len(rows)
    BY <2>1, SmallerType
  <2>3. index \in Nat
    BY <1>1 DEF IndexWithout
  <2> QED
    BY <2>2, <2>3
<1>6. toast \in RemovedToast
  <2>1. queue[i] \in Songs /\ i \in Nat \ {0}
    BY <1>1, ElementOfSeq
  <2>2. (IF i \in DOMAIN queueSources THEN queueSources[i] ELSE "manual") \in PlaybackSource
    BY <1>1, <1>2, LenProperties, ElementOfSeq DEF PlaybackSource
  <2>3. (hide /\ i = queueIndex /\ queue[i] = currentSong) \in BOOLEAN
    BY Zenon
  <2> QED
    BY <2>1, <2>2, <2>3 DEF RemovedRow, RemovedToast
<1>7. toasts' \in Seq(RemovedToast \cup ClosedToast) /\ CloseToasts(toasts')
  <2>1. toasts' \in WithToast(toast)
    BY DEF RemoveFromQueue
  <2>2. toast.kind # "close"
    BY <1>6 DEF RemovedToast
  <2>3. toasts \in Seq(RemovedToast \cup ClosedToast) /\ CloseToasts(toasts)
    BY DEF Inv, TypeOK, ToastInv, CloseToasts
  <2> HIDE DEF toast
  <2> QED
    BY <1>6, <2>1, <2>2, <2>3, WithToastType
<1>8. \/ /\ Save(rows, index, currentSong, sources)
         /\ queue' = rows /\ queueSources' = sources /\ queueIndex' = index
         /\ UNCHANGED <<playVars, skips>>
      \/ /\ rows # <<>>
         /\ PlaySong(View(rows, row, sources), rows[row], FALSE, TRUE, skips)
      \/ /\ queue' = <<>> /\ queueSources' = <<>> /\ queueIndex' = 0
         /\ currentSong' = NoSong
         /\ ClearStored
         /\ UNCHANGED <<playbackSequence, skips>>
  BY DEF RemoveFromQueue
<1>9. SaveableRows(rows, sources)
  BY <1>2, <1>3, <1>4 DEF SaveableRows
<1>10. RowStep
  <2>1. ASSUME Save(rows, index, currentSong, sources),
               queue' = rows, queueSources' = sources, queueIndex' = index,
               UNCHANGED <<playVars, skips>>
        PROVE  RowStep
    <3> HIDE DEF rows, sources, index
    <3> QED
      BY <1>1, <1>3, <1>4, <1>5, <1>9, <2>1, SavedStep DEF RowInv, RowTypes, playVars
  <2>2. ASSUME rows # <<>>,
               PlaySong(View(rows, row, sources), rows[row], FALSE, TRUE, skips)
        PROVE  RowStep
    <3>1. row \in 1..Len(rows)
      <4>1. Len(rows) \in Nat \ {0}
        BY <1>3, <2>2, EmptySeq
      <4> QED
        BY <1>1, <4>1 DEF Smaller
    <3>2. PlaySong([queue |-> rows, index |-> row, sources |-> sources,
                    current |-> currentSong], rows[row], FALSE, TRUE, skips)
      BY <2>2 DEF View
    <3> HIDE DEF rows, sources, row
    <3>3. rows[row] \in Songs
      BY <1>3, <3>1, ElementOfSeq
    <3>4. currentSong \in Songs \cup {NoSong} /\ skips \in Nat
      BY <1>1 DEF RowInv, RowTypes
    <3> QED
      BY <1>1, <1>3, <1>4, <1>5, <1>9, <3>2, <3>3, <3>4, PlayStep
  <2>3. ASSUME queue' = <<>>, queueSources' = <<>>, queueIndex' = 0, currentSong' = NoSong,
               ClearStored, UNCHANGED <<playbackSequence, skips>>
        PROVE  RowStep
    BY <1>1, <2>3, ClearedStep DEF RowInv, RowTypes
  <2> HIDE DEF rows, sources, row, index
  <2> QED
    BY <1>8, <2>1, <2>2, <2>3
<1> HIDE DEF rows, sources, row, index, toast
<1>11. UNCHANGED <<shuffleVars, loopMode, refill, undoableCloseSequence, loadVars, reloads>>
  BY DEF RemoveFromQueue
<1> QED
  BY <1>1, <1>7, <1>10, <1>11, RowStepKeepsInv, BoundsAssumption
     DEF Inv, TypeOK, shuffleVars, loadVars

LEMMA RemoveDuplicatesStep == Inv /\ RemoveDuplicates => Inv'
<1> SUFFICES ASSUME Inv, RemoveDuplicates PROVE Inv'
  OBVIOUS
<1>1. RowInv /\ queue \in Seq(Songs) /\ KeptRows(queue, queueIndex) \in SUBSET DOMAIN queue
      /\ queueIndex \in Nat /\ currentSong \in Songs \cup {NoSong}
  BY DEF Inv, TypeOK, KeptRows
<1>2. restore = "idle"
  <2>1. queue # <<>>
    <3>1. DOMAIN queue # {}
      BY <1>1 DEF RemoveDuplicates
    <3>2. DOMAIN <<>> = {}
      OBVIOUS
    <3> QED
      BY <3>1, <3>2
  <2> QED
    BY <1>1, <2>1 DEF RowInv, RestoringRows
<1>3. PICK kept \in Enumerations(KeptRows(queue, queueIndex)) :
          LET rows == RowsAt(queue, kept)
              found == FirstRowOf(currentSong, rows)
              index == IF found # 0 THEN found ELSE Smaller(queueIndex, Len(rows))
              current == IF index = 0 THEN NoSong ELSE rows[index]
          IN  /\ queue' = rows
              /\ queueIndex' = index
              /\ queueSources' = MapSources(rows, queue, queueSources)
              /\ currentSong' = current
              /\ Save(rows, index, current, queueSources')
  BY DEF RemoveDuplicates
<1> DEFINE rows == RowsAt(queue, kept)
           found == FirstRowOf(currentSong, rows)
           index == IF found # 0 THEN found ELSE Smaller(queueIndex, Len(rows))
           current == IF index = 0 THEN NoSong ELSE rows[index]
<1>4. rows \in Seq(Songs)
  BY <1>1, KeptRowsType
<1>5. /\ queue' = rows /\ queueIndex' = index /\ currentSong' = current
      /\ queueSources' = MapSources(rows, queue, queueSources)
      /\ Save(rows, index, current, queueSources')
  BY <1>3
<1> HIDE DEF rows
<1>6. index \in 0..Len(rows) /\ Len(rows) \in Nat
  <2>1. found \in 0..Len(rows) /\ Len(rows) \in Nat
    BY <1>4, FirstRowOfRange, LenProperties
  <2> HIDE DEF found
  <2> QED
    BY <1>1, <2>1, SmallerType
<1> HIDE DEF index
<1>7. current \in Songs \cup {NoSong}
  <2>1. index # 0 => rows[index] \in Songs
    BY <1>4, <1>6, ElementOfSeq
  <2> QED
    BY <2>1
<1> HIDE DEF current
<1>8. RowStep
  <2>1. index \in Nat /\ UNCHANGED <<playbackSequence, skips>>
    BY <1>6 DEF RemoveDuplicates
  <2> QED
    BY <1>1, <1>2, <1>4, <1>5, <1>7, <2>1, RearrangedStep
<1>9. UNCHANGED <<shuffleVars, loopMode, refill, toastVars, loadVars, reloads>>
  BY DEF RemoveDuplicates
<1> QED
  BY <1>8, <1>9, PlayerStep DEF Inv, TypeOK, shuffleVars

-----------------------------------------------------------------------------
(***************************************************************************)
(* Closing, undo and toasts.                                               *)
(***************************************************************************)
LEMMA ClosePlayerStep == Inv /\ ClosePlayer => Inv'
<1> SUFFICES ASSUME Inv, ClosePlayer PROVE Inv'
  OBVIOUS
<1>1. RowStep
  BY ClearedStep DEF ClosePlayer, Empty, Inv, RowInv, RowTypes
<1> QED
  BY <1>1, RowStepKeepsInv, BoundsAssumption
     DEF ClosePlayer, Inv, TypeOK, ToastInv, CloseToasts, shuffleVars, loadVars

LEMMA ClosePlayerWithUndoStep == Inv /\ ClosePlayerWithUndo => Inv'
<1> SUFFICES ASSUME Inv, ClosePlayerWithUndo PROVE Inv'
  OBVIOUS
<1> DEFINE toast == [kind |-> "close", queue |-> queue, index |-> queueIndex,
                     sources |-> queueSources, shuffle |-> shuffleEnabled,
                     original |-> originalQueue, current |-> currentSong,
                     sequence |-> playbackSequence]
<1>1. RowStep
  BY ClearedStep DEF ClosePlayerWithUndo, Empty, Inv, RowInv, RowTypes
<1>2. toast \in ClosedToast
  BY DEF ClosedToast, ClosePlayerWithUndo, Inv, TypeOK
<1>3. queue # <<>> /\ Len(toast.sources) = Len(toast.queue)
  BY DEF ClosePlayerWithUndo, Inv, RowInv, RestoringRows, LoadedRows, OneSourceEach
<1>4. toasts' \in Seq(RemovedToast \cup ClosedToast) /\ CloseToasts(toasts')
  <2>1. toasts' \in WithToast(toast)
    BY DEF ClosePlayerWithUndo
  <2>2. toasts \in Seq(RemovedToast \cup ClosedToast) /\ CloseToasts(toasts)
    BY DEF Inv, TypeOK, ToastInv, CloseToasts
  <2> HIDE DEF toast
  <2> QED
    BY <1>2, <1>3, <2>1, <2>2, WithToastType
<1>5. undoableCloseSequence' \in Nat \cup {None}
  BY DEF ClosePlayerWithUndo, Inv, TypeOK
<1>6. UNCHANGED <<shuffleVars, loopMode, refill, loadVars, reloads>>
  BY DEF ClosePlayerWithUndo
<1> QED
  BY <1>1, <1>3, <1>4, <1>5, <1>6, RowStepKeepsInv, BoundsAssumption
     DEF Inv, TypeOK, shuffleVars, loadVars

\* The toasts left when the first one goes.
LEMMA ToastsLeft ==
    ASSUME Inv, toasts # <<>>
    PROVE  /\ Head(toasts) \in RemovedToast \cup ClosedToast
           /\ Tail(toasts) \in Seq(RemovedToast \cup ClosedToast)
           /\ CloseToasts(Tail(toasts))
           /\ Head(toasts).kind = "close" =>
                Len(Head(toasts).sources) = Len(Head(toasts).queue)
<1>1. toasts \in Seq(RemovedToast \cup ClosedToast) /\ CloseToasts(toasts)
  BY DEF Inv, TypeOK, ToastInv, CloseToasts
<1>2. /\ Head(toasts) \in RemovedToast \cup ClosedToast
      /\ Tail(toasts) \in Seq(RemovedToast \cup ClosedToast)
      /\ Len(Tail(toasts)) = Len(toasts) - 1 /\ Len(toasts) \in Nat \ {0}
      /\ \A i \in 1..Len(Tail(toasts)) : Tail(toasts)[i] = toasts[i + 1]
      /\ Head(toasts) = toasts[1]
  BY <1>1, HeadTailProperties, EmptySeq
<1>3. DOMAIN toasts = 1..Len(toasts) /\ DOMAIN Tail(toasts) = 1..Len(Tail(toasts))
  BY <1>1, <1>2, LenProperties
<1>4. CloseToasts(Tail(toasts))
  <2> SUFFICES ASSUME NEW i \in 1..Len(Tail(toasts)), Tail(toasts)[i].kind = "close"
               PROVE  Len(Tail(toasts)[i].sources) = Len(Tail(toasts)[i].queue)
    BY <1>3 DEF CloseToasts
  <2>1. Tail(toasts)[i] = toasts[i + 1] /\ i + 1 \in DOMAIN toasts
    BY <1>2, <1>3
  <2> QED
    BY <1>1, <2>1 DEF CloseToasts
<1>5. Head(toasts).kind = "close" => Len(Head(toasts).sources) = Len(Head(toasts).queue)
  <2>1. 1 \in DOMAIN toasts
    BY <1>2, <1>3
  <2> QED
    BY <1>1, <1>2, <2>1 DEF CloseToasts
<1> QED
  BY <1>2, <1>4, <1>5

LEMMA DismissToastStep == Inv /\ DismissToast => Inv'
<1> SUFFICES ASSUME Inv, DismissToast PROVE Inv'
  OBVIOUS
<1>1. RowStep
  BY RowsUnchanged DEF DismissToast, Inv, RowInv, RowTypes, rowVars, playVars
<1>2. toasts # <<>> /\ toasts' = Tail(toasts)
  BY DEF DismissToast
<1>3. undoableCloseSequence' \in Nat \cup {None}
  BY DEF DismissToast, CloseOfferAfter, Inv, TypeOK
<1> QED
  BY <1>1, <1>2, <1>3, ToastsLeft, RowStepKeepsInv, BoundsAssumption
     DEF DismissToast, Inv, TypeOK, shuffleVars, loadVars

LEMMA PageHideStep == Inv /\ PageHide => Inv'
<1> SUFFICES ASSUME Inv, PageHide PROVE Inv'
  OBVIOUS
<1>1. RowStep
  BY RowsUnchanged DEF PageHide, Inv, RowInv, RowTypes, rowVars, playVars
<1> QED
  BY <1>1, RowStepKeepsInv, BoundsAssumption
     DEF PageHide, Inv, TypeOK, ToastInv, CloseToasts, shuffleVars, loadVars

LEMMA UndoCloseStep == Inv /\ UndoClose => Inv'
<1> SUFFICES ASSUME Inv, UndoClose PROVE Inv'
  OBVIOUS
<1> DEFINE closed == Head(toasts)
<1>1. toasts # <<>> /\ closed.kind = "close" /\ toasts' = Tail(toasts)
      /\ UNCHANGED <<loopMode, skips, refill, loadVars, reloads>>
  BY DEF UndoClose
<1>2. closed \in ClosedToast /\ Len(closed.sources) = Len(closed.queue)
      /\ CloseToasts(toasts') /\ toasts' \in Seq(RemovedToast \cup ClosedToast)
  BY <1>1, ToastsLeft DEF RemovedToast
<1>3. restore = "idle" /\ RowInv
  BY <1>1 DEF Inv, ToastInv
<1>4. CASE currentSong = NoSong /\ queue = <<>> /\ playbackSequence = closed.sequence
  <2>1. /\ closed.queue \in Seq(Songs) /\ closed.index \in Nat
        /\ closed.sources \in Seq(PlaybackSource) /\ closed.current \in Songs
        /\ closed.shuffle \in BOOLEAN /\ closed.original \in Seq(Songs)
    BY <1>2 DEF ClosedToast
  <2>2. /\ queue' = closed.queue /\ queueIndex' = closed.index
        /\ queueSources' = closed.sources /\ currentSong' = closed.current
        /\ shuffleEnabled' = closed.shuffle /\ originalQueue' = closed.original
        /\ Save(closed.queue, closed.index, closed.current, closed.sources)
        /\ undoableCloseSequence' = None
        /\ playbackSequence' = playbackSequence
              + (IF undoableCloseSequence # closed.sequence THEN 1 ELSE 0)
    BY <1>4 DEF UndoClose
  <2> HIDE DEF closed
  <2>3. playbackSequence' \in Nat /\ skips' \in Nat
    BY <1>1, <2>2 DEF Inv, TypeOK
  <2>4. RowStep
    BY <1>2, <1>3, <2>1, <2>2, <2>3, SavedStep DEF SaveableRows
  <2> QED
    BY <1>1, <1>2, <2>1, <2>2, <2>4, RowStepKeepsInv, BoundsAssumption
       DEF Inv, TypeOK, loadVars
<1>5. CASE ~(currentSong = NoSong /\ queue = <<>> /\ playbackSequence = closed.sequence)
  <2>1. undoableCloseSequence' = CloseOfferAfter(closed)
        /\ UNCHANGED <<rowVars, playVars, shuffleVars, savedVars>>
    BY <1>5 DEF UndoClose
  <2>2. undoableCloseSequence' \in Nat \cup {None}
    BY <2>1 DEF CloseOfferAfter, Inv, TypeOK
  <2> HIDE DEF closed
  <2>3. RowStep
    BY <1>1, <1>3, <2>1, RowsUnchanged DEF RowInv, RowTypes, rowVars, playVars
  <2> QED
    BY <1>1, <1>2, <2>1, <2>2, <2>3, RowStepKeepsInv, BoundsAssumption
       DEF Inv, TypeOK, shuffleVars, loadVars
<1> QED
  BY <1>4, <1>5

LEMMA UndoRemoveStep == Inv /\ UndoRemove => Inv'
<1> SUFFICES ASSUME Inv, UndoRemove PROVE Inv'
  OBVIOUS
<1> DEFINE removed == Head(toasts)
           at == Smaller(removed.index, Len(queue) + 1)
           shifted == IF at <= queueIndex THEN queueIndex + 1 ELSE queueIndex
           rows == InsertAt(queue, at, removed.song)
           index == IF currentSong = NoSong THEN at ELSE shifted
           sources == InsertAt(queueSources, at, removed.source)
           current == IF currentSong = NoSong THEN removed.song ELSE currentSong
           v == [queue |-> rows, index |-> index, sources |-> sources, current |-> current]
           picked == [v.sources EXCEPT ![at] = "manual"]
<1>1. toasts # <<>> /\ removed.kind # "close" /\ toasts' = Tail(toasts)
      /\ UNCHANGED <<shuffleVars, loopMode, refill, undoableCloseSequence, loadVars, reloads>>
  BY DEF UndoRemove
<1>2. removed \in RemovedToast
      /\ CloseToasts(toasts') /\ toasts' \in Seq(RemovedToast \cup ClosedToast)
  BY <1>1, ToastsLeft DEF ClosedToast
<1>3. /\ restore = "idle" /\ RowInv /\ Len(queueSources) = Len(queue)
      /\ queue \in Seq(Songs) /\ queueSources \in Seq(PlaybackSource) /\ Len(queue) \in Nat
      /\ queueIndex \in Nat /\ currentSong \in Songs \cup {NoSong}
  BY <1>1, LenProperties DEF Inv, TypeOK, ToastInv, OneSourceEach
<1>4. /\ removed.song \in Songs /\ removed.source \in PlaybackSource
      /\ removed.index \in Nat \ {0} /\ removed.jump \in BOOLEAN
  BY <1>2 DEF RemovedToast
<1>5. \/ /\ queue' = v.queue /\ queueIndex' = v.index /\ queueSources' = v.sources
         /\ currentSong' = v.current
         /\ Save(v.queue, v.index, v.current, v.sources)
         /\ UNCHANGED <<playbackSequence, skips>>
      \/ PlaySong([queue |-> v.queue, index |-> at, sources |-> picked, current |-> v.current],
                  removed.song, TRUE, TRUE, skips)
  BY DEF UndoRemove
<1>6. v.queue = rows /\ v.index = index /\ v.sources = sources /\ v.current = current
  OBVIOUS
<1> HIDE DEF removed
<1>7. at \in 1..Len(queue) + 1
  BY <1>3, <1>4 DEF Smaller
<1>8. at \in 1..Len(queueSources) + 1
  BY <1>3, <1>7
<1> HIDE DEF at
<1>9. rows \in Seq(Songs) /\ Len(rows) = Len(queue) + 1
  BY <1>3, <1>4, <1>7, InsertAtProperties
<1>10. sources \in Seq(PlaybackSource) /\ Len(sources) = Len(queue) + 1
  BY <1>3, <1>4, <1>8, InsertAtProperties
<1>11. index \in Nat /\ at \in Nat /\ current \in Songs \cup {NoSong}
  BY <1>3, <1>4, <1>7
<1> HIDE DEF rows, sources, index, current
<1>12. picked \in Seq(PlaybackSource) /\ Len(picked) = Len(queue) + 1
  <2>1. at \in 1..Len(sources) /\ "manual" \in PlaybackSource
    BY <1>7, <1>10 DEF PlaybackSource
  <2>2. picked = [sources EXCEPT ![at] = "manual"]
    OBVIOUS
  <2> QED
    BY <1>10, <2>1, <2>2, ExceptSeq
<1> HIDE DEF picked
<1>13. SaveableRows(rows, sources) /\ SaveableRows(rows, picked)
  BY <1>3, <1>9, <1>10, <1>12 DEF SaveableRows
<1>14. RowStep
  <2>1. ASSUME queue' = rows, queueIndex' = index, queueSources' = sources,
               currentSong' = current, Save(rows, index, current, sources),
               UNCHANGED <<playbackSequence, skips>>
        PROVE  RowStep
    BY <1>3, <1>9, <1>10, <1>11, <1>13, <2>1, SavedStep DEF RowInv, RowTypes
  <2>2. ASSUME PlaySong([queue |-> rows, index |-> at, sources |-> picked,
                         current |-> current], removed.song, TRUE, TRUE, skips)
        PROVE  RowStep
    <3>1. skips \in Nat
      BY <1>3 DEF RowInv, RowTypes
    <3> QED
      BY <1>3, <1>4, <1>9, <1>11, <1>12, <1>13, <2>2, <3>1, PlayStep
  <2> QED
    BY <1>5, <1>6, <2>1, <2>2
<1> QED
  BY <1>1, <1>2, <1>14, RowStepKeepsInv, BoundsAssumption
     DEF Inv, TypeOK, shuffleVars, loadVars

-----------------------------------------------------------------------------
(***************************************************************************)
(* The page load and the restoration.                                      *)
(***************************************************************************)
LEMMA ReloadStep == Inv /\ Reload => Inv'
<1> SUFFICES ASSUME Inv, Reload PROVE Inv'
  OBVIOUS
<1>1. /\ <<>> \in Seq(Songs) /\ <<>> \in Seq(PlaybackSource)
      /\ <<>> \in Seq(RemovedToast \cup ClosedToast)
      /\ reloads + 1 \in Nat /\ 0 \in Nat
  BY DEF Inv, TypeOK
<1>2. CASE HasStoredQueue
  <2>1. /\ stored \in Stored /\ stored.songIds \in Seq(Songs) /\ stored.songIds # <<>>
        /\ Len(stored.songIds) \in Nat /\ stored.current \in Songs \cup {NoSong}
    BY <1>2, LenProperties DEF HasStoredQueue, Inv, TypeOK, Stored
  <2>2. /\ Parsed(stored).index \in Nat
        /\ Parsed(stored).sources \in Seq(PlaybackSource)
        /\ Len(Parsed(stored).sources) = Len(stored.songIds)
    BY <2>1, NormalizeSourcesType DEF Parsed, Stored
  <2>3. /\ queue' = <<>> /\ queueIndex' = Parsed(stored).index
        /\ queueSources' = Parsed(stored).sources /\ currentSong' = stored.current
        /\ restore' = "cache" /\ snapshot' = stored /\ UNCHANGED <<stored, loopMode>>
        /\ awaited' = NoSong /\ loaded' = {} /\ reloads' = reloads + 1
        /\ playbackSequence' = 0 /\ skips' = 0 /\ refill' = NoRefill
        /\ shuffleEnabled' = FALSE /\ originalQueue' = <<>>
        /\ toasts' = <<>> /\ undoableCloseSequence' = None
    BY <1>2 DEF Reload
  <2>4. TypeOK'
    BY <1>1, <2>1, <2>2, <2>3 DEF TypeOK, Inv
  <2>5. RowInv'
    BY <2>1, <2>2, <2>3, <2>4 DEF RowInv, RowTypes, RestoringRows, LoadedRows, SavedRows, TypeOK
  <2> QED
    BY <2>3, <2>4, <2>5 DEF Inv, ToastInv
<1>3. CASE ~HasStoredQueue
  <2>1. /\ queue' = <<>> /\ queueIndex' = 0
        /\ queueSources' = <<>> /\ currentSong' = NoSong
        /\ restore' = "idle" /\ snapshot' = NoStored /\ UNCHANGED <<stored, loopMode>>
        /\ awaited' = NoSong /\ loaded' = {} /\ reloads' = reloads + 1
        /\ playbackSequence' = 0 /\ skips' = 0 /\ refill' = NoRefill
        /\ shuffleEnabled' = FALSE /\ originalQueue' = <<>>
        /\ toasts' = <<>> /\ undoableCloseSequence' = None
    BY <1>3 DEF Reload
  <2>2. TypeOK'
    BY <1>1, <2>1 DEF TypeOK, Inv
  <2>3. RowInv'
    BY <1>3, <2>1, <2>2
       DEF RowInv, RowTypes, RestoringRows, LoadedRows, SavedRows, TypeOK, HasStoredQueue
  <2> QED
    BY <2>1, <2>2, <2>3 DEF Inv, ToastInv
<1> QED
  BY <1>2, <1>3

\* A step of the restoration that leaves the rows and localStorage as they are.
LEMMA LoadingStep ==
    ASSUME Inv, restore # "idle", restore' \in {"current", "pages", "stopped", "abandoned"},
           UNCHANGED <<rowVars, playbackSequence, shuffleVars, loopMode, skips, refill,
                       toastVars, stored, snapshot, reloads>>,
           currentSong' \in Songs \cup {NoSong}, awaited' \in Songs \cup {NoSong},
           loaded' \in SUBSET Songs, restore' = "current" => awaited' \in Songs
    PROVE  Inv'
<1>1. TypeOK'
  BY DEF Inv, TypeOK, rowVars, shuffleVars, toastVars
<1>2. RowInv'
  BY <1>1 DEF Inv, TypeOK, RowInv, RowTypes, RestoringRows, LoadedRows, SavedRows, rowVars
<1>3. ToastInv'
  BY DEF Inv, ToastInv, toastVars
<1> QED
  BY <1>1, <1>2, <1>3 DEF Inv

LEMMA CacheReadStep == Inv /\ CacheRead => Inv'
<1> SUFFICES ASSUME Inv, CacheRead PROVE Inv'
  OBVIOUS
<1> DEFINE saved == Parsed(snapshot)
           target == IF saved.current # NoSong THEN saved.current
                     ELSE saved.songIds[IF saved.index = 0 THEN 1 ELSE saved.index]
<1>1. /\ restore = "cache" /\ snapshot \in Stored /\ snapshot.songIds # <<>>
      /\ snapshot.songIds \in Seq(Songs)
  BY DEF CacheRead, Inv, RowInv, RestoringRows, Stored
<1>2. /\ saved.songIds = snapshot.songIds /\ saved.current \in Songs \cup {NoSong}
      /\ saved.index \in DOMAIN snapshot.songIds \cup {0}
  BY <1>1 DEF Parsed, Stored
<1>3. target \in Songs
  <2>1. Len(snapshot.songIds) \in Nat \ {0}
        /\ DOMAIN snapshot.songIds = 1..Len(snapshot.songIds)
    BY <1>1, LenProperties, EmptySeq
  <2>2. (IF saved.index = 0 THEN 1 ELSE saved.index) \in 1..Len(snapshot.songIds)
    BY <1>2, <2>1
  <2> QED
    BY <1>1, <1>2, <2>2, ElementOfSeq
<1>4. PICK cached \in {{}, ToSet(saved.songIds)} :
          /\ loaded' = cached \cup ({saved.current} \ {NoSong})
          /\ \/ /\ target \in loaded'
                /\ currentSong' = target
                /\ awaited' = NoSong
                /\ restore' = "pages"
             \/ /\ target \notin loaded'
                /\ awaited' = target
                /\ restore' = "current"
                /\ UNCHANGED currentSong
  BY DEF CacheRead
<1>5. loaded' \in SUBSET Songs
  BY <1>1, <1>2, <1>4, ToSetType
<1>6. UNCHANGED <<rowVars, playbackSequence, shuffleVars, loopMode, skips, refill, toastVars,
                  stored, snapshot, reloads>>
  BY DEF CacheRead
<1> HIDE DEF saved, target
<1>7. currentSong' \in Songs \cup {NoSong} /\ awaited' \in Songs \cup {NoSong}
      /\ restore' \in {"current", "pages"} /\ (restore' = "current" => awaited' \in Songs)
  BY <1>3, <1>4 DEF Inv, TypeOK
<1> QED
  BY <1>1, <1>5, <1>6, <1>7, LoadingStep

LEMMA CurrentArrivesStep ==
    ASSUME Inv, NEW found \in BOOLEAN, CurrentArrives(found)
    PROVE  Inv'
<1>1. restore = "current" /\ awaited \in Songs /\ restore' = "pages"
  BY DEF CurrentArrives, Inv
<1>2. loaded' \in SUBSET Songs /\ currentSong' \in Songs \cup {NoSong} /\ awaited' = NoSong
  BY <1>1 DEF CurrentArrives, Inv, TypeOK
<1> QED
  BY <1>1, <1>2, LoadingStep DEF CurrentArrives

LEMMA PageArrivesStep ==
    ASSUME Inv, NEW page \in SUBSET Missing, NEW found \in SUBSET page, PageArrives(page, found)
    PROVE  Inv'
<1>1. restore = "pages" /\ restore' \in {"pages", "stopped"} /\ loaded' = loaded \cup found
  BY DEF PageArrives
<1>2. Missing \in SUBSET Songs
  BY <1>1, ToSetType DEF Missing, Inv, RowInv, RestoringRows, Stored
<1>3. loaded' \in SUBSET Songs
  BY <1>1, <1>2 DEF Inv, TypeOK
<1>4. UNCHANGED <<rowVars, playVars, shuffleVars, loopMode, skips, refill, toastVars,
                  stored, snapshot, awaited, reloads>>
  BY DEF PageArrives
<1> QED
  BY <1>1, <1>3, <1>4, LoadingStep DEF Inv, TypeOK, playVars

LEMMA RestoreCommitsStep == Inv /\ RestoreCommits => Inv'
<1> SUFFICES ASSUME Inv, RestoreCommits PROVE Inv'
  OBVIOUS
<1> DEFINE saved == Parsed(snapshot)
           index == IF queueIndex = 0 THEN 1 ELSE Smaller(queueIndex, Len(saved.songIds))
           rows == saved.songIds
           sources == saved.sources
<1>1. /\ snapshot \in Stored /\ snapshot.songIds # <<>> /\ RowInv
      /\ snapshot.songIds \in Seq(Songs) /\ Len(snapshot.songIds) \in Nat \ {0}
      /\ queueIndex \in Nat
  BY EmptySeq DEF RestoreCommits, Inv, RowInv, RowTypes, RestoringRows, Stored
<1>2. /\ rows = snapshot.songIds
      /\ sources \in Seq(PlaybackSource) /\ Len(sources) = Len(snapshot.songIds)
  BY <1>1, NormalizeSourcesType DEF Parsed, Stored
<1>3. /\ queue' = rows /\ queueIndex' = index /\ queueSources' = sources
      /\ currentSong' = rows[index]
      /\ Save(rows, index, currentSong', sources)
  BY DEF RestoreCommits
<1>4. UNCHANGED <<playbackSequence, shuffleVars, loopMode, skips, refill, toastVars,
                  loadVars, reloads>>
  BY DEF RestoreCommits
<1> HIDE DEF saved, rows, sources
<1>5. index \in 1..Len(rows)
  BY <1>1, <1>2 DEF Smaller, rows
<1> HIDE DEF index
<1>6. currentSong' \in Songs /\ index \in Nat
  BY <1>1, <1>2, <1>3, <1>5, ElementOfSeq
<1>7. RowStep
  BY <1>1, <1>2, <1>3, <1>4, <1>6, SavedStep DEF SaveableRows, RowInv, RowTypes
<1> QED
  BY <1>4, <1>7, PlayerStep DEF Inv, TypeOK, shuffleVars

LEMMA RestoreGivesUpStep == Inv /\ RestoreGivesUp => Inv'
  BY LoadingStep DEF RestoreGivesUp, Inv, TypeOK, playVars

LEMMA OtherTabSavesStep ==
    ASSUME Inv, NEW value \in OtherTabQueues, OtherTabSaves(value)
    PROVE  Inv'
<1>1. TypeOK'
  BY SentinelsAssumption
     DEF Inv, TypeOK, OtherTabSaves, rowVars, playVars, shuffleVars, toastVars, loadVars
<1>2. RowInv'
  BY <1>1 DEF Inv, TypeOK, RowInv, RowTypes, RestoringRows, LoadedRows, SavedRows,
              OneSourceEach, OtherTabSaves, rowVars
<1>3. ToastInv'
  BY DEF Inv, ToastInv, OneSourceEach, OtherTabSaves, toastVars, rowVars
<1> QED
  BY <1>1, <1>2, <1>3 DEF Inv, OtherTabSaves, loadVars

-----------------------------------------------------------------------------
(***************************************************************************)
(* The invariant holds of every behaviour.                                 *)
(***************************************************************************)
LEMMA InitInv == Init => Inv
<1> SUFFICES ASSUME Init PROVE Inv
  OBVIOUS
<1>1. /\ <<>> \in Seq(Songs) /\ <<>> \in Seq(PlaybackSource)
      /\ <<>> \in Seq(RemovedToast \cup ClosedToast)
  OBVIOUS
<1>2. TypeOK
  BY <1>1, InputsAssumption DEF Init, TypeOK
<1>3. RowInv /\ ToastInv
  BY <1>2 DEF Init, TypeOK, RowInv, RowTypes, RestoringRows, LoadedRows, SavedRows,
              HasStoredQueue, ToastInv
<1> QED
  BY <1>2, <1>3 DEF Inv, Init

LEMMA NextInv == Inv /\ [Next]_vars => Inv'
<1> SUFFICES ASSUME Inv, [Next]_vars PROVE Inv'
  OBVIOUS
<1>1. Queued \in SUBSET Songs /\ 1..MaxQueue \in SUBSET Nat
  BY InputsAssumption, BoundsAssumption
<1>2. CASE Navigate
  <2>1. CASE NextSong
    BY <2>1, NextSongStep
  <2>2. CASE PreviousSong
    BY <2>2, PreviousSongStep
  <2>3. CASE ToggleLoopMode \/ SelectPV
    BY <2>3, PlaybackStep
  <2>4. CASE \E song \in Queued : PlayDirect(song)
    BY <1>1, <2>4, PlayDirectStep
  <2>5. CASE \E i \in 1..MaxQueue : JumpToIndex(i)
    BY <1>1, <2>5, JumpToIndexStep
  <2> QED
    BY <1>2, <2>1, <2>2, <2>3, <2>4, <2>5 DEF Navigate
<1>3. CASE Replace
  <2>1. ASSUME NEW songs \in Playlists, NEW start \in DOMAIN songs, NEW source \in StartSources,
               SetQueue(songs, start, source)
        PROVE  Inv'
    BY <2>1, SetQueueStep
  <2>2. ASSUME NEW songs \in Playlists, SetQueueShuffled(songs) PROVE Inv'
    BY <2>2, SetQueueShuffledStep
  <2>3. CASE ShuffleOn
    BY <2>3, ShuffleOnStep
  <2>4. CASE ShuffleOff
    BY <2>4, ShuffleOffStep
  <2>5. CASE ClosePlayer
    BY <2>5, ClosePlayerStep
  <2>6. CASE ClosePlayerWithUndo
    BY <2>6, ClosePlayerWithUndoStep
  <2> QED
    BY <1>3, <2>1, <2>2, <2>3, <2>4, <2>5, <2>6 DEF Replace
<1>4. CASE Edit
  <2>1. CASE \E song \in Queued : AddToQueue(<<song>>)
    BY <1>1, <2>1, AddToQueueStep
  <2>2. CASE \E i \in 1..MaxQueue, hide \in BOOLEAN : RemoveFromQueue(i, hide)
    BY <1>1, <2>2, RemoveStep
  <2>3. CASE RemoveDuplicates
    BY <2>3, RemoveDuplicatesStep
  <2> QED
    BY <1>4, <2>1, <2>2, <2>3 DEF Edit
<1>5. CASE Undo
  BY <1>5, UndoRemoveStep, UndoCloseStep, DismissToastStep, PageHideStep DEF Undo
<1>6. CASE Background
  <2>1. CASE SkipTimerFires
    BY <2>1, SkipTimerStep
  <2>2. CASE RequestRefill \/ \E song \in Queued : RefillArrives(<<song>>)
    BY <1>1, <2>2, RefillStep
  <2>3. CASE RestoreStep
    BY <2>3, CacheReadStep, CurrentArrivesStep, PageArrivesStep, RestoreCommitsStep,
       RestoreGivesUpStep DEF RestoreStep
  <2> QED
    BY <1>6, <2>1, <2>2, <2>3 DEF Background
<1>7. CASE Reload
  BY <1>7, ReloadStep
<1>8. CASE \E value \in OtherTabQueues : OtherTabSaves(value)
  BY <1>8, OtherTabSavesStep
<1>9. CASE UNCHANGED vars
  BY <1>9 DEF vars, rowVars, playVars, shuffleVars, toastVars, savedVars, loadVars,
              Inv, TypeOK, RowInv, RowTypes, RestoringRows, LoadedRows, SavedRows, ToastInv,
              OneSourceEach, HasStoredQueue
<1> QED
  BY <1>2, <1>3, <1>4, <1>5, <1>6, <1>7, <1>8, <1>9 DEF Next

THEOREM Invariance == Spec => []Inv
<1>1. Init => Inv
  BY InitInv
<1>2. Inv /\ [Next]_vars => Inv'
  BY NextInv
<1> QED
  BY <1>1, <1>2, PTL DEF Spec

(***************************************************************************)
(* Every variable keeps its type: no position below the queue, no source   *)
(* that is not one, no saved queue that could not be parsed.               *)
(***************************************************************************)
THEOREM TypeCorrect == Spec => []TypeOK
<1>1. Inv => TypeOK
  BY DEF Inv
<1> QED
  BY <1>1, Invariance, PTL

(***************************************************************************)
(* savePlayerQueue misses no handler: what a reload would bring back is    *)
(* what is in memory, unless another tab wrote localStorage last.          *)
(***************************************************************************)
THEOREM SavedQueueIsCurrent == Spec => []SavedQueueCurrent
<1>1. Inv => SavedQueueCurrent
  BY SentinelsAssumption
     DEF Inv, RowInv, RestoringRows, SavedRows, SavedQueueCurrent, HasStoredQueue
<1> QED
  BY <1>1, Invariance, PTL

-----------------------------------------------------------------------------
(***************************************************************************)
(* What a step may never do.                                               *)
(***************************************************************************)
LEMMA ClosedStep ==
    ASSUME Inv, Background, queue = <<>>, currentSong = NoSong, restore = "idle"
    PROVE  UNCHANGED <<queue, currentSong, stored>>
<1>1. CASE SkipTimerFires
  <2>1. ~CanPlayRow(NextIndex(Len(Rows)))
    <3>1. Rows = <<>> /\ DOMAIN <<>> = {}
      BY DEF Rows, Restoring
    <3> QED
      BY <3>1 DEF CanPlayRow
  <2> QED
    BY <1>1, <2>1 DEF SkipTimerFires, Advance, rowVars, playVars, savedVars
<1>2. CASE RequestRefill
  BY <1>2 DEF RequestRefill, rowVars, playVars, savedVars
<1>3. ASSUME NEW song \in Queued, RefillArrives(<<song>>)
      PROVE  UNCHANGED <<queue, currentSong, stored>>
  <2>1. ~RefillExpected
    BY <1>3, SongsAssumption DEF RefillArrives, RefillExpected, Expectation, Inv, TypeOK
  <2> QED
    BY <1>3, <2>1 DEF RefillArrives, rowVars, playVars, savedVars
<1>4. CASE RestoreStep
  BY <1>4 DEF RestoreStep, CacheRead, CurrentArrives, PageArrives, RestoreCommits,
              RestoreGivesUp
<1> QED
  BY <1>1, <1>2, <1>3, <1>4 DEF Background

(***************************************************************************)
(* Once the player is closed, no skip timer, late refill or restoration    *)
(* step brings a queue or a song back.                                     *)
(***************************************************************************)
THEOREM ClosedPlayerStaysClosed == Spec => ClosedStaysClosed
<1>1. Inv => [Background /\ queue = <<>> /\ currentSong = NoSong /\ restore = "idle"
              => UNCHANGED <<queue, currentSong, stored>>]_vars
  BY ClosedStep DEF vars
<1> QED
  BY <1>1, Invariance, PTL DEF ClosedStaysClosed

LEMMA CommitKeepsSaved ==
    ASSUME Inv, RestoreCommits
    PROVE  SavedList' = SavedList
<1> DEFINE rows == snapshot.songIds
           sources == Parsed(snapshot).sources
           index == IF queueIndex = 0 THEN 1 ELSE Smaller(queueIndex, Len(rows))
<1>1. /\ stored = snapshot /\ snapshot \in Stored /\ rows # <<>> /\ rows \in Seq(Songs)
      /\ queueIndex \in Nat /\ Len(rows) \in Nat \ {0}
  BY EmptySeq DEF RestoreCommits, CanCommit, Inv, RowInv, RowTypes, RestoringRows, Stored
<1>2. /\ sources = NormalizeSources(Len(rows), snapshot.sources)
      /\ sources \in Seq(PlaybackSource) /\ Len(sources) = Len(rows)
  BY <1>1, NormalizeSourcesType DEF Parsed, Stored
<1>3. Parsed(snapshot).songIds = rows
  BY <1>1 DEF Parsed, Stored
<1>4. Save(rows, index, currentSong', sources) /\ currentSong' = rows[index]
  BY <1>3 DEF RestoreCommits
<1>5. index \in 1..Len(rows)
  BY <1>1 DEF Smaller
<1>6. currentSong' \in Songs /\ index \in Nat
  BY <1>1, <1>4, <1>5, ElementOfSeq
<1> HIDE DEF rows, sources, index
<1>7. Replaced(rows, sources)
  BY <1>1, <1>2, <1>4, <1>6, SaveOutcome DEF Inv
<1>8. /\ stored' \in Stored /\ stored'.songIds = rows
      /\ stored'.sources = NormalizeSources(Len(rows), sources)
  BY <1>7 DEF Replaced
<1>9. stored'.sources = sources
  BY <1>2, <1>8, NormalizeSourcesExact
<1>10. NormalizeSources(Len(rows), stored'.sources) = sources
  BY <1>2, <1>9, NormalizeSourcesExact
<1>11. SavedList' = <<rows, sources>>
  <2>1. HasStoredQueue'
    BY <1>1, <1>8, SentinelsAssumption DEF HasStoredQueue
  <2>2. Parsed(stored').sources = NormalizeSources(Len(rows), stored'.sources)
    BY <1>8 DEF Parsed, Stored
  <2> QED
    BY <1>8, <1>10, <2>1, <2>2 DEF SavedList
<1>12. SavedList = <<rows, sources>>
  BY <1>1, SentinelsAssumption DEF SavedList, HasStoredQueue, rows, sources
<1> QED
  BY <1>11, <1>12

LEMMA RestoreKeepsSaved ==
    ASSUME Inv, RestoreStep
    PROVE  SavedList' = SavedList
<1>1. CASE RestoreCommits
  BY <1>1, CommitKeepsSaved
<1>2. CASE ~RestoreCommits
  <2>1. stored' = stored
    BY <1>2 DEF RestoreStep, CacheRead, CurrentArrives, PageArrives, RestoreGivesUp
  <2> QED
    BY <2>1 DEF SavedList, HasStoredQueue
<1> QED
  BY <1>1, <1>2

(***************************************************************************)
(* restoreStoredPlayerQueue publishes the saved list and never changes it, *)
(* whatever the user or another tab did since it was read.                 *)
(***************************************************************************)
THEOREM RestorationPreservesSaved == Spec => RestorePreservesSaved
<1>1. Inv => [RestoreStep => SavedList' = SavedList]_vars
  <2>1. vars' = vars => SavedList' = SavedList
    BY DEF vars, savedVars, SavedList, HasStoredQueue
  <2> QED
    BY <2>1, RestoreKeepsSaved
<1> QED
  BY <1>1, Invariance, PTL DEF RestorePreservesSaved

\* showToast: the toast just shown is the last one.
LEMMA WithToastLast ==
    ASSUME NEW T, toasts \in Seq(T), NEW toast \in T, NEW next \in WithToast(toast)
    PROVE  next[Len(next)] = toast
<1>1. CASE next = Append(toasts, toast)
  BY <1>1, AppendProperties, LenProperties
<1>2. CASE toasts # <<>> /\ next = [toasts EXCEPT ![Len(toasts)] = toast]
  <2>1. Len(toasts) \in 1..Len(toasts)
    BY <1>2, EmptySeq
  <2> QED
    BY <1>2, <2>1, ExceptSeq
<1> QED
  BY <1>1, <1>2 DEF WithToast

\* Whether the playing row or another one goes, exactly that row goes.
LEMMA RemovedRows ==
    ASSUME Inv, NEW i \in DOMAIN queue, NEW hide \in BOOLEAN, RemoveFromQueue(i, hide)
    PROVE  queue' = RemoveAt(queue, i) /\ queueSources' = RemoveAt(queueSources, i)
<1> DEFINE rows == RemoveAt(queue, i)
           sources == RemoveAt(queueSources, i)
           row == Smaller(i, Len(rows))
<1>1. /\ queue \in Seq(Songs) /\ queueSources \in Seq(PlaybackSource)
      /\ i \in 1..Len(queue) /\ Len(queueSources) = Len(queue)
  BY LenProperties, EmptySeq DEF Inv, TypeOK, RowInv, RestoringRows, LoadedRows, OneSourceEach
<1>2. i \in 1..Len(queueSources)
  BY <1>1
<1>3. rows \in Seq(Songs) /\ Len(rows) = Len(queue) - 1
  BY <1>1, RemoveAtProperties
<1>4. sources \in Seq(PlaybackSource) /\ Len(sources) = Len(queue) - 1
  BY <1>1, <1>2, RemoveAtProperties
<1>5. \/ queue' = rows /\ queueSources' = sources
      \/ PlaySong(View(rows, row, sources), rows[row], FALSE, TRUE, skips)
      \/ rows = <<>> /\ queue' = <<>> /\ queueSources' = <<>>
  BY DEF RemoveFromQueue
<1> HIDE DEF rows, sources, row
<1>6. ASSUME PlaySong(View(rows, row, sources), rows[row], FALSE, TRUE, skips)
      PROVE  queue' = rows /\ queueSources' = sources
  BY <1>6 DEF PlaySong, View
<1>7. ASSUME rows = <<>>, queue' = <<>>, queueSources' = <<>>
      PROVE  queue' = rows /\ queueSources' = sources
  BY <1>3, <1>4, <1>7, EmptySeq
<1> QED
  BY <1>5, <1>6, <1>7 DEF rows, sources

LEMMA RemovalStep ==
    ASSUME Inv, NEW i \in DOMAIN queue, NEW hide \in BOOLEAN, RemoveFromQueue(i, hide)
    PROVE  LET removed == toasts'[Len(toasts')]
               at == Smaller(removed.index, Len(queue') + 1)
           IN  /\ InsertAt(queue', at, removed.song) = queue
               /\ InsertAt(queueSources', at, removed.source) = queueSources
<1> DEFINE toast == RemovedRow(i, hide)
<1>1. /\ queue \in Seq(Songs) /\ queueSources \in Seq(PlaybackSource)
      /\ i \in 1..Len(queue) /\ Len(queue) \in Nat /\ Len(queueSources) = Len(queue)
  BY LenProperties, EmptySeq DEF Inv, TypeOK, RowInv, RestoringRows, LoadedRows, OneSourceEach
<1>2. i \in 1..Len(queueSources) /\ DOMAIN queueSources = 1..Len(queueSources)
  BY <1>1, LenProperties
<1>3. /\ toast.song = queue[i] /\ toast.index = i /\ toast.source = queueSources[i]
      /\ toast.kind \in {"remove", "hide"}
  BY <1>2 DEF RemovedRow
<1> HIDE DEF toast
<1>4. toasts'[Len(toasts')] = toast
  <2>1. toasts' \in WithToast(toast)
    BY DEF RemoveFromQueue, toast
  <2> DEFINE T == RemovedToast \cup ClosedToast \cup {toast}
  <2>2. toasts \in Seq(T) /\ toast \in T
    BY LenProperties DEF Inv, TypeOK
  <2> HIDE DEF T
  <2> QED
    BY <2>1, <2>2, WithToastLast
<1>5. queue' = RemoveAt(queue, i) /\ queueSources' = RemoveAt(queueSources, i)
  BY RemovedRows
<1>6. Len(queue') + 1 = Len(queue)
  <2>1. Len(RemoveAt(queue, i)) = Len(queue) - 1
    BY <1>1, RemoveAtProperties
  <2> QED
    BY <1>1, <1>5, <2>1
<1>7. Smaller(toast.index, Len(queue') + 1) = i
  BY <1>1, <1>3, <1>6 DEF Smaller
<1>8. InsertAt(RemoveAt(queue, i), i, queue[i]) = queue
  BY <1>1, InsertUndoesRemove
<1>9. InsertAt(RemoveAt(queueSources, i), i, queueSources[i]) = queueSources
  BY <1>1, <1>2, InsertUndoesRemove
<1> QED
  BY <1>3, <1>4, <1>5, <1>7, <1>8, <1>9

(***************************************************************************)
(* The toast of a removal holds the row and the place its undo needs       *)
(* (removeQueueItemWithUndo, hideSongWithUndo, restoreQueueItem).          *)
(***************************************************************************)
THEOREM RemovalsAreUndoable == Spec => RemovalUndoable
<1>1. Inv => [(\E i \in DOMAIN queue, hide \in BOOLEAN : RemoveFromQueue(i, hide)) =>
                LET removed == toasts'[Len(toasts')]
                    at == Smaller(removed.index, Len(queue') + 1)
                IN  /\ InsertAt(queue', at, removed.song) = queue
                    /\ InsertAt(queueSources', at, removed.source) = queueSources]_vars
  BY RemovalStep
<1> QED
  BY <1>1, Invariance, PTL DEF RemovalUndoable

-----------------------------------------------------------------------------
(***************************************************************************)
(* The undo offer of a close and its toast.                                *)
(***************************************************************************)
LEMMA OfferOutlivesFirstToast ==
    ASSUME Inv, OfferHasToast, toasts # <<>>, toasts' = Tail(toasts),
           undoableCloseSequence' \in {undoableCloseSequence, None},
           undoableCloseSequence # None /\ Head(toasts).kind = "close"
              /\ Head(toasts).sequence = undoableCloseSequence
              => undoableCloseSequence' = None
    PROVE  OfferHasToast'
<1> SUFFICES ASSUME undoableCloseSequence' # None
             PROVE  \E i \in DOMAIN toasts' :
                        toasts'[i].kind = "close"
                        /\ toasts'[i].sequence = undoableCloseSequence'
  BY DEF OfferHasToast
<1>1. undoableCloseSequence' = undoableCloseSequence /\ undoableCloseSequence # None
  OBVIOUS
<1>2. PICK i \in DOMAIN toasts :
          toasts[i].kind = "close" /\ toasts[i].sequence = undoableCloseSequence
  BY <1>1 DEF OfferHasToast
<1>3. /\ toasts \in Seq(RemovedToast \cup ClosedToast) /\ DOMAIN toasts = 1..Len(toasts)
      /\ Len(toasts) \in Nat \ {0}
  BY LenProperties, EmptySeq DEF Inv, TypeOK
<1>4. /\ DOMAIN Tail(toasts) = 1..Len(Tail(toasts)) /\ Len(Tail(toasts)) = Len(toasts) - 1
      /\ \A k \in 1..Len(Tail(toasts)) : Tail(toasts)[k] = toasts[k + 1]
  BY <1>3, HeadTailProperties, LenProperties
<1>5. i # 1
  BY <1>1, <1>2
<1>6. i - 1 \in 1..Len(Tail(toasts)) /\ (i - 1) + 1 = i
  BY <1>2, <1>3, <1>4, <1>5
<1>7. Tail(toasts)[i - 1] = toasts[i]
  BY <1>4, <1>6
<1> QED
  BY <1>1, <1>2, <1>4, <1>6, <1>7

LEMMA OfferOutlivesShownToast ==
    ASSUME Inv, OfferHasToast, NEW toast \in RemovedToast, toasts' \in WithToast(toast),
           UNCHANGED undoableCloseSequence
    PROVE  OfferHasToast'
<1> SUFFICES ASSUME undoableCloseSequence # None
             PROVE  \E i \in DOMAIN toasts' :
                        toasts'[i].kind = "close"
                        /\ toasts'[i].sequence = undoableCloseSequence
  BY DEF OfferHasToast
<1>1. PICK i \in DOMAIN toasts :
          toasts[i].kind = "close" /\ toasts[i].sequence = undoableCloseSequence
  BY DEF OfferHasToast
<1>2. /\ toasts \in Seq(RemovedToast \cup ClosedToast) /\ DOMAIN toasts = 1..Len(toasts)
      /\ Len(toasts) \in Nat /\ toast.kind # "close"
  BY LenProperties DEF Inv, TypeOK, RemovedToast
<1>3. CASE toasts' = Append(toasts, toast)
  <2>1. i \in DOMAIN toasts' /\ toasts'[i] = toasts[i]
    BY <1>1, <1>2, <1>3, AppendProperties, LenProperties
  <2> QED
    BY <1>1, <2>1
<1>4. CASE toasts' = [toasts EXCEPT ![Len(toasts)] = toast]
           /\ toasts[Len(toasts)].kind = toast.kind
  <2>1. i # Len(toasts)
    BY <1>1, <1>2, <1>4
  <2>2. i \in DOMAIN toasts' /\ toasts'[i] = toasts[i]
    BY <1>1, <1>4, <2>1
  <2> QED
    BY <1>1, <2>2
<1> QED
  BY <1>3, <1>4 DEF WithToast

LEMMA OfferMade ==
    ASSUME Inv, ClosePlayerWithUndo
    PROVE  OfferHasToast'
<1> DEFINE toast == [kind |-> "close", queue |-> queue, index |-> queueIndex,
                     sources |-> queueSources, shuffle |-> shuffleEnabled,
                     original |-> originalQueue, current |-> currentSong,
                     sequence |-> playbackSequence]
<1>1. toast \in ClosedToast /\ toast.kind = "close" /\ toast.sequence = playbackSequence
  BY DEF ClosedToast, ClosePlayerWithUndo, Inv, TypeOK
<1>2. toasts' \in WithToast(toast) /\ undoableCloseSequence' \in {None, playbackSequence}
  BY DEF ClosePlayerWithUndo
<1>3. toasts \in Seq(RemovedToast \cup ClosedToast) /\ CloseToasts(toasts)
      /\ Len(toast.sources) = Len(toast.queue)
  BY DEF ClosePlayerWithUndo, Inv, TypeOK, ToastInv, CloseToasts, RowInv, RestoringRows,
         LoadedRows, OneSourceEach
<1> HIDE DEF toast
<1>4. toasts' \in Seq(RemovedToast \cup ClosedToast) /\ toasts'[Len(toasts')] = toast
  BY <1>1, <1>2, <1>3, WithToastType, WithToastLast
<1>5. toasts' # <<>>
  <2>1. CASE toasts' = Append(toasts, toast)
    BY <1>1, <1>3, <2>1, AppendProperties
  <2>2. CASE toasts # <<>> /\ toasts' = [toasts EXCEPT ![Len(toasts)] = toast]
    <3>1. Len(toasts) \in 1..Len(toasts)
      BY <1>3, <2>2, EmptySeq
    <3>2. Len(toasts') = Len(toasts)
      BY <1>1, <1>3, <2>2, <3>1, ExceptSeq
    <3> QED
      BY <3>1, <3>2, EmptySeq
  <2> QED
    BY <1>2, <2>1, <2>2 DEF WithToast
<1>6. Len(toasts') \in DOMAIN toasts'
  BY <1>4, <1>5, LenProperties, EmptySeq
<1> QED
  BY <1>1, <1>2, <1>4, <1>6 DEF OfferHasToast

LEMMA OfferKeptByOthers ==
    ASSUME OfferHasToast, UNCHANGED toastVars
    PROVE  OfferHasToast'
  BY DEF OfferHasToast, toastVars

LEMMA OfferStep ==
    ASSUME Inv, OfferHasToast, [Next]_vars
    PROVE  OfferHasToast'
<1>1. CASE Navigate
  <2>1. UNCHANGED toastVars
    BY <1>1 DEF Navigate, NextSong, PreviousSong, ToggleLoopMode, SelectPV, PlayDirect,
                JumpToIndex
  <2> QED
    BY <2>1, OfferKeptByOthers
<1>2. CASE Replace
  <2>1. CASE ClosePlayer
    BY <2>1 DEF ClosePlayer, OfferHasToast
  <2>2. CASE ClosePlayerWithUndo
    BY <2>2, OfferMade
  <2>3. CASE ~ClosePlayer /\ ~ClosePlayerWithUndo
    <3>1. UNCHANGED toastVars
      BY <1>2, <2>3 DEF Replace, SetQueue, SetQueueShuffled, ShuffleOn, ShuffleOff
    <3> QED
      BY <3>1, OfferKeptByOthers
  <2> QED
    BY <2>1, <2>2, <2>3
<1>3. CASE Edit
  <2>1. ASSUME NEW i \in 1..MaxQueue, NEW hide \in BOOLEAN, RemoveFromQueue(i, hide)
        PROVE  OfferHasToast'
    <3>1. /\ i \in 1..Len(queue) /\ queue \in Seq(Songs) /\ queueSources \in Seq(PlaybackSource)
          /\ Len(queueSources) = Len(queue)
      BY <2>1, LenProperties, EmptySeq
         DEF RemoveFromQueue, Inv, TypeOK, RowInv, RestoringRows, LoadedRows, OneSourceEach
    <3>2. (hide /\ i = queueIndex /\ queue[i] = currentSong) \in BOOLEAN
      BY Zenon
    <3>3. RemovedRow(i, hide) \in RemovedToast
      BY <3>1, <3>2, LenProperties, ElementOfSeq DEF RemovedRow, RemovedToast, PlaybackSource
    <3> QED
      BY <2>1, <3>3, OfferOutlivesShownToast DEF RemoveFromQueue
  <2>2. CASE (\E song \in Queued : AddToQueue(<<song>>)) \/ RemoveDuplicates
    <3>1. UNCHANGED toastVars
      BY <2>2 DEF AddToQueue, RemoveDuplicates
    <3> QED
      BY <3>1, OfferKeptByOthers
  <2> QED
    BY <1>3, <2>1, <2>2 DEF Edit
<1>4. CASE Undo
  <2>1. CASE UndoRemove
    BY <2>1, OfferOutlivesFirstToast DEF UndoRemove
  <2>2. CASE UndoClose
    BY <2>2, OfferOutlivesFirstToast DEF UndoClose, CloseOfferAfter
  <2>3. CASE DismissToast
    BY <2>3, OfferOutlivesFirstToast DEF DismissToast, CloseOfferAfter
  <2>4. CASE PageHide
    BY <2>4 DEF PageHide, OfferHasToast
  <2> QED
    BY <1>4, <2>1, <2>2, <2>3, <2>4 DEF Undo
<1>5. CASE Background
  <2>1. UNCHANGED toastVars
    BY <1>5 DEF Background, SkipTimerFires, RequestRefill, RefillArrives, RestoreStep,
                CacheRead, CurrentArrives, PageArrives, RestoreCommits, RestoreGivesUp
  <2> QED
    BY <2>1, OfferKeptByOthers
<1>6. CASE Reload
  BY <1>6 DEF Reload, OfferHasToast
<1>7. CASE \E value \in OtherTabQueues : OtherTabSaves(value)
  BY <1>7, OfferKeptByOthers DEF OtherTabSaves
<1>8. CASE UNCHANGED vars
  BY <1>8, OfferKeptByOthers DEF vars
<1> QED
  BY <1>1, <1>2, <1>3, <1>4, <1>5, <1>6, <1>7, <1>8 DEF Next

(***************************************************************************)
(* closePlayerWithUndo's offer ends with its toast, whichever toast         *)
(* replaces, precedes or follows it.                                       *)
(***************************************************************************)
THEOREM OffersHaveToasts == Spec => []OfferHasToast
<1>1. Init => OfferHasToast
  BY DEF Init, OfferHasToast
<1>2. Inv /\ OfferHasToast /\ [Next]_vars => OfferHasToast'
  BY OfferStep
<1> QED
  BY <1>1, <1>2, Invariance, PTL DEF Spec

-----------------------------------------------------------------------------
(***************************************************************************)
(* The saved position.  SavedPositionCurrent is preserved by every step    *)
(* from Inv: a handler saves the position it moved to together with the    *)
(* song it plays there, or moves to a row that does not play.              *)
(***************************************************************************)
LEMMA SavePositions ==
    ASSUME Inv', NEW rows, NEW index, NEW current, NEW sources,
           Save(rows, index, current, sources), queue' = rows, queueIndex' = index,
           index \in DOMAIN rows /\ rows[index] \in Playable => currentSong' = current
    PROVE  SavedPositionCurrent'
<1> SUFFICES ASSUME stored' \notin OtherTabQueues, index \in DOMAIN rows, currentSong' = current
             PROVE  stored' # NoStored /\ stored'.index = index /\ stored'.current = current
  BY DEF SavedPositionCurrent
<1>1. rows # <<>>
  <2>1. DOMAIN <<>> = {}
    OBVIOUS
  <2> QED
    BY <2>1
<1>2. /\ stored' = [songIds |-> rows, index |-> index, current |-> current,
                    sources |-> NormalizeSources(Len(rows), sources)]
      /\ restore' = "idle"
  BY <1>1 DEF Save, SaveReplacing
<1>3. stored' # NoStored
  BY <1>1, <1>2 DEF Inv, RowInv, SavedRows
<1> QED
  BY <1>2, <1>3

LEMMA PositionKept ==
    ASSUME SavedPositionCurrent, UNCHANGED <<queue, queueIndex, currentSong, stored>>
    PROVE  SavedPositionCurrent'
  BY DEF SavedPositionCurrent

LEMMA NoPosition ==
    ASSUME \/ queue' = <<>>
           \/ queueIndex' \notin DOMAIN queue'
           \/ queue'[queueIndex'] \notin Playable
           \/ stored' \in OtherTabQueues
    PROVE  SavedPositionCurrent'
<1>1. DOMAIN <<>> = {}
  OBVIOUS
<1> QED
  BY <1>1 DEF SavedPositionCurrent

\* playSong from a caller that plays the row it moved to, or moved nothing.
LEMMA PlayPositions ==
    ASSUME Inv', SavedPositionCurrent,
           NEW rows, NEW index, NEW current, NEW sources, NEW song,
           NEW user \in BOOLEAN, NEW saved \in BOOLEAN, NEW timers,
           PlaySong([queue |-> rows, index |-> index, sources |-> sources, current |-> current],
                    song, user, saved, timers),
           \/ index \in DOMAIN rows => rows[index] = song
           \/ ~saved /\ rows = queue /\ index = queueIndex /\ current = currentSong
    PROVE  SavedPositionCurrent'
<1>1. queue' = rows /\ queueIndex' = index
  BY DEF PlaySong
<1>2. CASE song \in Playable
  <2>1. Save(rows, index, song, queueSources') /\ currentSong' = song
    BY <1>2 DEF PlaySong
  <2> QED
    BY <1>1, <2>1, SavePositions
<1>3. CASE song \notin Playable /\ (index \in DOMAIN rows => rows[index] = song)
  BY <1>1, <1>3, NoPosition
<1>4. CASE song \notin Playable /\ ~(index \in DOMAIN rows => rows[index] = song)
  <2>1. UNCHANGED <<queue, queueIndex, currentSong, stored>>
    BY <1>4 DEF PlaySong, savedVars
  <2> QED
    BY <2>1, PositionKept
<1> QED
  BY <1>2, <1>3, <1>4

LEMMA AdvancePositions ==
    ASSUME RowInv, Inv', SavedPositionCurrent, NEW timers, Advance(timers)
    PROVE  SavedPositionCurrent'
<1> DEFINE i == NextIndex(Len(Rows))
<1>1. CASE CanPlayRow(i)
  <2>1. PlaySong([queue |-> queue, index |-> i, sources |-> queueSources,
                  current |-> currentSong], Rows[i], FALSE, FALSE, timers)
    BY <1>1 DEF Advance, View
  <2>2. i \in DOMAIN queue => queue[i] = Rows[i]
    <3>1. Restoring => queue = <<>> /\ DOMAIN <<>> = {}
      BY DEF Restoring, RowInv, RestoringRows
    <3> QED
      BY <3>1 DEF Rows
  <2> HIDE DEF i
  <2> QED
    BY <2>1, <2>2, PlayPositions
<1>2. CASE ~CanPlayRow(i)
  BY <1>2, PositionKept DEF Advance, rowVars, playVars, savedVars
<1> QED
  BY <1>1, <1>2

LEMMA NavigatePositions ==
    ASSUME Inv, Inv', SavedPositionCurrent, Navigate
    PROVE  SavedPositionCurrent'
<1>0. RowInv /\ (Restoring => queue = <<>> /\ DOMAIN <<>> = {})
  BY DEF Inv, RowInv, RestoringRows, Restoring
<1>1. CASE NextSong
  BY <1>0, <1>1, AdvancePositions DEF NextSong
<1>2. CASE PreviousSong
  <2> DEFINE i == queueIndex - 1
  <2>1. CASE CanPlayRow(i)
    <3>1. PlaySong([queue |-> queue, index |-> i, sources |-> queueSources,
                    current |-> currentSong], Rows[i], TRUE, FALSE, skips)
      BY <1>2, <2>1 DEF PreviousSong, View
    <3>2. i \in DOMAIN queue => queue[i] = Rows[i]
      BY <1>0 DEF Rows
    <3> HIDE DEF i
    <3> QED
      BY <3>1, <3>2, PlayPositions
  <2>2. CASE ~CanPlayRow(i) /\ Restoring
    BY <1>0, <1>2, <2>2, NoPosition DEF PreviousSong
  <2>3. CASE ~CanPlayRow(i) /\ ~Restoring
    <3>1. queueIndex' = i /\ queue' = queue /\ i \notin DOMAIN queue
      BY <1>2, <2>3 DEF PreviousSong, CanPlayRow, Rows
    <3> HIDE DEF i
    <3> QED
      BY <3>1, NoPosition
  <2> QED
    BY <2>1, <2>2, <2>3
<1>3. CASE ToggleLoopMode \/ SelectPV
  BY <1>3, PositionKept DEF ToggleLoopMode, SelectPV, rowVars, playVars, savedVars
<1>4. ASSUME NEW song, PlayDirect(song) PROVE SavedPositionCurrent'
  BY <1>4, PlayPositions DEF PlayDirect, View
<1>5. ASSUME NEW i, JumpToIndex(i) PROVE SavedPositionCurrent'
  <2>1. CASE Restoring
    <3>1. PlaySong([queue |-> queue, index |-> i, sources |-> queueSources,
                    current |-> currentSong], Rows[i], TRUE, FALSE, skips)
      BY <1>5, <2>1 DEF JumpToIndex, View
    <3>2. queue' = <<>>
      BY <1>0, <2>1, <3>1 DEF PlaySong
    <3> QED
      BY <3>2, NoPosition
  <2>2. CASE ~Restoring
    BY <1>5, <2>2, PlayPositions DEF JumpToIndex, View
  <2> QED
    BY <2>1, <2>2
<1> QED
  BY <1>1, <1>2, <1>3, <1>4, <1>5 DEF Navigate

LEMMA ReplacePositions ==
    ASSUME Inv, Inv', SavedPositionCurrent, Replace
    PROVE  SavedPositionCurrent'
<1>1. ASSUME NEW songs \in Playlists, NEW start \in DOMAIN songs, NEW source \in StartSources,
             SetQueue(songs, start, source)
      PROVE  SavedPositionCurrent'
  <2>0. songs \in Seq(Songs) /\ UserStarts(source) \in BOOLEAN
    BY InputsAssumption DEF UserStarts
  <2>1. start \in 1..Len(songs)
    BY <2>0, LenProperties
  <2>2. CASE shuffleEnabled
    <3>1. PICK rest \in Shuffles(RemoveAt(songs, start)) :
              PlaySong(View(<<songs[start]>> \o rest, 1, Constantly(source, songs)),
                       songs[start], UserStarts(source), TRUE, skips)
      BY <1>1, <2>2 DEF SetQueue
    <3> DEFINE rows == <<songs[start]>> \o rest
    <3>2. rows[1] = songs[start]
      BY <2>0, <2>1, FrontedType
    <3>3. PlaySong([queue |-> rows, index |-> 1, sources |-> Constantly(source, songs),
                    current |-> currentSong], songs[start], UserStarts(source), TRUE, skips)
      BY <3>1 DEF View
    <3> HIDE DEF rows
    <3> QED
      BY <2>0, <3>2, <3>3, PlayPositions
  <2>3. CASE ~shuffleEnabled
    <3>1. PlaySong([queue |-> songs, index |-> start, sources |-> Constantly(source, songs),
                    current |-> currentSong], songs[start], UserStarts(source), TRUE, skips)
      BY <1>1, <2>3 DEF SetQueue, View
    <3> QED
      BY <2>0, <3>1, PlayPositions
  <2> QED
    BY <2>2, <2>3
<1>2. ASSUME NEW songs, SetQueueShuffled(songs) PROVE SavedPositionCurrent'
  <2>1. PICK rows \in Shuffles(songs) :
            PlaySong(View(rows, 1, Constantly("manual", songs)), rows[1], TRUE, TRUE, skips)
    BY <1>2 DEF SetQueueShuffled
  <2> QED
    BY <2>1, PlayPositions DEF View
<1>3. CASE ShuffleOn
  <2>1. queueIndex' = 1 /\ currentSong' = currentSong
        /\ Save(queue', 1, currentSong, queueSources')
    BY <1>3 DEF ShuffleOn, playVars
  <2> QED
    BY <2>1, SavePositions
<1>4. CASE ShuffleOff
  <2>1. currentSong' = currentSong /\ Save(queue', queueIndex', currentSong, queueSources')
    BY <1>4 DEF ShuffleOff, playVars
  <2> QED
    BY <2>1, SavePositions
<1>5. CASE ClosePlayer \/ ClosePlayerWithUndo
  BY <1>5, NoPosition DEF ClosePlayer, ClosePlayerWithUndo, Empty
<1> QED
  BY <1>1, <1>2, <1>3, <1>4, <1>5 DEF Replace

\* insertIntoQueue saves the position it leaves alone.
LEMMA InsertPositions ==
    ASSUME Inv', NEW songs, NEW source, InsertIntoQueue(songs, source),
           currentSong' = currentSong
    PROVE  SavedPositionCurrent'
<1>1. queueIndex' = queueIndex /\ Save(queue', queueIndex, currentSong, queueSources')
  BY DEF InsertIntoQueue
<1> QED
  BY <1>1, SavePositions

LEMMA EditPositions ==
    ASSUME Inv, Inv', SavedPositionCurrent, Edit
    PROVE  SavedPositionCurrent'
<1>1. ASSUME NEW songs, AddToQueue(songs) PROVE SavedPositionCurrent'
  <2>1. CASE Restoring
    <3>1. queue' = <<>>
      BY <1>1, <2>1 DEF AddToQueue, AppendToRestoring, Inv, RowInv, RestoringRows, Restoring
    <3> QED
      BY <3>1, NoPosition
  <2>2. CASE ~Restoring
    BY <1>1, <2>2, InsertPositions DEF AddToQueue, playVars
  <2> QED
    BY <2>1, <2>2
<1>2. ASSUME NEW i, NEW hide \in BOOLEAN, RemoveFromQueue(i, hide)
      PROVE  SavedPositionCurrent'
  <2> DEFINE rows == RemoveAt(queue, i)
             sources == RemoveAt(queueSources, i)
             row == Smaller(i, Len(rows))
             index == IndexWithout(i)
  <2>1. \/ /\ queue' = rows /\ queueIndex' = index /\ currentSong' = currentSong
           /\ Save(rows, index, currentSong, sources)
        \/ PlaySong([queue |-> rows, index |-> row, sources |-> sources,
                     current |-> currentSong], rows[row], FALSE, TRUE, skips)
        \/ queue' = <<>>
    BY <1>2 DEF RemoveFromQueue, View, playVars
  <2> HIDE DEF rows, sources, row, index
  <2> QED
    BY <2>1, SavePositions, PlayPositions, NoPosition
<1>3. CASE RemoveDuplicates
  <2>1. Save(queue', queueIndex', currentSong', queueSources')
    BY <1>3 DEF RemoveDuplicates
  <2> QED
    BY <2>1, SavePositions
<1> QED
  BY <1>1, <1>2, <1>3 DEF Edit

LEMMA UndoPositions ==
    ASSUME Inv, Inv', SavedPositionCurrent, Undo
    PROVE  SavedPositionCurrent'
<1>1. CASE UndoRemove
  <2> DEFINE removed == Head(toasts)
             at == Smaller(removed.index, Len(queue) + 1)
             shifted == IF at <= queueIndex THEN queueIndex + 1 ELSE queueIndex
             rows == InsertAt(queue, at, removed.song)
             index == IF currentSong = NoSong THEN at ELSE shifted
             sources == InsertAt(queueSources, at, removed.source)
             current == IF currentSong = NoSong THEN removed.song ELSE currentSong
             picked == [sources EXCEPT ![at] = "manual"]
  <2>1. \/ /\ queue' = rows /\ queueIndex' = index /\ currentSong' = current
           /\ Save(rows, index, current, sources)
        \/ PlaySong([queue |-> rows, index |-> at, sources |-> picked, current |-> current],
                    removed.song, TRUE, TRUE, skips)
    BY <1>1 DEF UndoRemove
  <2>2. rows[at] = removed.song
    <3>1. toasts # <<>> /\ removed.kind # "close"
      BY <1>1 DEF UndoRemove
    <3>2. removed \in RemovedToast
      BY <3>1, ToastsLeft DEF ClosedToast
    <3>3. removed.index \in Nat \ {0} /\ removed.song \in Songs
      BY <3>2 DEF RemovedToast
    <3>4. queue \in Seq(Songs) /\ Len(queue) \in Nat
      BY LenProperties DEF Inv, TypeOK
    <3> HIDE DEF removed
    <3>5. at \in 1..Len(queue) + 1
      BY <3>3, <3>4 DEF Smaller
    <3> HIDE DEF at
    <3>6. InsertAt(queue, at, removed.song)[at] = removed.song
      BY <3>3, <3>4, <3>5, RowInserted
    <3> QED
      BY <3>6
  <2> HIDE DEF removed, at, rows, index, sources, current, picked
  <2> QED
    BY <2>1, <2>2, SavePositions, PlayPositions
<1>2. CASE UndoClose
  <2>1. \/ Save(queue', queueIndex', currentSong', queueSources')
        \/ UNCHANGED <<queue, queueIndex, currentSong, stored>>
    BY <1>2 DEF UndoClose, rowVars, playVars, savedVars
  <2> QED
    BY <2>1, SavePositions, PositionKept
<1>3. CASE DismissToast \/ PageHide
  BY <1>3, PositionKept DEF DismissToast, PageHide, rowVars, playVars, savedVars
<1> QED
  BY <1>1, <1>2, <1>3 DEF Undo

LEMMA BackgroundPositions ==
    ASSUME Inv, Inv', SavedPositionCurrent, Background
    PROVE  SavedPositionCurrent'
<1>1. CASE SkipTimerFires
  BY <1>1, AdvancePositions DEF SkipTimerFires, Inv
<1>2. CASE RequestRefill
  BY <1>2, PositionKept DEF RequestRefill, rowVars, playVars, savedVars
<1>3. ASSUME NEW songs, RefillArrives(songs) PROVE SavedPositionCurrent'
  <2>1. CASE RefillExpected
    BY <1>3, <2>1, InsertPositions DEF RefillArrives, playVars
  <2>2. CASE ~RefillExpected
    BY <1>3, <2>2, PositionKept DEF RefillArrives, rowVars, playVars, savedVars
  <2> QED
    BY <2>1, <2>2
<1>4. CASE RestoreCommits
  <2>1. Save(queue', queueIndex', currentSong', Parsed(snapshot).sources)
    BY <1>4 DEF RestoreCommits
  <2> QED
    BY <2>1, SavePositions
<1>5. CASE RestoreStep /\ ~RestoreCommits
  <2>1. queue = <<>> /\ queue' = queue
    BY <1>5 DEF RestoreStep, CacheRead, CurrentArrives, PageArrives, RestoreGivesUp, rowVars,
                Inv, RowInv, RestoringRows
  <2> QED
    BY <2>1, NoPosition
<1> QED
  BY <1>1, <1>2, <1>3, <1>4, <1>5 DEF Background

LEMMA PositionStep ==
    ASSUME Inv, SavedPositionCurrent, [Next]_vars
    PROVE  SavedPositionCurrent'
<1>0. Inv'
  BY NextInv
<1>1. CASE Navigate \/ Replace \/ Edit \/ Undo \/ Background
  BY <1>0, <1>1, NavigatePositions, ReplacePositions, EditPositions, UndoPositions,
     BackgroundPositions
<1>2. CASE Reload
  BY <1>2, NoPosition DEF Reload
<1>3. CASE \E value \in OtherTabQueues : OtherTabSaves(value)
  BY <1>3, NoPosition DEF OtherTabSaves
<1>4. CASE UNCHANGED vars
  BY <1>4, PositionKept DEF vars, rowVars, playVars, savedVars
<1> QED
  BY <1>1, <1>2, <1>3, <1>4 DEF Next

(***************************************************************************)
(* A reload resumes where the user is: the saved position and song are     *)
(* those in memory whenever the current row plays and no other tab wrote   *)
(* localStorage last.                                                      *)
(***************************************************************************)
THEOREM SavedPositionIsCurrent == Spec => []SavedPositionCurrent
<1>1. Init => SavedPositionCurrent
  <2>1. DOMAIN <<>> = {}
    OBVIOUS
  <2> QED
    BY <2>1 DEF Init, SavedPositionCurrent
<1>2. Inv /\ SavedPositionCurrent /\ [Next]_vars => SavedPositionCurrent'
  BY PositionStep
<1> QED
  BY <1>1, <1>2, Invariance, PTL DEF Spec

-----------------------------------------------------------------------------
(***************************************************************************)
(* The edits of the queue.                                                 *)
(***************************************************************************)
\* A queue with a current row is loaded, with one source for each row.
LEMMA LoadedQueue ==
    ASSUME Inv, queue # <<>>
    PROVE  /\ restore = "idle"
           /\ queue \in Seq(Songs) /\ queueSources \in Seq(PlaybackSource)
           /\ Len(queue) \in Nat /\ Len(queueSources) = Len(queue)
           /\ DOMAIN queue = 1..Len(queue) /\ DOMAIN queueSources = 1..Len(queue)
  BY LenProperties DEF Inv, TypeOK, RowInv, RestoringRows, LoadedRows, OneSourceEach

LEMMA CurrentRowLoaded ==
    ASSUME Inv, CurrentRow # <<>>
    PROVE  /\ queue # <<>> /\ queueIndex \in 1..Len(queue)
           /\ CurrentRow = <<queue[queueIndex], queueSources[queueIndex]>>
<1>1. queueIndex \in DOMAIN queue
  BY DEF CurrentRow
<1>2. DOMAIN <<>> = {}
  OBVIOUS
<1>3. queue # <<>>
  BY <1>1, <1>2
<1> QED
  BY <1>1, <1>3, LoadedQueue DEF CurrentRow

\* insertIntoQueue, for one song and a loaded queue.
LEMMA InsertedRow ==
    ASSUME Inv, queue # <<>>, NEW song \in Songs, NEW source \in PlaybackSource,
           InsertIntoQueue(<<song>>, source)
    PROVE  LET at == InsertPosition(queueSources, queueIndex, source)
           IN  /\ at \in 1..Len(queue) + 1
               /\ queue' = InsertAt(queue, at, song)
               /\ queueSources' = InsertAt(queueSources, at, source)
               /\ queueIndex' = queueIndex
<1>1. queueIndex \in Nat
  BY DEF Inv, TypeOK
<1>2. NormalizeSources(Len(queue), queueSources) = queueSources
  BY LoadedQueue, NormalizeSourcesExact
<1>3. InsertPosition(queueSources, queueIndex, source) \in 1..Len(queue) + 1
  BY <1>1, LoadedQueue, InsertPositionRange
<1> DEFINE at == InsertPosition(queueSources, queueIndex, source)
<1>4. /\ queue' = Splice(queue, at, <<song>>)
      /\ queueSources' = Splice(queueSources, at, Constantly(source, <<song>>))
      /\ queueIndex' = queueIndex
  BY <1>2 DEF InsertIntoQueue
<1> QED
  BY <1>3, <1>4, SpliceOne, ConstantlyOne

\* A row put into a loaded queue, the index moving with its row.
LEMMA InsertedAroundCurrent ==
    ASSUME Inv, CurrentRow # <<>>,
           NEW song \in Songs, NEW source \in PlaybackSource, NEW at \in 1..Len(queue) + 1,
           queue' = InsertAt(queue, at, song), queueSources' = InsertAt(queueSources, at, source),
           queueIndex' = IF at <= queueIndex THEN queueIndex + 1 ELSE queueIndex
    PROVE  CurrentRow' = CurrentRow
<1>1. queueIndex' \in DOMAIN queue' /\ queue'[queueIndex'] = queue[queueIndex]
  BY CurrentRowLoaded, LoadedQueue, RowAfterInsert
<1>2. at \in 1..Len(queueSources) + 1 /\ queueIndex \in 1..Len(queueSources)
  BY CurrentRowLoaded, LoadedQueue
<1>3. queueSources'[queueIndex'] = queueSources[queueIndex]
  BY <1>2, CurrentRowLoaded, LoadedQueue, RowAfterInsert
<1> QED
  BY <1>1, <1>3, CurrentRowLoaded DEF CurrentRow

LEMMA InsertKeepsCurrent ==
    ASSUME Inv, CurrentRow # <<>>, NEW song \in Songs, NEW source \in PlaybackSource,
           InsertIntoQueue(<<song>>, source)
    PROVE  CurrentRow' = CurrentRow
<1> DEFINE at == InsertPosition(queueSources, queueIndex, source)
<1>1. /\ at \in 1..Len(queue) + 1
      /\ queue' = InsertAt(queue, at, song) /\ queueSources' = InsertAt(queueSources, at, source)
      /\ queueIndex' = queueIndex
  BY CurrentRowLoaded, InsertedRow
<1>2. at > queueIndex
  BY CurrentRowLoaded, LoadedQueue, InsertPositionAfter
<1> HIDE DEF at
<1>3. ~(at <= queueIndex)
  BY <1>1, <1>2, CurrentRowLoaded
<1> QED
  BY <1>1, <1>3, InsertedAroundCurrent

LEMMA EditsAroundStep ==
    ASSUME Inv, EditsAround, CurrentRow # <<>>
    PROVE  CurrentRow' = CurrentRow
<1>0. queue # <<>> /\ queueIndex \in 1..Len(queue) /\ restore = "idle"
  BY CurrentRowLoaded, LoadedQueue
<1>1. ASSUME NEW song \in Queued, AddToQueue(<<song>>) PROVE CurrentRow' = CurrentRow
  <2>1. song \in Songs /\ "manual" \in PlaybackSource /\ InsertIntoQueue(<<song>>, "manual")
    BY <1>0, <1>1, InputsAssumption DEF AddToQueue, Restoring, PlaybackSource
  <2> QED
    BY <2>1, InsertKeepsCurrent
<1>2. ASSUME NEW song \in Queued, RefillArrives(<<song>>) PROVE CurrentRow' = CurrentRow
  <2>1. song \in Songs /\ "auto" \in PlaybackSource
    BY InputsAssumption DEF PlaybackSource
  <2>2. CASE RefillExpected
    BY <1>2, <2>1, <2>2, InsertKeepsCurrent DEF RefillArrives
  <2>3. CASE ~RefillExpected
    BY <1>2, <2>3 DEF RefillArrives, rowVars, CurrentRow
  <2> QED
    BY <2>2, <2>3
<1>3. ASSUME NEW i \in DOMAIN queue, NEW hide \in BOOLEAN, i # queueIndex,
             RemoveFromQueue(i, hide)
      PROVE  CurrentRow' = CurrentRow
  <2>1. queue' = RemoveAt(queue, i) /\ queueSources' = RemoveAt(queueSources, i)
    BY <1>3, RemovedRows
  <2>2. queueIndex' = IF i < queueIndex THEN queueIndex - 1 ELSE queueIndex
    BY <1>3 DEF RemoveFromQueue, IndexWithout
  <2>3. i \in 1..Len(queue) /\ i \in 1..Len(queueSources) /\ queueIndex \in 1..Len(queueSources)
    BY <1>0, LoadedQueue
  <2>4. queueIndex' \in DOMAIN queue' /\ queue'[queueIndex'] = queue[queueIndex]
    BY <1>0, <1>3, <2>1, <2>2, <2>3, LoadedQueue, RowAfterRemove
  <2>5. queueSources'[queueIndex'] = queueSources[queueIndex]
    BY <1>0, <1>3, <2>1, <2>2, <2>3, LoadedQueue, RowAfterRemove
  <2> QED
    BY <2>4, <2>5, CurrentRowLoaded DEF CurrentRow
<1>4. ASSUME UndoRemove, ~Head(toasts).jump, currentSong # NoSong
      PROVE  CurrentRow' = CurrentRow
  <2> DEFINE removed == Head(toasts)
             at == Smaller(removed.index, Len(queue) + 1)
  <2>1. /\ queue' = InsertAt(queue, at, removed.song)
        /\ queueSources' = InsertAt(queueSources, at, removed.source)
        /\ queueIndex' = IF at <= queueIndex THEN queueIndex + 1 ELSE queueIndex
    BY <1>4 DEF UndoRemove
  <2>2. removed \in RemovedToast
    BY <1>4, ToastsLeft DEF UndoRemove, ClosedToast
  <2> HIDE DEF removed
  <2>3. /\ removed.song \in Songs /\ removed.source \in PlaybackSource
        /\ removed.index \in Nat \ {0}
    BY <2>2 DEF RemovedToast
  <2>4. at \in 1..Len(queue) + 1
    BY <1>0, <2>3, LoadedQueue DEF Smaller
  <2> HIDE DEF at
  <2> QED
    BY <2>1, <2>3, <2>4, InsertedAroundCurrent
<1> QED
  BY <1>1, <1>2, <1>3, <1>4 DEF EditsAround

(***************************************************************************)
(* Adding, refilling, removing and putting back rows around the current    *)
(* row leave it current, with its source (insertIntoQueue,                 *)
(* removeQueueItemWithUndo, restoreQueueItem).                             *)
(***************************************************************************)
THEOREM EditsKeepTheCurrentRow == Spec => EditsKeepCurrentRow
<1>1. Inv => [EditsAround /\ CurrentRow # <<>> => CurrentRow' = CurrentRow]_vars
  BY EditsAroundStep
<1> QED
  BY <1>1, Invariance, PTL DEF EditsKeepCurrentRow

LEMMA QueuedStep ==
    ASSUME Inv, NEW song \in Queued, AddToQueue(<<song>>), restore = "idle",
           queueIndex \in DOMAIN queue
    PROVE  \E p \in DOMAIN queue' :
                /\ queue'[p] = song /\ RemoveAt(queue', p) = queue
                /\ p > queueIndex
                /\ \A j \in DOMAIN queue' :
                      /\ queueIndex < j /\ j < p => queueSources'[j] # "auto"
                      /\ p < j /\ queueSources'[j] # "auto"
                         => \E k \in p .. j : queueSources'[k] = "auto"
<1> DEFINE p == ManualInsertIndex(queueSources, queueIndex)
           n == Len(queue)
<1>1. CurrentRow # <<>>
  BY DEF CurrentRow
<1>2. /\ queue # <<>> /\ queueIndex \in 1..n /\ n \in Nat
      /\ queue \in Seq(Songs) /\ queueSources \in Seq(PlaybackSource)
      /\ Len(queueSources) = n /\ queueIndex \in Nat
  BY <1>1, CurrentRowLoaded, LoadedQueue
<1>3. song \in Songs /\ "manual" \in PlaybackSource /\ InsertIntoQueue(<<song>>, "manual")
  BY InputsAssumption DEF AddToQueue, Restoring, PlaybackSource
<1>4. InsertPosition(queueSources, queueIndex, "manual") = p
  BY DEF InsertPosition
<1>5. /\ p \in 1..n + 1
      /\ queue' = InsertAt(queue, p, song) /\ queueSources' = InsertAt(queueSources, p, "manual")
  BY <1>2, <1>3, <1>4, InsertedRow
<1>6. p > queueIndex
  BY <1>2, <1>4, InsertPositionAfter
<1>7. /\ \/ p = n + 1
         \/ p \in 1..n /\ queueSources[p] = "auto"
      /\ \A j \in 1..n : queueIndex < j /\ j < p => queueSources[j] # "auto"
  BY <1>2, ManualInsertIndexExact
<1> HIDE DEF p
<1>8. queue' \in Seq(Songs) /\ Len(queue') = n + 1 /\ queue'[p] = song
  <2>1. queue' \in Seq(Songs) /\ Len(queue') = n + 1
    BY <1>2, <1>3, <1>5, InsertAtProperties
  <2>2. p \in 1..Len(queue) + 1
    BY <1>5
  <2>3. InsertAt(queue, p, song)[p] = song
    BY <1>2, <1>3, <2>2, RowInserted
  <2> QED
    BY <1>5, <2>1, <2>3
<1>9. DOMAIN queue' = 1..n + 1
  BY <1>8, LenProperties
<1>10. RemoveAt(queue', p) = queue
  BY <1>2, <1>3, <1>5, RemoveUndoesInsert
<1>11. \A j \in 1..n + 1 : queueSources'[j] =
          IF j < p THEN queueSources[j] ELSE IF j = p THEN "manual" ELSE queueSources[j - 1]
  <2>1. p \in 1..Len(queueSources) + 1
    BY <1>2, <1>5
  <2>2. \A j \in 1..Len(queueSources) + 1 : InsertAt(queueSources, p, "manual")[j] =
          IF j < p THEN queueSources[j] ELSE IF j = p THEN "manual" ELSE queueSources[j - 1]
    BY <1>2, <1>3, <2>1, InsertAtProperties
  <2> QED
    BY <1>2, <1>5, <2>2
<1>12. ASSUME NEW j \in 1..n + 1, queueIndex < j, j < p PROVE queueSources'[j] # "auto"
  <2>1. j \in 1..n
    BY <1>2, <1>5, <1>12
  <2> QED
    BY <1>7, <1>11, <1>12, <2>1
<1>13. ASSUME NEW j \in 1..n + 1, p < j PROVE \E k \in p .. j : queueSources'[k] = "auto"
  <2>1. p \in 1..n /\ queueSources[p] = "auto"
    BY <1>2, <1>5, <1>7, <1>13
  <2>2. p + 1 \in 1..n + 1 /\ ~(p + 1 < p) /\ p + 1 # p /\ (p + 1) - 1 = p /\ p + 1 \in p .. j
    BY <1>2, <1>13, <2>1
  <2>3. queueSources'[p + 1] = "auto"
    BY <1>11, <2>1, <2>2
  <2> QED
    BY <2>2, <2>3
<1> QED
  BY <1>5, <1>6, <1>8, <1>9, <1>10, <1>12, <1>13

(***************************************************************************)
(* A song the user queues goes behind what was queued before it and before *)
(* every recommendation still to come (manualInsertIndex).                 *)
(***************************************************************************)
THEOREM QueuedSongsPlayBeforeAuto == Spec => QueuedSongsPlayNext
<1>1. Inv =>
        [\A song \in Queued :
            AddToQueue(<<song>>) /\ restore = "idle" /\ queueIndex \in DOMAIN queue =>
              \E p \in DOMAIN queue' :
                  /\ queue'[p] = song /\ RemoveAt(queue', p) = queue
                  /\ p > queueIndex
                  /\ \A j \in DOMAIN queue' :
                        /\ queueIndex < j /\ j < p => queueSources'[j] # "auto"
                        /\ p < j /\ queueSources'[j] # "auto"
                           => \E k \in p .. j : queueSources'[k] = "auto"]_vars
  BY QueuedStep
<1> QED
  BY <1>1, Invariance, PTL DEF QueuedSongsPlayNext

LEMMA RearrangeStep ==
    ASSUME Inv, ShuffleOn \/ ShuffleOff \/ RemoveDuplicates,
           CurrentRow # <<>>, CurrentRow[1] = currentSong, currentSong \in ToSet(queue')
    PROVE  currentSong' = currentSong /\ queue'[queueIndex'] = currentSong
<1>0. /\ queue \in Seq(Songs) /\ queueIndex \in 1..Len(queue) /\ queueIndex \in DOMAIN queue
      /\ queue[queueIndex] = currentSong /\ currentSong \in Songs /\ currentSong # NoSong
  <2>1. queue[queueIndex] = currentSong
    BY CurrentRowLoaded
  <2> QED
    BY <2>1, CurrentRowLoaded, LoadedQueue, ElementOfSeq, SongsAssumption
<1>1. CASE ShuffleOn
  <2>1. PICK rest \in Shuffles(RemoveAt(queue, queueIndex)) :
            queue' = <<queue[queueIndex]>> \o rest
    BY <1>0, <1>1 DEF ShuffleOn
  <2>2. (<<queue[queueIndex]>> \o rest)[1] = queue[queueIndex]
    BY <1>0, FrontedType
  <2>3. queueIndex' = 1 /\ currentSong' = currentSong
    BY <1>1 DEF ShuffleOn, playVars
  <2> QED
    BY <1>0, <2>1, <2>2, <2>3
<1>2. CASE ShuffleOff
  <2>1. /\ queue' = originalQueue /\ queueIndex' = UnshuffledIndex
        /\ currentSong' = currentSong /\ originalQueue \in Seq(Songs)
    BY <1>2 DEF ShuffleOff, playVars, Inv, TypeOK
  <2>2. /\ FirstRowOf(currentSong, originalQueue) \in 1..Len(originalQueue)
        /\ originalQueue[FirstRowOf(currentSong, originalQueue)] = currentSong
    BY <2>1, FirstRowOfFound
  <2>3. UnshuffledIndex = FirstRowOf(currentSong, originalQueue)
    BY <1>0, <2>2 DEF UnshuffledIndex
  <2> QED
    BY <2>1, <2>2, <2>3
<1>3. CASE RemoveDuplicates
  <2>1. PICK kept \in Enumerations(KeptRows(queue, queueIndex)) :
            LET rows == RowsAt(queue, kept)
                found == FirstRowOf(currentSong, rows)
                index == IF found # 0 THEN found ELSE Smaller(queueIndex, Len(rows))
                current == IF index = 0 THEN NoSong ELSE rows[index]
            IN  /\ queue' = rows
                /\ queueIndex' = index
                /\ currentSong' = current
    BY <1>3 DEF RemoveDuplicates
  <2> DEFINE rows == RowsAt(queue, kept)
  <2>2. queue' = rows
    BY <2>1
  <2>3. rows \in Seq(Songs)
    BY <1>0, KeptRowsType DEF KeptRows
  <2>4. /\ FirstRowOf(currentSong, rows) # 0
        /\ rows[FirstRowOf(currentSong, rows)] = currentSong
    <3> HIDE DEF rows
    <3>1. /\ FirstRowOf(currentSong, rows) \in 1..Len(rows)
          /\ rows[FirstRowOf(currentSong, rows)] = currentSong
      BY <2>2, <2>3, FirstRowOfFound
    <3> QED
      BY <2>3, <3>1, LenProperties
  <2> QED
    BY <2>1, <2>4
<1> QED
  BY <1>1, <1>2, <1>3

(***************************************************************************)
(* Shuffling, unshuffling and removing duplicates keep the playing song    *)
(* current wherever the rearranged queue has it (toggleShuffle,            *)
(* dedupeQueueBySongId).                                                   *)
(***************************************************************************)
THEOREM RearrangingNeverInterrupts == Spec => RearrangingKeepsPlaying
<1>1. Inv => [/\ ShuffleOn \/ ShuffleOff \/ RemoveDuplicates
              /\ CurrentRow # <<>> /\ CurrentRow[1] = currentSong
              /\ currentSong \in ToSet(queue')
              => currentSong' = currentSong /\ queue'[queueIndex'] = currentSong]_vars
  BY RearrangeStep
<1> QED
  BY <1>1, Invariance, PTL DEF RearrangingKeepsPlaying

-----------------------------------------------------------------------------
(***************************************************************************)
(* Navigating through a queue that is being restored.  While it is, the    *)
(* sources in memory are those of the saved list: navigation saves them    *)
(* back with every position it moves to.                                   *)
(***************************************************************************)
RestoringSources ==
    restore # "idle" =>
        queueSources = NormalizeSources(Len(snapshot.songIds), snapshot.sources)

LEMMA SaveKeepsSources ==
    ASSUME Inv, Inv', NEW rows, NEW index, NEW current, Save(rows, index, current, queueSources')
    PROVE  RestoringSources'
<1> SUFFICES ASSUME restore' # "idle"
             PROVE  queueSources' = NormalizeSources(Len(snapshot'.songIds), snapshot'.sources)
  BY DEF RestoringSources
<1>1. /\ Restoring
      /\ snapshot' = [snapshot EXCEPT
            !.index = index, !.current = current,
            !.sources = NormalizeSources(Len(snapshot.songIds), queueSources')]
  BY DEF Save, SaveReplacing
<1>2. snapshot \in Stored
  BY <1>1 DEF Restoring, Inv, RowInv, RestoringRows
<1>3. /\ snapshot'.songIds = snapshot.songIds
      /\ snapshot'.sources = NormalizeSources(Len(snapshot.songIds), queueSources')
  BY <1>1, <1>2 DEF Stored
<1>4. queueSources' \in Seq(PlaybackSource) /\ Len(queueSources') = Len(snapshot.songIds)
  BY <1>3 DEF Inv, TypeOK, RowInv, RestoringRows
<1>5. NormalizeSources(Len(snapshot.songIds), queueSources') = queueSources'
  BY <1>4, NormalizeSourcesExact
<1> QED
  BY <1>3, <1>5

LEMMA SourcesKept ==
    ASSUME RestoringSources, restore' = "idle" \/ restore # "idle",
           UNCHANGED <<queueSources, snapshot>>
    PROVE  RestoringSources'
  BY DEF RestoringSources

LEMMA PlayKeepsSources ==
    ASSUME Inv, Inv', RestoringSources,
           NEW rows, NEW index, NEW current, NEW sources, NEW song,
           NEW user \in BOOLEAN, NEW saved \in BOOLEAN, NEW timers,
           PlaySong([queue |-> rows, index |-> index, sources |-> sources, current |-> current],
                    song, user, saved, timers),
           saved \/ sources = queueSources
    PROVE  RestoringSources'
<1>1. CASE song \in Playable
  BY <1>1, SaveKeepsSources DEF PlaySong
<1>2. CASE song \notin Playable /\ saved
  <2>1. queueSources' = sources /\ Save(rows, index, song, sources)
    BY <1>2 DEF PlaySong
  <2> QED
    BY <2>1, SaveKeepsSources
<1>3. CASE song \notin Playable /\ ~saved
  <2>1. UNCHANGED <<queueSources, snapshot, restore>>
    BY <1>3 DEF PlaySong, savedVars
  <2> QED
    BY <2>1 DEF RestoringSources
<1> QED
  BY <1>1, <1>2, <1>3

LEMMA RowsKeepSources ==
    ASSUME RestoringSources, UNCHANGED <<queueSources, snapshot, restore>>
    PROVE  RestoringSources'
  BY DEF RestoringSources

LEMMA AdvanceKeepsSources ==
    ASSUME Inv, Inv', RestoringSources, NEW timers, Advance(timers)
    PROVE  RestoringSources'
<1>1. CASE CanPlayRow(NextIndex(Len(Rows)))
  BY <1>1, PlayKeepsSources DEF Advance, View
<1>2. CASE ~CanPlayRow(NextIndex(Len(Rows)))
  BY <1>2, RowsKeepSources DEF Advance, rowVars, savedVars
<1> QED
  BY <1>1, <1>2

LEMMA NavigateKeepsSources ==
    ASSUME Inv, Inv', RestoringSources, Navigate
    PROVE  RestoringSources'
<1>1. CASE NextSong
  BY <1>1, AdvanceKeepsSources DEF NextSong
<1>2. CASE PreviousSong
  <2>1. CASE CanPlayRow(queueIndex - 1)
    BY <1>2, <2>1, PlayKeepsSources DEF PreviousSong, View
  <2>2. CASE ~CanPlayRow(queueIndex - 1)
    BY <1>2, <2>2, RowsKeepSources DEF PreviousSong, savedVars
  <2> QED
    BY <2>1, <2>2
<1>3. CASE ToggleLoopMode \/ SelectPV
  BY <1>3, RowsKeepSources DEF ToggleLoopMode, SelectPV, rowVars, savedVars
<1>4. ASSUME NEW song, PlayDirect(song) PROVE RestoringSources'
  BY <1>4, PlayKeepsSources DEF PlayDirect, View
<1>5. ASSUME NEW i, JumpToIndex(i) PROVE RestoringSources'
  BY <1>5, PlayKeepsSources DEF JumpToIndex, View
<1> QED
  BY <1>1, <1>2, <1>3, <1>4, <1>5 DEF Navigate

LEMMA ReplaceKeepsSources ==
    ASSUME Inv, Inv', RestoringSources, Replace
    PROVE  RestoringSources'
<1>1. ASSUME NEW songs, NEW start, NEW source, SetQueue(songs, start, source)
      PROVE  RestoringSources'
  <2>1. UserStarts(source) \in BOOLEAN
    BY DEF UserStarts
  <2>2. \E rows, index :
           PlaySong(View(rows, index, Constantly(source, songs)),
                    songs[start], UserStarts(source), TRUE, skips)
    BY <1>1 DEF SetQueue
  <2> QED
    BY <2>1, <2>2, PlayKeepsSources DEF View
<1>2. ASSUME NEW songs, SetQueueShuffled(songs) PROVE RestoringSources'
  <2>1. PICK rows \in Shuffles(songs) :
            PlaySong(View(rows, 1, Constantly("manual", songs)), rows[1], TRUE, TRUE, skips)
    BY <1>2 DEF SetQueueShuffled
  <2> QED
    BY <2>1, PlayKeepsSources DEF View
<1>3. CASE ShuffleOn
  <2>1. Save(queue', 1, currentSong, queueSources')
    BY <1>3 DEF ShuffleOn
  <2> QED
    BY <2>1, SaveKeepsSources
<1>4. CASE ShuffleOff
  <2>1. Save(queue', queueIndex', currentSong, queueSources')
    BY <1>4 DEF ShuffleOff
  <2> QED
    BY <2>1, SaveKeepsSources
<1>5. CASE ClosePlayer \/ ClosePlayerWithUndo
  BY <1>5 DEF ClosePlayer, ClosePlayerWithUndo, Empty, ClearStored, RestoringSources
<1> QED
  BY <1>1, <1>2, <1>3, <1>4, <1>5 DEF Replace

\* getStoredPlayerQueue: what is parsed is a saved queue again.
LEMMA ParsedRecord ==
    ASSUME NEW saved \in Stored
    PROVE  Parsed(saved) = [songIds |-> Parsed(saved).songIds, sources |-> Parsed(saved).sources,
                            index |-> Parsed(saved).index, current |-> Parsed(saved).current]
<1>1. saved.songIds \in Seq(Songs) /\ Len(saved.songIds) \in Nat
  BY LenProperties DEF Stored
<1>2. NormalizeSources(Len(saved.songIds), saved.sources) \in Seq(PlaybackSource)
  BY <1>1, NormalizeSourcesType
<1>3. Parsed(saved) \in Stored
  BY <1>1, <1>2 DEF Parsed, Stored
<1> QED
  BY <1>3 DEF Stored

\* appendRestoringQueue gives the rows in memory the sources it saves.
LEMMA AppendedSources ==
    ASSUME Inv, Inv', Restoring, NEW songs, NEW source, AppendToRestoring(songs, source)
    PROVE  RestoringSources' /\ snapshot'.sources = queueSources'
<1>1. /\ snapshot' = stored' /\ UNCHANGED restore /\ restore # "idle"
      /\ stored'.sources = queueSources'
  <2>1. snapshot \in Stored
    BY DEF Restoring, Inv, RowInv, RestoringRows
  <2>2. Parsed(snapshot) = [songIds |-> Parsed(snapshot).songIds,
                            sources |-> Parsed(snapshot).sources,
                            index |-> Parsed(snapshot).index,
                            current |-> Parsed(snapshot).current]
    BY <2>1, ParsedRecord
  <2> DEFINE at == InsertPosition(Parsed(snapshot).sources, queueIndex, source)
             ids == Splice(Parsed(snapshot).songIds, at, songs)
             sources == Splice(Parsed(snapshot).sources, at, Constantly(source, songs))
  <2>3. /\ stored' = [Parsed(snapshot) EXCEPT !.songIds = ids, !.sources = sources]
        /\ snapshot' = stored' /\ queueSources' = sources /\ UNCHANGED restore
    BY DEF AppendToRestoring
  <2> HIDE DEF at, ids, sources
  <2>4. stored'.sources = sources
    BY <2>2, <2>3
  <2> QED
    BY <2>3, <2>4 DEF Restoring
<1>2. queueSources' \in Seq(PlaybackSource) /\ Len(queueSources') = Len(snapshot'.songIds)
  BY <1>1 DEF Inv, TypeOK, RowInv, RestoringRows
<1>3. NormalizeSources(Len(snapshot'.songIds), queueSources') = queueSources'
  BY <1>2, NormalizeSourcesExact
<1> QED
  BY <1>1, <1>3 DEF RestoringSources

LEMMA EditKeepsSources ==
    ASSUME Inv, Inv', RestoringSources, Edit
    PROVE  RestoringSources'
<1>1. ASSUME NEW songs, AddToQueue(songs) PROVE RestoringSources'
  <2>1. CASE Restoring
    BY <1>1, <2>1, AppendedSources DEF AddToQueue
  <2>2. CASE ~Restoring
    <3>1. Save(queue', queueIndex, currentSong, queueSources')
      BY <1>1, <2>2 DEF AddToQueue, InsertIntoQueue
    <3> QED
      BY <3>1, SaveKeepsSources
  <2> QED
    BY <2>1, <2>2
<1>2. ASSUME NEW i \in 1..MaxQueue, NEW hide \in BOOLEAN, RemoveFromQueue(i, hide)
      PROVE  RestoringSources'
  <2> DEFINE rows == RemoveAt(queue, i)
             sources == RemoveAt(queueSources, i)
             row == Smaller(i, Len(rows))
             index == IndexWithout(i)
  <2>1. \/ queueSources' = sources /\ Save(rows, index, currentSong, sources)
        \/ PlaySong([queue |-> rows, index |-> row, sources |-> sources,
                     current |-> currentSong], rows[row], FALSE, TRUE, skips)
        \/ restore' = "idle"
    BY <1>2 DEF RemoveFromQueue, View, ClearStored
  <2> HIDE DEF rows, sources, row, index
  <2> QED
    BY <2>1, SaveKeepsSources, PlayKeepsSources DEF RestoringSources
<1>3. CASE RemoveDuplicates
  <2>1. Save(queue', queueIndex', currentSong', queueSources')
    BY <1>3 DEF RemoveDuplicates
  <2> QED
    BY <2>1, SaveKeepsSources
<1> QED
  BY <1>1, <1>2, <1>3 DEF Edit

\* An undo needs a toast, and there is none while a queue is being restored.
LEMMA UndoKeepsSources ==
    ASSUME Inv, Inv', RestoringSources, Undo
    PROVE  RestoringSources'
<1>1. CASE toasts # <<>>
  <2>1. restore = "idle"
    BY <1>1 DEF Inv, ToastInv
  <2>2. restore' = "idle"
    BY <2>1 DEF Undo, UndoRemove, UndoClose, DismissToast, PageHide, PlaySong, Save,
                SaveReplacing, Restoring, savedVars
  <2> QED
    BY <2>2 DEF RestoringSources
<1>2. CASE toasts = <<>>
  <2>1. PageHide
    BY <1>2 DEF Undo, UndoRemove, UndoClose, DismissToast
  <2> QED
    BY <2>1, RowsKeepSources DEF PageHide, rowVars, savedVars
<1> QED
  BY <1>1, <1>2

LEMMA BackgroundKeepsSources ==
    ASSUME Inv, Inv', RestoringSources, Background
    PROVE  RestoringSources'
<1>1. CASE SkipTimerFires
  BY <1>1, AdvanceKeepsSources DEF SkipTimerFires
<1>2. CASE RequestRefill
  BY <1>2, RowsKeepSources DEF RequestRefill, rowVars, savedVars
<1>3. ASSUME NEW songs, RefillArrives(songs) PROVE RestoringSources'
  <2>1. CASE RefillExpected
    <3>1. Save(queue', queueIndex, currentSong, queueSources')
      BY <1>3, <2>1 DEF RefillArrives, InsertIntoQueue
    <3> QED
      BY <3>1, SaveKeepsSources
  <2>2. CASE ~RefillExpected
    BY <1>3, <2>2, RowsKeepSources DEF RefillArrives, rowVars, savedVars
  <2> QED
    BY <2>1, <2>2
<1>4. CASE RestoreCommits
  <2>1. Save(queue', queueIndex', currentSong', queueSources')
    BY <1>4 DEF RestoreCommits
  <2> QED
    BY <2>1, SaveKeepsSources
<1>5. CASE RestoreStep /\ ~RestoreCommits
  <2>1. restore # "idle" /\ UNCHANGED <<queueSources, snapshot>>
    BY <1>5 DEF RestoreStep, CacheRead, CurrentArrives, PageArrives, RestoreGivesUp, rowVars
  <2> QED
    BY <2>1, SourcesKept
<1> QED
  BY <1>1, <1>2, <1>3, <1>4, <1>5 DEF Background

LEMMA SourcesStep ==
    ASSUME Inv, RestoringSources, [Next]_vars
    PROVE  RestoringSources'
<1>0. Inv'
  BY NextInv
<1>1. CASE Navigate \/ Replace \/ Edit \/ Undo \/ Background
  BY <1>0, <1>1, NavigateKeepsSources, ReplaceKeepsSources, EditKeepsSources, UndoKeepsSources,
     BackgroundKeepsSources
<1>2. CASE Reload
  <2>1. CASE HasStoredQueue
    <3>1. stored \in Stored
      BY <2>1 DEF HasStoredQueue, Inv, TypeOK
    <3>2. queueSources' = Parsed(stored).sources /\ snapshot' = stored
      BY <1>2, <2>1 DEF Reload
    <3>3. Parsed(stored).sources = NormalizeSources(Len(stored.songIds), stored.sources)
      BY <3>1 DEF Parsed, Stored
    <3> QED
      BY <3>2, <3>3 DEF RestoringSources
  <2>2. CASE ~HasStoredQueue
    BY <1>2, <2>2 DEF Reload, RestoringSources
  <2> QED
    BY <2>1, <2>2
<1>3. CASE \E value \in OtherTabQueues : OtherTabSaves(value)
  BY <1>3, RowsKeepSources DEF OtherTabSaves, rowVars
<1>4. CASE UNCHANGED vars
  BY <1>4, RowsKeepSources DEF vars, rowVars, savedVars
<1> QED
  BY <1>1, <1>2, <1>3, <1>4 DEF Next

LEMMA SourcesInvariant == Spec => []RestoringSources
<1>1. Init => RestoringSources
  BY DEF Init, RestoringSources
<1>2. Inv /\ RestoringSources /\ [Next]_vars => RestoringSources'
  BY SourcesStep
<1> QED
  BY <1>1, <1>2, Invariance, PTL DEF Spec

\* What is saved, and what is in memory of it, while a queue is restored.
LEMMA RestoringSaved ==
    ASSUME Inv, RestoringSources, Restoring
    PROVE  /\ restore # "idle" /\ queue = <<>> /\ stored = snapshot /\ snapshot \in Stored
           /\ HasStoredQueue /\ Rows = snapshot.songIds
           /\ snapshot.songIds \in Seq(Songs) /\ Len(snapshot.songIds) \in Nat
           /\ queueSources \in Seq(PlaybackSource)
           /\ Len(queueSources) = Len(snapshot.songIds)
           /\ Parsed(stored).songIds = snapshot.songIds
           /\ Parsed(stored).sources = queueSources
           /\ SavedList = <<snapshot.songIds, queueSources>>
<1>1. /\ restore # "idle" /\ queue = <<>> /\ stored = snapshot /\ snapshot \in Stored
      /\ snapshot.songIds # <<>> /\ queueSources \in Seq(PlaybackSource)
      /\ Len(queueSources) = Len(snapshot.songIds)
  BY DEF Restoring, CanCommit, Inv, TypeOK, RowInv, RestoringRows
<1>2. snapshot.songIds \in Seq(Songs) /\ Len(snapshot.songIds) \in Nat
  BY <1>1, LenProperties DEF Stored
<1>3. HasStoredQueue
  BY <1>1, SentinelsAssumption DEF HasStoredQueue
<1>4. /\ Parsed(snapshot).songIds = snapshot.songIds
      /\ Parsed(snapshot).sources = NormalizeSources(Len(snapshot.songIds), snapshot.sources)
  BY <1>1 DEF Parsed, Stored
<1>5. Parsed(stored).sources = queueSources
  BY <1>1, <1>4 DEF RestoringSources
<1> QED
  BY <1>1, <1>2, <1>3, <1>4, <1>5 DEF Rows, SavedList

\* Playing a row of the restoring queue saves its position and nothing else.
LEMMA RestoringPlayKeepsSaved ==
    ASSUME Inv, RestoringSources, Restoring, CanPlayRow(queueIndex'),
           NEW user \in BOOLEAN, NEW timers,
           PlaySong([queue |-> queue, index |-> queueIndex', sources |-> queueSources,
                     current |-> currentSong], Rows[queueIndex'], user, FALSE, timers)
    PROVE  SavedList' = SavedList
<1> DEFINE song == Rows[queueIndex']
           n == Len(snapshot.songIds)
<1>0. DOMAIN <<>> = {}
  OBVIOUS
<1>1. queueIndex' \in DOMAIN snapshot.songIds /\ song = snapshot.songIds[queueIndex']
  BY RestoringSaved DEF CanPlayRow
<1>2. CASE song \in Playable
  <2>1. queueSources' = queueSources /\ Save(queue, queueIndex', song, queueSources')
    BY <1>0, <1>2, RestoringSaved DEF PlaySong
  <2>2. /\ stored' = [snapshot EXCEPT
              !.index = queueIndex', !.current = song,
              !.sources = NormalizeSources(n, queueSources)]
        /\ snapshot' = stored' /\ UNCHANGED restore
    BY <1>1, <2>1, RestoringSaved DEF Save
  <2>3. NormalizeSources(n, queueSources) = queueSources
    BY RestoringSaved, NormalizeSourcesExact
  <2> HIDE DEF song
  <2>4. stored' = [songIds |-> snapshot.songIds, sources |-> queueSources,
                   index |-> queueIndex', current |-> song]
    BY <2>2, <2>3, RestoringSaved DEF Stored
  <2>5. HasStoredQueue'
    <3>1. snapshot.songIds # <<>>
      BY RestoringSaved DEF HasStoredQueue
    <3>2. stored'.songIds # <<>>
      BY <2>4, <3>1
    <3>3. stored' # NoStored
      <4>1. stored' \in Stored
        <5>1. queueIndex' \in Nat
          BY <1>1, RestoringSaved, LenProperties
        <5>2. song \in Songs
          BY <1>1, RestoringSaved, LenProperties, ElementOfSeq DEF song
        <5> QED
          BY <2>4, <5>1, <5>2, RestoringSaved DEF Stored
      <4> QED
        BY <4>1, SentinelsAssumption
    <3> QED
      BY <3>2, <3>3 DEF HasStoredQueue
  <2>6. Parsed(stored').sources = queueSources
    BY <2>3, <2>4 DEF Parsed
  <2>7. SavedList' = <<snapshot.songIds, queueSources>>
    BY <2>4, <2>5, <2>6 DEF SavedList
  <2> QED
    BY <2>7, RestoringSaved
<1>3. CASE song \notin Playable
  <2>1. stored' = stored
    BY <1>3 DEF PlaySong, savedVars
  <2> QED
    BY <2>1 DEF SavedList, HasStoredQueue
<1> QED
  BY <1>2, <1>3

LEMMA RestoringNavigation ==
    ASSUME Inv, RestoringSources, Restoring,
           NextSong \/ PreviousSong \/ \E i \in 1..MaxQueue : JumpToIndex(i)
    PROVE  SavedList' = SavedList
<1>0. stored' = stored => SavedList' = SavedList
  BY DEF SavedList, HasStoredQueue
<1>1. CASE NextSong
  <2> DEFINE i == NextIndex(Len(Rows))
  <2>1. CASE CanPlayRow(i)
    <3>1. PlaySong([queue |-> queue, index |-> i, sources |-> queueSources,
                    current |-> currentSong], Rows[i], FALSE, FALSE, skips)
      BY <1>1, <2>1 DEF NextSong, Advance, View
    <3>2. queueIndex' = i
      BY <3>1 DEF PlaySong
    <3> HIDE DEF i
    <3> QED
      BY <2>1, <3>1, <3>2, RestoringPlayKeepsSaved
  <2>2. CASE ~CanPlayRow(i)
    BY <1>0, <1>1, <2>2 DEF NextSong, Advance, savedVars
  <2> QED
    BY <2>1, <2>2
<1>2. CASE PreviousSong
  <2> DEFINE i == queueIndex - 1
  <2>1. CASE CanPlayRow(i)
    <3>1. PlaySong([queue |-> queue, index |-> i, sources |-> queueSources,
                    current |-> currentSong], Rows[i], TRUE, FALSE, skips)
      BY <1>2, <2>1 DEF PreviousSong, View
    <3>2. queueIndex' = i
      BY <3>1 DEF PlaySong
    <3> HIDE DEF i
    <3> QED
      BY <2>1, <3>1, <3>2, RestoringPlayKeepsSaved
  <2>2. CASE ~CanPlayRow(i)
    BY <1>0, <1>2, <2>2 DEF PreviousSong, savedVars
  <2> QED
    BY <2>1, <2>2
<1>3. ASSUME NEW i \in 1..MaxQueue, JumpToIndex(i) PROVE SavedList' = SavedList
  <2>1. PlaySong([queue |-> queue, index |-> i, sources |-> queueSources,
                  current |-> currentSong], Rows[i], TRUE, FALSE, skips)
    BY <1>3 DEF JumpToIndex, View
  <2>2. queueIndex' = i /\ CanPlayRow(i)
    BY <1>3, <2>1 DEF PlaySong, JumpToIndex
  <2> QED
    BY <2>1, <2>2, RestoringPlayKeepsSaved
<1> QED
  BY <1>1, <1>2, <1>3

LEMMA RestoringAddition ==
    ASSUME Inv, RestoringSources, Restoring, NEW song \in Queued, AddToQueue(<<song>>)
    PROVE  SavedRowAdded
<1> DEFINE ids == snapshot.songIds
           at == InsertPosition(queueSources, queueIndex, "manual")
           rows == InsertAt(ids, at, song)
           sources == InsertAt(queueSources, at, "manual")
<1>1. /\ ids \in Seq(Songs) /\ song \in Songs /\ Len(ids) \in Nat
      /\ queueSources \in Seq(PlaybackSource) /\ "manual" \in PlaybackSource
      /\ Len(queueSources) = Len(ids) /\ queueIndex \in Nat
  BY RestoringSaved, InputsAssumption DEF Inv, TypeOK, PlaybackSource
<1>2. at \in 1..Len(ids) + 1
  BY <1>1, InsertPositionRange
<1>3. at \in 1..Len(queueSources) + 1
  BY <1>1, <1>2
<1>4. stored' = [Parsed(snapshot) EXCEPT !.songIds = rows, !.sources = sources]
  <2>1. Parsed(snapshot).songIds = ids /\ Parsed(snapshot).sources = queueSources
    BY RestoringSaved
  <2>2. stored' = [Parsed(snapshot) EXCEPT
                      !.songIds = Splice(@, at, <<song>>),
                      !.sources = Splice(queueSources, at, Constantly("manual", <<song>>))]
    BY <2>1 DEF AddToQueue, AppendToRestoring
  <2> HIDE DEF at
  <2>3. stored' = [Parsed(snapshot) EXCEPT
                      !.songIds = Splice(ids, at, <<song>>),
                      !.sources = Splice(queueSources, at, Constantly("manual", <<song>>))]
    BY <2>1, <2>2
  <2> QED
    BY <2>3, SpliceOne, ConstantlyOne
<1> HIDE DEF at
<1>5. rows \in Seq(Songs) /\ Len(rows) = Len(ids) + 1
  BY <1>1, <1>2, InsertAtProperties
<1>6. sources \in Seq(PlaybackSource) /\ Len(sources) = Len(ids) + 1
  BY <1>1, <1>3, InsertAtProperties
<1>7. RemoveAt(rows, at) = ids
  BY <1>1, <1>2, RemoveUndoesInsert
<1>8. RemoveAt(sources, at) = queueSources
  BY <1>1, <1>3, RemoveUndoesInsert
<1> HIDE DEF rows, sources
<1>9. /\ stored'.songIds = rows
      /\ Parsed(stored').sources = NormalizeSources(Len(rows), sources)
  <2>1. Parsed(snapshot) = [songIds |-> Parsed(snapshot).songIds,
                            sources |-> Parsed(snapshot).sources,
                            index |-> Parsed(snapshot).index,
                            current |-> Parsed(snapshot).current]
    BY RestoringSaved, ParsedRecord
  <2>2. stored' = [songIds |-> rows, sources |-> sources, index |-> Parsed(snapshot).index,
                   current |-> Parsed(snapshot).current]
    BY <1>4, <2>1
  <2> QED
    BY <2>2 DEF Parsed
<1>10. Parsed(stored').sources = sources
  BY <1>5, <1>6, <1>9, NormalizeSourcesExact
<1>11. at \in DOMAIN stored'.songIds
  BY <1>1, <1>2, <1>5, <1>9, LenProperties
<1>12. stored.songIds = ids /\ Parsed(stored).sources = queueSources
  BY RestoringSaved
<1> QED
  BY <1>7, <1>8, <1>9, <1>10, <1>11, <1>12 DEF SavedRowAdded

(***************************************************************************)
(* While a queue is restored, moving through it keeps every saved row and  *)
(* source, and a queued song is added to the whole saved list, also when   *)
(* another tab wrote that list (savePlayerQueue, appendRestoringQueue).    *)
(***************************************************************************)
THEOREM RestoringKeepsTheSavedList == Spec => RestoringKeepsSaved
<1>1. Inv /\ RestoringSources =>
        [Restoring =>
            /\ NextSong \/ PreviousSong \/ (\E i \in 1..MaxQueue : JumpToIndex(i))
               => SavedList' = SavedList
            /\ (\E song \in Queued : AddToQueue(<<song>>)) => SavedRowAdded]_vars
  BY RestoringNavigation, RestoringAddition
<1> QED
  BY <1>1, Invariance, SourcesInvariant, PTL DEF RestoringKeepsSaved
=============================================================================
