------------------------------ MODULE QueueOps ------------------------------
(***************************************************************************)
(* The pure list operations of the player's queue: src/stores/             *)
(* playerStore.ts (normalizeQueueSources, mapSourcesBySongId,              *)
(* manualInsertIndex, insertIntoQueue) and src/utils/queueUtils.ts         *)
(* (shuffleQueue, dedupeQueueBySongId).                                    *)
(*                                                                         *)
(* A song is a member of Songs (the code compares songs by id only).       *)
(* Positions are those of TLA+ sequences: the code's index k is position   *)
(* k + 1 here, and its "no row" index -1 is position 0.                    *)
(***************************************************************************)
EXTENDS Integers, Sequences, FiniteSets, SequencesExt

CONSTANTS Songs,    \* the songs, by id
          NoSong    \* the code's null

ASSUME SongsAssumption == NoSong \notin Songs

PlaybackSource == {"manual", "auto", "discovery"}

(***************************************************************************)
(* One source per row; anything that is not auto or discovery is manual.   *)
(***************************************************************************)
NormalizeSources(n, sources) ==
    [i \in 1..n |->
        IF i \in DOMAIN sources /\ sources[i] \in {"auto", "discovery"}
        THEN sources[i] ELSE "manual"]

(***************************************************************************)
(* Where the user's songs go: before the first autoplay row after the      *)
(* current one, or at the end.                                             *)
(***************************************************************************)
AutoFromCurrent(sources, index) ==
    {k \in DOMAIN sources : k >= index /\ sources[k] = "auto"}

UpcomingAuto(sources, index) ==
    {k \in DOMAIN sources : k > index /\ sources[k] = "auto"}

ManualInsertIndex(sources, index) ==
    LET upcoming == UpcomingAuto(sources, index)
    IN  IF upcoming = {} THEN Len(sources) + 1
        ELSE CHOOSE k \in upcoming : \A j \in upcoming : k <= j

AlwaysLast(sources, index, source) == Len(sources) + 1

InsertPosition(sources, index, source) ==
    IF source = "auto" THEN Len(sources) + 1
    ELSE ManualInsertIndex(sources, index)

\* [...list.slice(0, at), ...more, ...list.slice(at)]
Splice(list, at, more) ==
    SubSeq(list, 1, at - 1) \o more \o SubSeq(list, at, Len(list))

Constantly(source, songs) == [i \in DOMAIN songs |-> source]

(***************************************************************************)
(* The sources of a rearranged queue: every row takes the source of the    *)
(* first row of the previous queue with the same song.                     *)
(***************************************************************************)
FirstRowOf(song, queue) ==
    IF \E k \in DOMAIN queue : queue[k] = song
    THEN CHOOSE k \in DOMAIN queue :
            queue[k] = song /\ \A j \in DOMAIN queue : queue[j] = song => k <= j
    ELSE 0

SourceInQueue(song, queue, sources) ==
    LET row == FirstRowOf(song, queue)
    IN  IF row \in DOMAIN sources THEN sources[row] ELSE "manual"

MapSources(next, queue, sources) ==
    [i \in DOMAIN next |-> SourceInQueue(next[i], queue, sources)]

(***************************************************************************)
(* Fisher-Yates: any arrangement of the rows.                              *)
(***************************************************************************)
Shuffles(list) ==
    {[i \in DOMAIN list |-> list[p[i]]] : p \in Bijection(DOMAIN list, DOMAIN list)}

(***************************************************************************)
(* Of the rows of one song dedupeQueueBySongId keeps the current row, or   *)
(* else the first.  The kept rows stay in their order.                     *)
(***************************************************************************)
KeptRows(queue, index) ==
    {k \in DOMAIN queue :
        \/ k = index
        \/ /\ k = FirstRowOf(queue[k], queue)
           /\ ~(index \in DOMAIN queue /\ queue[index] = queue[k])}

\* The increasing enumerations of a set of positions (there is exactly one).
Enumerations(rows) ==
    {f \in [1..Cardinality(rows) -> rows] :
        \A i, j \in DOMAIN f : i < j => f[i] < f[j]}

RowsAt(list, positions) == [i \in DOMAIN positions |-> list[positions[i]]]

Smaller(m, n) == IF m <= n THEN m ELSE n
=============================================================================
