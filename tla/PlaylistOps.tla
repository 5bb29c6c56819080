---------------------------- MODULE PlaylistOps ----------------------------
(***************************************************************************)
(* The actions of the playlist library (src/stores/playlistStore.ts) as    *)
(* functions from the library they read to their outcome, before the       *)
(* wrapper that persists them (PlaylistLibrary) is added.                  *)
(*                                                                         *)
(* A library is the sequence of its playlists.  Names, covers, dates,      *)
(* folders and the rules of smart lists are left out: no guard here reads  *)
(* them.  "linked" stands for an enabled YouTube or Niconico sync.         *)
(* Positions count from 1.                                                 *)
(***************************************************************************)
EXTENDS Integers, Sequences, FiniteSets, SequencesExt

CONSTANTS Songs,       \* the songs, by id
          Lists,       \* the ids of playlists
          WatchLater,  \* the pinned list every library has
          NoSong       \* JavaScript's undefined in a row

ASSUME ListsAssumption == WatchLater \in Lists /\ NoSong \notin Songs

Row == Songs \cup {NoSong}
Playlist == [id : Lists, songs : Seq(Row), linked : BOOLEAN]

\* An outcome: the library to commit, or that nothing is committed, or a TypeError.
Saves(lib, answer) == [lib |-> lib, effect |-> "saves", answer |-> answer]
Keeps(lib, answer) == [lib |-> lib, effect |-> "keeps", answer |-> answer]
Throws(lib) == [lib |-> lib, effect |-> "throws", answer |-> [kind |-> "failed"]]

Done == [kind |-> "done"]
Nothing == [kind |-> "nothing"]
Failed == [kind |-> "failed"]

Has(lib, id) == \E i \in DOMAIN lib : lib[i].id = id
PlaceOf(lib, id) == CHOOSE i \in DOMAIN lib : lib[i].id = id
Entry(lib, id) == lib[PlaceOf(lib, id)]
SongsOf(lib, id) == Entry(lib, id).songs
Editable(lib, id) == Has(lib, id) /\ ~Entry(lib, id).linked

WithSongs(lib, id, songs) ==
    IF Editable(lib, id) THEN [lib EXCEPT ![PlaceOf(lib, id)].songs = songs] ELSE lib

\* A row reorderSongs made of nothing: reading its id is a TypeError.
HasHole(songs) == \E i \in DOMAIN songs : songs[i] = NoSong

Copies(song, songs) == Cardinality({i \in DOMAIN songs : songs[i] = song})

\* The rows of a set in their order, and what a list holds there.
Ascending(rows) ==
    CHOOSE order \in [1..Cardinality(rows) -> rows] :
        \A i, j \in DOMAIN order : i < j => order[i] < order[j]
RowsAt(list, rows) == LET order == Ascending(rows)
                      IN  [k \in DOMAIN order |-> list[order[k]]]
AtMost(m, n) == IF m <= n THEN m ELSE n

-----------------------------------------------------------------------------
EmptyList(id, linked) == [id |-> id, songs |-> <<>>, linked |-> linked]

AlwaysCreateWatchLater(lib) == Saves(<<EmptyList(WatchLater, FALSE)>> \o lib, Done)

GetOrCreateWatchLater(lib) ==
    IF Has(lib, WatchLater) THEN Keeps(lib, Done)
    ELSE Saves(<<EmptyList(WatchLater, FALSE)>> \o lib, Done)

\* loadPlaylists reads every row (withDefaultSongName).
LoadPlaylists(lib) ==
    IF \E i \in DOMAIN lib : HasHole(lib[i].songs) THEN Throws(lib)
    ELSE GetOrCreateWatchLater(lib)

CreatePlaylist(lib, id, linked) == Saves(Append(lib, EmptyList(id, linked)), Done)

DeletePlaylist(lib, id) ==
    IF ~Has(lib, id) \/ id = WatchLater THEN Keeps(lib, Nothing)
    ELSE Saves(RemoveAt(lib, PlaceOf(lib, id)),
               [kind |-> "deleted", playlist |-> Entry(lib, id),
                index |-> PlaceOf(lib, id)])

RestoreDeletedPlaylist(lib, deleted) ==
    IF Has(lib, deleted.playlist.id) THEN Keeps(lib, Nothing)
    ELSE Saves(InsertAt(lib, AtMost(deleted.index, Len(lib) + 1), deleted.playlist), Done)

-----------------------------------------------------------------------------
NewSongs(songs, old) ==
    RowsAt(songs, {i \in DOMAIN songs : /\ songs[i] \notin ToSet(old)
                                        /\ \A j \in 1..(i - 1) : songs[j] # songs[i]})

AddSongs(lib, id, songs) ==
    IF ~Editable(lib, id) THEN Keeps(lib, Nothing)
    ELSE LET old == SongsOf(lib, id)
             new == NewSongs(songs, old)
         IN  IF HasHole(old) THEN Throws(lib)
             ELSE IF new = <<>> THEN Keeps(lib, Done)
             ELSE Saves(WithSongs(lib, id, old \o new), Done)

\* removeSongs: rows outside the list are ignored; the answer is the snapshot
\* an undo starts from, with the copies of each song that are left.
RemoveSongs(lib, id, rows) ==
    IF ~Editable(lib, id) THEN Keeps(lib, Nothing)
    ELSE LET old == SongsOf(lib, id)
             gone == rows \cap DOMAIN old
             order == Ascending(gone)
             left == RowsAt(old, DOMAIN old \ gone)
         IN  IF gone = {} THEN Keeps(lib, Nothing)
             ELSE IF HasHole(old) THEN Throws(lib)
             ELSE Saves(WithSongs(lib, id, left),
                        [kind |-> "removed", list |-> id,
                         removed |-> [k \in DOMAIN order |->
                                         [song |-> old[order[k]], index |-> order[k]]],
                         remaining |-> [s \in Songs |-> Copies(s, left)]])

\* removeDuplicateSongsWithUndo keeps the first row of each song.
RemoveDuplicateSongs(lib, id) ==
    IF ~Has(lib, id) THEN Keeps(lib, Nothing)
    ELSE LET old == SongsOf(lib, id)
             removal == RemoveSongs(lib, id,
                            {i \in DOMAIN old : \E j \in 1..(i - 1) : old[j] = old[i]})
         IN  IF HasHole(old) THEN Throws(lib)
             ELSE IF removal.effect = "keeps" THEN removal
             ELSE [removal EXCEPT !.answer.kind = "duplicates"]

\* restoreRemovedSongs: of each song as many removed rows come back as the
\* list had before the removal, counting those in it now.
RestorableIgnoringCurrent(snapshot, song, current) ==
    Cardinality({k \in DOMAIN snapshot.removed : snapshot.removed[k].song = song})

Restorable(snapshot, song, current) ==
    snapshot.remaining[song]
    + Cardinality({k \in DOMAIN snapshot.removed : snapshot.removed[k].song = song})
    - Copies(song, current)

Returning(snapshot, current, allowDuplicateIds) ==
    {k \in DOMAIN snapshot.removed :
        \/ allowDuplicateIds
        \/ LET song == snapshot.removed[k].song
           IN  Cardinality({j \in 1..(k - 1) : snapshot.removed[j].song = song})
               < Restorable(snapshot, song, current)}

PutBack(songs, entry) ==
    InsertAt(songs, AtMost(entry.index, Len(songs) + 1), entry.song)

PutAllBack(songs, entries) ==
    LET list[k \in 0..Len(entries)] ==
            IF k = 0 THEN songs ELSE PutBack(list[k - 1], entries[k])
    IN  list[Len(entries)]

RestoreRemovedSongs(lib, snapshot, allowDuplicateIds) ==
    IF ~Editable(lib, snapshot.list) THEN Keeps(lib, Nothing)
    ELSE LET old == SongsOf(lib, snapshot.list)
             back == Returning(snapshot, old, allowDuplicateIds)
         IN  IF HasHole(old) /\ ~allowDuplicateIds THEN Throws(lib)
             ELSE IF back = {} THEN Keeps(lib, Nothing)
             ELSE Saves(WithSongs(lib, snapshot.list,
                            PutAllBack(old, RowsAt(snapshot.removed, back))),
                        Done)

-----------------------------------------------------------------------------
RemoveSongById(lib, id, song) ==
    IF Editable(lib, id) /\ HasHole(SongsOf(lib, id)) THEN Throws(lib)
    ELSE Saves(IF Editable(lib, id)
               THEN LET old == SongsOf(lib, id)
                    IN  WithSongs(lib, id, RowsAt(old, {i \in DOMAIN old : old[i] # song}))
               ELSE lib, Done)

ToggleSongInPlaylist(lib, id, song) ==
    IF ~Has(lib, id) THEN Keeps(lib, Nothing)
    ELSE IF HasHole(SongsOf(lib, id)) THEN Throws(lib)
    ELSE IF Copies(song, SongsOf(lib, id)) > 0 THEN RemoveSongById(lib, id, song)
    ELSE AddSongs(lib, id, <<song>>)

\* reorderSongs: a position past the end moves undefined.
Moved(songs, from, to) ==
    LET taken == IF from \in DOMAIN songs THEN songs[from] ELSE NoSong
        rest == IF from \in DOMAIN songs THEN RemoveAt(songs, from) ELSE songs
    IN  InsertAt(rest, AtMost(to, Len(rest) + 1), taken)

ReorderSongs(lib, id, from, to) ==
    Saves(IF Editable(lib, id) THEN WithSongs(lib, id, Moved(SongsOf(lib, id), from, to))
          ELSE lib, Done)

\* replacePlaylistSongs: the refresh of a smart list.
ReplacePlaylistSongs(lib, id, songs) == Saves(WithSongs(lib, id, songs), Done)

\* applyYouTubeSync, applyNicoSync
ApplySync(lib, id, songs) ==
    IF ~Has(lib, id) \/ ~Entry(lib, id).linked THEN Keeps(lib, Nothing)
    ELSE Saves([lib EXCEPT ![PlaceOf(lib, id)].songs = songs], Done)

\* unlinkYouTubeSync, unlinkNicoSync
UnlinkSync(lib, id) ==
    IF ~Has(lib, id) \/ ~Entry(lib, id).linked THEN Keeps(lib, Nothing)
    ELSE Saves([lib EXCEPT ![PlaceOf(lib, id)].linked = FALSE], Done)

-----------------------------------------------------------------------------
(***************************************************************************)
(* What a request does to the library it finds.                            *)
(***************************************************************************)
Outcome(lib, request) ==
    CASE request.op = "load" -> LoadPlaylists(lib)
      [] request.op = "watchLater" -> GetOrCreateWatchLater(lib)
      [] request.op = "create" -> CreatePlaylist(lib, request.list, request.linked)
      [] request.op = "delete" -> DeletePlaylist(lib, request.list)
      [] request.op = "undelete" -> RestoreDeletedPlaylist(lib, request.snapshot)
      [] request.op = "add" -> AddSongs(lib, request.list, request.songs)
      [] request.op = "remove" -> RemoveSongs(lib, request.list, request.rows)
      [] request.op = "dedupe" -> RemoveDuplicateSongs(lib, request.list)
      [] request.op = "undo" ->
            RestoreRemovedSongs(lib, request.snapshot, request.allowDuplicateIds)
      [] request.op = "removeById" -> RemoveSongById(lib, request.list, request.song)
      [] request.op = "toggle" -> ToggleSongInPlaylist(lib, request.list, request.song)
      [] request.op = "reorder" ->
            ReorderSongs(lib, request.list, request.from, request.to)
      [] request.op = "refresh" -> ReplacePlaylistSongs(lib, request.list, request.songs)
      [] request.op = "sync" -> ApplySync(lib, request.list, request.songs)
      [] request.op = "unlink" -> UnlinkSync(lib, request.list)
      [] request.op = "replace" -> Saves(request.lib, Done)
=============================================================================
