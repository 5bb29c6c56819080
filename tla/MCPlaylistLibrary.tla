-------------------------- MODULE MCPlaylistLibrary --------------------------
(***************************************************************************)
(* Instances of PlaylistLibrary for TLC: two tabs, the watch-later list    *)
(* and up to three others, two songs.                                      *)
(***************************************************************************)
EXTENDS PlaylistLibrary, TLC

CONSTANTS t1, t2, wl, p, q, r, a, b

MCTabs == {t1, t2}
MCSongs == {a, b}
OneList == {wl}
TwoLists == {wl, p}
FourLists == {wl, p, q, r}

List(id, songs) == [id |-> id, songs |-> songs, linked |-> FALSE]
Linked(id, songs) == [id |-> id, songs |-> songs, linked |-> TRUE]

Empty == List(wl, <<>>)
\* A list with both songs; one that follows a remote list.
Edited == {<<Empty, List(p, <<a, b>>)>>}
Pinned == {<<List(wl, <<a, b>>)>>}
Synced == {<<Empty, List(p, <<a>>), Linked(q, <<b>>)>>}

\* What older versions left in localStorage: nothing, or a library without a
\* watch-later list.
Migrated == {<<List(p, <<a>>)>>}
Old == {NoLegacy, Corrupt} \cup Migrated
OldWrites == {<<List(p, <<b>>)>>}

None == {}
Remote == {<<b, a>>}
Files == {<<List(p, <<b>>)>>}

From(libraries, bytes, may, gestures, closes, oldWrites, failures) ==
    [libraries |-> libraries, legacy |-> bytes,
     budget |-> [may |-> may, gestures |-> gestures, closes |-> closes,
                 oldWrites |-> oldWrites, failures |-> failures]]

\* Any two gestures and a closed tab; then more, about songs that come and go.
AtomicScenarios ==
    {From(Synced, Migrated, GestureNames, 2, 1, 0, 0),
     From(Pinned, None, {"add", "remove", "undo"}, 4, 0, 0, 0)}
StaleScenarios == {From(Edited, None, {"remove"}, 2, 0, 0, 0)}
LockedScenarios == {From(None, Old, {"toggle", "remove"}, 2, 1, 1, 1)}

Symmetric == Permutations(MCTabs)
=============================================================================
