-------------------------- MODULE PlaylistLibrary --------------------------
(***************************************************************************)
(* The playlist library as its tabs share it: the wrapper that runs every  *)
(* action of src/stores/playlistStore.ts, the database of                  *)
(* src/services/playlistDatabase.ts and the notices of                     *)
(* src/services/librarySync.ts.                                            *)
(*                                                                         *)
(* Each tab carries out its requests one after the other.  A request takes *)
(* the lock (where the browser has one), reads the database unless the     *)
(* tab's copy is of the current revision, migrates the library of older    *)
(* versions out of localStorage when there is no database yet, applies the *)
(* action to the copy, and writes the difference in one transaction that   *)
(* aborts unless the revision is still the one it read.  Tabs are closed   *)
(* and opened between any two steps, writes fail, and a tab of an older    *)
(* version still writes localStorage.                                      *)
(*                                                                         *)
(* Abstracted: the fallback for browsers without IndexedDB, failures to    *)
(* open or read the database, and the "storage" event that doubles the     *)
(* BroadcastChannel notice.                                                *)
(***************************************************************************)
EXTENDS PlaylistOps

CONSTANTS
    Tabs,
    Locks,           \* does the browser have Web Locks?
    Scenarios,       \* where the instance starts and what its users may do then
    OldTabLibraries, \* what a tab of an older version may write there
    RemoteSongs,     \* what a sync or a smart list's search may bring
    Backups,         \* the libraries of backup files
    NoMeta,          \* a database without a library
    NoLegacy,        \* localStorage without a library
    Corrupt,         \* localStorage with an unreadable one
    MaxRequests      \* bound: requests waiting in a tab

GestureNames ==
    {"focus", "watchLater", "create", "delete", "undelete", "add", "remove", "dedupe",
     "undo", "health", "removeById", "toggle", "reorder", "refresh", "sync", "failedSync",
     "unlink", "replace"}

\* A scenario starts from a library in the database or from what localStorage
\* holds instead, and bounds what is done: the gestures and how many, closed
\* tabs, old tabs' writes and failed writes.
ASSUME InstanceAssumption ==
    /\ Locks \in BOOLEAN /\ MaxRequests \in Nat \ {0}
    /\ \A s \in Scenarios :
        /\ DOMAIN s = {"libraries", "legacy", "budget"}
        /\ s.budget \in [may : SUBSET GestureNames, gestures : Nat, closes : Nat,
                         oldWrites : Nat, failures : Nat]

Library == Seq(Playlist)

\* The ids of a library differ.
DistinctIds(lib) == \A i, j \in DOMAIN lib : lib[i].id = lib[j].id => i = j

Unreadable == {NoLegacy, Corrupt}

\* Libraries come from this app: createStableId made their ids.  The parser of
\* backups and the migration do not look for repeated ones.
ASSUME LibrariesAssumption ==
    /\ NoMeta \notin [revision : Nat, ids : Seq(Lists)]
    /\ \A bytes \in Unreadable : bytes \notin Library
    /\ \A lib \in OldTabLibraries \cup Backups
                  \cup UNION {s.libraries \cup (s.legacy \ Unreadable) : s \in Scenarios} :
           lib \in Library /\ DistinctIds(lib)

\* Searches and remote lists bring songs.
ASSUME RemoteAssumption == RemoteSongs \subseteq Seq(Songs)

VARIABLES
    meta,       \* the "current" record: revision and order of the lists
    records,    \* the "playlists" store
    archive,    \* the "legacy-localStorage" record: what the migration read
    legacy,     \* localStorage: diva_playlists
    open, memory, known, hydrated,  \* per tab; known is playlistDatabaseRevision
    requests,   \* per tab: the calls waiting, the head is being carried out
    phase, work,\* per tab: where its head request stands and what it writes
    outcome,    \* per tab: the last answer
    offer,      \* per tab: the snapshot its undo toast holds
    notices,    \* per tab: a BroadcastChannel message that has not arrived
    created,    \* the ids of lists used so far
    left        \* what remains of the scenario's budget

databaseVars == <<meta, records, archive>>
tabVars == <<open, memory, known, hydrated, requests, phase, work, outcome, offer>>
vars == <<databaseVars, legacy, tabVars, notices, created, left>>

NoRevision == 0
NoWork == [lib |-> <<>>, answer |-> Nothing, copied |-> NoLegacy, revision |-> NoRevision]
Load == [op |-> "load"]

Ids(lib) == {lib[i].id : i \in DOMAIN lib}
LibraryIn(bytes) == IF bytes \in Unreadable THEN <<>> ELSE bytes

-----------------------------------------------------------------------------
(***************************************************************************)
(* The database.                                                           *)
(***************************************************************************)
Readable == \A i \in DOMAIN meta.ids : meta.ids[i] \in DOMAIN records

SavedLibrary == [i \in DOMAIN meta.ids |-> records[meta.ids[i]]]

\* writePlaylistSnapshot: only lists that changed are put, only lists that
\* were there before are deleted.
WriteDeltaKeepingDropped(next, before, revision) ==
    LET changed == {i \in DOMAIN next : ~\E j \in DOMAIN before : before[j] = next[i]}
        puts == {next[i].id : i \in changed}
    IN  /\ records' = [id \in DOMAIN records \cup puts |->
                          IF id \in puts THEN Entry(next, id) ELSE records[id]]
        /\ meta' = [revision |-> revision, ids |-> [i \in DOMAIN next |-> next[i].id]]

WriteDelta(next, before, revision) ==
    LET changed == {i \in DOMAIN next : ~\E j \in DOMAIN before : before[j] = next[i]}
        dropped == Ids(before) \ Ids(next)
        puts == {next[i].id : i \in changed}
    IN  /\ records' = [id \in (DOMAIN records \cup puts) \ dropped |->
                          IF id \in puts THEN Entry(next, id) ELSE records[id]]
        /\ meta' = [revision |-> revision, ids |-> [i \in DOMAIN next |-> next[i].id]]

\* Revisions are random ids in the code; here they count the commits.
Revision == IF meta = NoMeta THEN NoRevision ELSE meta.revision
NeverOutdated(revision) == TRUE

Current(revision) == Revision = revision

\* navigator.locks.request('diva-playlist-write')
NoLock(t) == TRUE

LockFree(t) == Locks => \A other \in Tabs \ {t} : phase[other] = "idle"

-----------------------------------------------------------------------------
(***************************************************************************)
(* The queue of a tab ("tail") and the answers.                            *)
(***************************************************************************)
Append1(t, request) == requests' = [requests EXCEPT ![t] = Append(@, request)]

IsSnapshot(answer) == answer.kind \in {"removed", "duplicates", "deleted"}

Answer(t, answer) ==
    /\ requests' = [requests EXCEPT ![t] = Tail(@)]
    /\ phase' = [phase EXCEPT ![t] = "idle"]
    /\ work' = [work EXCEPT ![t] = NoWork]
    /\ outcome' = [outcome EXCEPT ![t] = answer]
    /\ offer' = [offer EXCEPT ![t] = IF IsSnapshot(answer) THEN answer ELSE @]

Continue(t, step, what) ==
    /\ phase' = [phase EXCEPT ![t] = step]
    /\ work' = [work EXCEPT ![t] = what]
    /\ UNCHANGED <<requests, outcome, offer>>

UncheckedEffect(lib, revision, request) == Outcome(lib, request)

\* The action itself; replaceLibrary also refuses when the revision it was
\* prepared on is no longer the current one.
Effect(lib, revision, request) ==
    IF request.op = "replace" /\ request.expected # revision THEN Throws(lib)
    ELSE Outcome(lib, request)

Positional == {"remove", "reorder"}

NeverStale(t, fresh) == FALSE

\* The snapshot was read again because another tab changed it.
StalePositions(t, fresh) == fresh /\ hydrated[t] /\ Head(requests[t]).op \in Positional

\* From the snapshot to the action's outcome, without an await between.
Proceed(t, lib, revision, fresh) ==
    LET result == Effect(lib, revision, Head(requests[t]))
        stale == StalePositions(t, fresh)
        skipped == ~fresh /\ hydrated[t] /\ Head(requests[t]).op = "load"
    IN  /\ memory' = [memory EXCEPT ![t] = lib]
        /\ known' = [known EXCEPT ![t] = revision]
        /\ hydrated' = [hydrated EXCEPT ![t] = @ \/ (~stale /\ result.effect # "throws")]
        /\ \/ stale /\ Answer(t, Failed)
           \/ skipped /\ Answer(t, Done)
           \/ /\ ~stale /\ ~skipped
              /\ \/ result.effect = "saves"
                    /\ Continue(t, "writing", [NoWork EXCEPT !.lib = result.lib,
                                                            !.answer = result.answer])
                 \/ result.effect # "saves" /\ Answer(t, result.answer)

-----------------------------------------------------------------------------
(***************************************************************************)
(* The steps of a request.                                                 *)
(***************************************************************************)
WaitingForSuccess(t) ==
    open[t] /\ phase[t] = "idle" /\ requests[t] # <<>> /\ LockFree(t) /\ outcome[t] # Failed

\* The next request starts when the one before it has settled, well or not.
Waiting(t) == open[t] /\ phase[t] = "idle" /\ requests[t] # <<>> /\ LockFree(t)

\* The database holds a library.  The transaction would abort if a list of
\* meta were missing: SavedLibraryWhole says that none is.
Read(t) ==
    /\ Waiting(t) /\ meta # NoMeta /\ Readable
    /\ LET fresh == meta.revision # known[t]
       IN  Proceed(t, IF fresh THEN SavedLibrary ELSE memory[t], meta.revision, fresh)
    /\ UNCHANGED <<databaseVars, legacy, open, notices, created, left>>

\* The first time: the library of older versions is read from localStorage.
StartMigration(t) ==
    /\ Waiting(t) /\ meta = NoMeta
    /\ \/ legacy = Corrupt /\ Answer(t, Failed)
       \/ /\ legacy # Corrupt
          /\ Continue(t, "migrating", [NoWork EXCEPT !.lib = LibraryIn(legacy),
                                                     !.copied = legacy])
    /\ UNCHANGED <<databaseVars, legacy, open, memory, known, hydrated, notices, created, left>>

\* It is written, with the exact bytes beside it, if no other tab did so.
MigrationWrite(t) ==
    /\ phase[t] = "migrating"
    /\ \/ /\ Current(NoRevision)
          /\ WriteDelta(work[t].lib, <<>>, Revision + 1)
          /\ archive' = archive \cup {work[t].copied}
          /\ Continue(t, "verifying", work[t])
       \/ ~Current(NoRevision) /\ Answer(t, Failed) /\ UNCHANGED databaseVars
    /\ UNCHANGED <<legacy, open, memory, known, hydrated, notices, created, left>>

\* It is read back before the bytes it was made from are removed.
AnyBytes(t) == TRUE

SameBytes(t) == legacy = work[t].copied

MigrationVerify(t) ==
    /\ phase[t] = "verifying"
    /\ \/ /\ Readable /\ SavedLibrary = work[t].lib
          /\ legacy' = IF SameBytes(t) THEN NoLegacy ELSE legacy
          /\ Proceed(t, SavedLibrary, meta.revision, TRUE)
       \/ /\ ~(Readable /\ SavedLibrary = work[t].lib)
          /\ Answer(t, Failed)
          /\ UNCHANGED <<legacy, memory, known, hydrated>>
    /\ UNCHANGED <<databaseVars, open, notices, created, left>>

\* The transaction: it commits only over the revision the tab knows.
Write(t) ==
    /\ phase[t] = "writing"
    /\ \/ /\ Current(known[t])
          /\ WriteDelta(work[t].lib, memory[t], Revision + 1)
          /\ Continue(t, "publishing", [work[t] EXCEPT !.revision = Revision + 1])
       \/ ~Current(known[t]) /\ Answer(t, Failed) /\ UNCHANGED <<meta, records>>
    /\ UNCHANGED <<archive, legacy, open, memory, known, hydrated, notices, created, left>>

\* A quota or disk error.
WriteFails(t) ==
    /\ phase[t] \in {"migrating", "writing"} /\ left.failures > 0
    /\ Answer(t, Failed)
    /\ left' = [left EXCEPT !.failures = @ - 1]
    /\ UNCHANGED <<databaseVars, legacy, open, memory, known, hydrated, notices, created>>

\* The tab's copy follows, the other tabs are told, the caller is answered.
Nobody(t) == {}

Notified(t) == {other \in Tabs \ {t} : open[other]}

Publish(t) ==
    /\ phase[t] = "publishing"
    /\ memory' = [memory EXCEPT ![t] = work[t].lib]
    /\ known' = [known EXCEPT ![t] = work[t].revision]
    /\ notices' = notices \cup Notified(t)
    /\ Answer(t, work[t].answer)
    /\ UNCHANGED <<databaseVars, legacy, open, hydrated, created, left>>

-----------------------------------------------------------------------------
(***************************************************************************)
(* What makes a tab call the store.                                        *)
(***************************************************************************)
RoomFor(t) == open[t] /\ Len(requests[t]) < MaxRequests

\* A notice: the tab reloads.
NoticeArrives(t) ==
    /\ t \in notices /\ RoomFor(t)
    /\ notices' = notices \ {t}
    /\ Append1(t, Load)
    /\ UNCHANGED <<databaseVars, legacy, open, memory, known, hydrated, phase, work, outcome,
                   offer, created, left>>

\* A page load starts with loadPlaylists.
Open(t) ==
    /\ ~open[t]
    /\ open' = [open EXCEPT ![t] = TRUE]
    /\ Append1(t, Load)
    /\ UNCHANGED <<databaseVars, legacy, memory, known, hydrated, phase, work, outcome, offer,
                   notices, created, left>>

\* A reload, a closed tab or a crash loses what the tab held, lock included.
Close(t) ==
    /\ open[t] /\ left.closes > 0
    /\ open' = [open EXCEPT ![t] = FALSE]
    /\ memory' = [memory EXCEPT ![t] = <<>>]
    /\ known' = [known EXCEPT ![t] = NoRevision]
    /\ hydrated' = [hydrated EXCEPT ![t] = FALSE]
    /\ requests' = [requests EXCEPT ![t] = <<>>]
    /\ phase' = [phase EXCEPT ![t] = "idle"]
    /\ work' = [work EXCEPT ![t] = NoWork]
    /\ outcome' = [outcome EXCEPT ![t] = Nothing]
    /\ offer' = [offer EXCEPT ![t] = Nothing]
    /\ notices' = notices \ {t}
    /\ left' = [left EXCEPT !.closes = @ - 1]
    /\ UNCHANGED <<databaseVars, legacy, created>>

\* A tab of a version without the database saves its library.
OldTabWrites ==
    /\ left.oldWrites > 0
    /\ legacy' \in OldTabLibraries
    /\ left' = [left EXCEPT !.oldWrites = @ - 1]
    /\ UNCHANGED <<databaseVars, tabVars, notices, created>>

(***************************************************************************)
(* A user's gesture on what the tab shows.  Positional requests and        *)
(* replacements carry what the tab showed when they were made (seen) and   *)
(* what it was still doing (ahead; a tab that could not load is loading),  *)
(* for the properties only.                                                *)
(***************************************************************************)
Ask(t, gesture, request) ==
    /\ gesture \in left.may /\ RoomFor(t) /\ left.gestures > 0
    /\ Append1(t, request)
    /\ left' = [left EXCEPT !.gestures = @ - 1]
    /\ UNCHANGED <<databaseVars, legacy, open, memory, known, hydrated, phase, work, outcome,
                   notices>>

Shown(t, id) == SongsOf(memory[t], id)
Ahead(t) == {requests[t][i].op : i \in DOMAIN requests[t]}
            \cup (IF hydrated[t] THEN {} ELSE {"load"})

AskForNothingSpecial(t) ==
    /\ \/ Ask(t, "focus", Load)
       \/ ~Has(memory[t], WatchLater) /\ Ask(t, "watchLater", [op |-> "watchLater"])
       \/ \E id \in Ids(memory[t]) :
            \/ Ask(t, "delete", [op |-> "delete", list |-> id])
            \/ Ask(t, "dedupe", [op |-> "dedupe", list |-> id])
            \/ Entry(memory[t], id).linked /\ Ask(t, "unlink", [op |-> "unlink", list |-> id])
            \/ \E song \in Songs :
                \/ Ask(t, "add", [op |-> "add", list |-> id, songs |-> <<song>>])
                \/ Ask(t, "removeById", [op |-> "removeById", list |-> id, song |-> song])
                \/ id = WatchLater
                   /\ Ask(t, "toggle", [op |-> "toggle", list |-> id, song |-> song])
    /\ UNCHANGED <<offer, created>>

AskToCreate(t) ==
    /\ \E id \in Lists \ created, linked \in BOOLEAN :
        /\ Ask(t, "create", [op |-> "create", list |-> id, linked |-> linked])
        /\ created' = created \cup {id}
    /\ UNCHANGED offer

AskByPosition(t) ==
    /\ \E id \in Ids(memory[t]) :
        LET seen == Shown(t, id)
        IN  \/ \E rows \in SUBSET DOMAIN seen :
                /\ rows # {}
                /\ Ask(t, "remove", [op |-> "remove", list |-> id, rows |-> rows,
                                     seen |-> seen, ahead |-> Ahead(t)])
            \/ \E from, to \in DOMAIN seen :
                /\ from # to
                /\ Ask(t, "reorder", [op |-> "reorder", list |-> id, from |-> from, to |-> to,
                                      seen |-> seen, ahead |-> Ahead(t)])
    /\ UNCHANGED <<offer, created>>

\* The undo of the last removal ("health" ones allow doubles) or deletion.
AskToUndo(t) ==
    /\ \/ offer[t].kind = "deleted"
          /\ Ask(t, "undelete", [op |-> "undelete", snapshot |-> offer[t]])
       \/ offer[t].kind = "removed"
          /\ \/ Ask(t, "undo", [op |-> "undo", snapshot |-> offer[t],
                                allowDuplicateIds |-> FALSE])
             \/ Ask(t, "health", [op |-> "undo", snapshot |-> offer[t],
                                  allowDuplicateIds |-> TRUE])
       \/ offer[t].kind = "duplicates"
          /\ Ask(t, "undo", [op |-> "undo", snapshot |-> offer[t],
                             allowDuplicateIds |-> TRUE])
    /\ offer' = [offer EXCEPT ![t] = Nothing]
    /\ UNCHANGED created

\* The refresh of a smart list; a sync of a linked one, which writes back the
\* rows the tab holds when the remote list could not be fetched.
AskToRefresh(t) ==
    /\ \E id \in Ids(memory[t]) :
        \/ \E songs \in RemoteSongs :
            \/ Ask(t, "refresh", [op |-> "refresh", list |-> id, songs |-> songs])
            \/ Entry(memory[t], id).linked
               /\ Ask(t, "sync", [op |-> "sync", list |-> id, songs |-> songs])
        \/ Entry(memory[t], id).linked
           /\ Ask(t, "failedSync", [op |-> "sync", list |-> id, songs |-> Shown(t, id)])
    /\ UNCHANGED <<offer, created>>

\* executeFullBackupImport, after its load: the backup's library, with this
\* library's watch-later list if it has none.
WithWatchLater(backup, lib) ==
    IF Has(backup, WatchLater) \/ ~Has(lib, WatchLater) THEN backup
    ELSE <<Entry(lib, WatchLater)>> \o backup

AskToReplace(t) ==
    /\ hydrated[t]
    /\ \E backup \in Backups :
        Ask(t, "replace", [op |-> "replace", lib |-> WithWatchLater(backup, memory[t]),
                           expected |-> known[t], seen |-> memory[t]])
    /\ UNCHANGED <<offer, created>>

-----------------------------------------------------------------------------
StartsMigrated(libraries) ==
    \E lib \in libraries :
        /\ meta = [revision |-> 1, ids |-> [i \in DOMAIN lib |-> lib[i].id]]
        /\ records = [id \in Ids(lib) |-> Entry(lib, id)]
        /\ legacy = NoLegacy

StartsLegacy(contents) ==
    /\ legacy \in contents
    /\ meta = NoMeta
    /\ records = <<>>

\* createStableId never makes an id of these again.
KnownIds ==
    {WatchLater} \cup UNION {Ids(LibraryIn(bytes)) :
        bytes \in OldTabLibraries \cup Backups
                 \cup UNION {s.libraries \cup s.legacy : s \in Scenarios}}

Init ==
    /\ \E s \in Scenarios :
        /\ StartsMigrated(s.libraries) \/ StartsLegacy(s.legacy)
        /\ left = s.budget
    /\ archive = {}
    /\ open = [t \in Tabs |-> FALSE]
    /\ memory = [t \in Tabs |-> <<>>]
    /\ known = [t \in Tabs |-> NoRevision]
    /\ hydrated = [t \in Tabs |-> FALSE]
    /\ requests = [t \in Tabs |-> <<>>]
    /\ phase = [t \in Tabs |-> "idle"]
    /\ work = [t \in Tabs |-> NoWork]
    /\ outcome = [t \in Tabs |-> Nothing]
    /\ offer = [t \in Tabs |-> Nothing]
    /\ notices = {}
    /\ created = KnownIds

RequestStep(t) ==
    Read(t) \/ StartMigration(t) \/ MigrationWrite(t) \/ MigrationVerify(t)
    \/ Write(t) \/ Publish(t)

Gesture(t) ==
    AskForNothingSpecial(t) \/ AskToCreate(t) \/ AskByPosition(t) \/ AskToUndo(t)
    \/ AskToRefresh(t) \/ AskToReplace(t)

Next ==
    \/ \E t \in Tabs :
        RequestStep(t) \/ WriteFails(t) \/ NoticeArrives(t) \/ Open(t) \/ Close(t) \/ Gesture(t)
    \/ OldTabWrites

Fairness == \A t \in Tabs : WF_vars(RequestStep(t)) /\ WF_vars(NoticeArrives(t))

Spec == Init /\ [][Next]_vars /\ Fairness
-----------------------------------------------------------------------------
(***************************************************************************)
(* Types.  A row is a song, or the undefined a reorder past the end makes  *)
(* (ReorderSongs); the ids of a library differ.                            *)
(***************************************************************************)
TypeOK ==
    /\ meta = NoMeta \/ meta \in [revision : Nat \ {0}, ids : Seq(Lists)]
    /\ \A id \in DOMAIN records : records[id] \in Playlist /\ records[id].id = id
    /\ legacy \in Unreadable \/ legacy \in Library
    /\ open \in [Tabs -> BOOLEAN] /\ hydrated \in [Tabs -> BOOLEAN]
    /\ known \in [Tabs -> Nat]
    /\ \A t \in Tabs :
        /\ memory[t] \in Library /\ DistinctIds(memory[t])
        /\ work[t].lib \in Library /\ DistinctIds(work[t].lib)
        /\ phase[t] \in {"idle", "migrating", "verifying", "writing", "publishing"}
        /\ phase[t] # "idle" => requests[t] # <<>>
        /\ Len(requests[t]) <= MaxRequests
    /\ notices \subseteq {t \in Tabs : open[t]}

(***************************************************************************)
(* The lists the current record names are all there: a write that puts     *)
(* only the changed lists and deletes only the dropped ones never leaves   *)
(* one out, whatever the tabs did before.                                  *)
(***************************************************************************)
SavedLibraryWhole == meta # NoMeta => Readable /\ DOMAIN records = ToSet(meta.ids)

(***************************************************************************)
(* A tab that knows the current revision holds the current library: what   *)
(* readPlaylistSnapshot relies on when it skips the read, and what the     *)
(* difference of the next write is computed against.                       *)
(***************************************************************************)
MemoryMatchesRevision ==
    \A t \in Tabs :
        meta # NoMeta /\ known[t] = meta.revision => memory[t] = SavedLibrary

(***************************************************************************)
(* The library behaves like one atomic library: no edit of a tab is lost   *)
(* to another tab's, and a request answered "failed" has done nothing,     *)
(* with or without Web Locks.                                              *)
(***************************************************************************)
Published(t) == phase[t] = "publishing"

Promise ==
    INSTANCE AtomicLibrary WITH
        lib <- IF meta = NoMeta THEN LibraryIn(legacy) ELSE SavedLibrary,
        pending <- [t \in Tabs |-> IF Published(t) THEN Tail(requests[t]) ELSE requests[t]],
        outcome <- [t \in Tabs |-> IF Published(t) THEN work[t].answer ELSE outcome[t]]

ActsAsOneLibrary == Promise!Spec

(***************************************************************************)
(* A removal or a move asked for in a tab that has loaded the library and  *)
(* was doing nothing else works on the very list the user saw, or is       *)
(* refused: another tab's edit in between is noticed.                      *)
(***************************************************************************)
Commits(t) == phase[t] = "writing" /\ phase'[t] = "publishing"
Committed(t) == Head(requests[t])

PromptPositionsHold ==
    [][\A t \in Tabs :
        Commits(t) /\ Committed(t).op \in Positional /\ Committed(t).ahead = {}
        => SongsOf(SavedLibrary, Committed(t).list) = Committed(t).seen]_vars

(***************************************************************************)
(* "rejects a stale row index instead of deleting a different song after   *)
(* another tab edits the list" (src/services/playlistPersistence.test.ts): *)
(* a removal asked for while this tab has no other edit waiting removes    *)
(* the songs the user saw at these rows, reloads waiting or not.           *)
(***************************************************************************)
RemovesWhatWasSeen(seen, list, rows) ==
    rows \subseteq DOMAIN list /\ \A i \in rows : list[i] = seen[i]

StaleRowsRejected ==
    [][\A t \in Tabs :
        Commits(t) /\ Committed(t).op = "remove" /\ Committed(t).ahead \subseteq {"load"}
        => RemovesWhatWasSeen(Committed(t).seen, SongsOf(SavedLibrary, Committed(t).list),
                              Committed(t).rows)]_vars

(***************************************************************************)
(* A restored backup replaces only the library it was prepared on: an edit *)
(* another tab made while the backup was read is not overwritten.          *)
(***************************************************************************)
RestoreOverwritesNothingNew ==
    [][\A t \in Tabs :
        Commits(t) /\ Committed(t).op = "replace" => SavedLibrary = Committed(t).seen]_vars

(***************************************************************************)
(* Adding, removing and undoing removals never leave a song twice in a     *)
(* list that had it once: an undo after the song was added again, in this  *)
(* tab or another, or after another undo, does not double it.              *)
(***************************************************************************)
NoSongTwice ==
    meta # NoMeta =>
        \A i \in DOMAIN SavedLibrary : \A song \in Songs :
            Copies(song, SavedLibrary[i].songs) <= 1

(***************************************************************************)
(* The migration never loses bytes: what it removes from localStorage is   *)
(* archived, also when a tab of an older version writes meanwhile.         *)
(***************************************************************************)
LegacyBytesKept ==
    [][legacy' = NoLegacy /\ legacy # NoLegacy => legacy \in archive]_vars

(***************************************************************************)
(* With Web Locks no tab ever finds its revision outdated when it writes:  *)
(* only a failing disk refuses an edit.                                    *)
(***************************************************************************)
LockedWritesSucceed ==
    Locks => \A t \in Tabs :
        /\ phase[t] = "migrating" => meta = NoMeta
        /\ phase[t] = "verifying" => SavedLibrary = work[t].lib
        /\ phase[t] = "writing" => Current(known[t])

(***************************************************************************)
(* Every request is answered in the end, and when nobody edits any more    *)
(* every tab that has loaded the library shows it as it is saved.  A tab   *)
(* closed between its commit and its notice tells nobody, hence the first  *)
(* disjunct: the others then catch up at their next focus.                 *)
(***************************************************************************)
RequestsAnswered == \A t \in Tabs : (requests[t] # <<>>) ~> (requests[t] = <<>>)

SomeTabClosed == \A s \in Scenarios : left.closes < s.budget.closes

TabsCatchUp ==
    <>[](SomeTabClosed \/ \A t \in Tabs : hydrated[t] => memory[t] = SavedLibrary)
=============================================================================
