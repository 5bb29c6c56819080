# Verification of diva-player

TLA+ models of diva-player (a React/TypeScript music player with a C# API), the
TLC runs that check them on small instances, and TLAPS proofs of what matters
most for every instance. `PROJECT.json` lists the runs, the mutants each property
is known to reject, the map from definitions to source lines, the hazards and the
theorems.

Run, in this directory:

    tlc -workers 2 -config MCPlayerQueue.cfg MCPlayerQueue.tla
    tlc -workers 2 -config MCSearchCache.cfg MCSearchResponseCache.tla
    tlapm PlayerStore_proofs.tla

## 1. Inventory

| Component | Source | State | Operations | Interacts with |
|---|---|---|---|---|
| Playback queue of a tab | `src/stores/playerStore.ts`, `src/utils/queueUtils.ts`, `src/services/playerQueueCache.ts` | queue, index, sources, current song, shuffle and the order before it, loop mode, a pending skip timer, the saved queue in localStorage, the restoration | play, next, previous, jump, queue, remove, restore, shuffle, deduplicate, close; restore after a reload | the refill hook and the toasts call it back; other tabs write the same localStorage key |
| Undo toasts, watch actions | `src/stores/toastStore.ts`, `src/components/watch/watchActions.ts` | toasts shown or waiting, the sequence whose close can still be undone | show, replace, dismiss, undo | queue; accounting waits for the offer to end |
| Automatic refill | `src/hooks/useAutoQueue.ts`, `src/utils/autoQueuePolicy.ts`, `src/stores/autoPlaySessionStore.ts` | a request in flight with the playback it is for | ask, append the answer | queue |
| Accounting of playbacks | `src/App.tsx` (85-228) | counted sequence, pending close, active event | effects of every render, pagehide | queue, history |
| Playback ownership | `src/services/playbackOwnership.ts` | this tab's state and clock, the remote owner and its expiry | claim, release, heartbeat, expiry, message | other tabs over BroadcastChannel and storage events |
| Playlist library | `src/stores/playlistStore.ts`, `src/services/playlistDatabase.ts`, `src/services/librarySync.ts` | lists and folders in IndexedDB with a revision, a copy and a queue of requests per tab | some twenty actions, each a transaction; migration from localStorage | other tabs over BroadcastChannel, backup, synchronisation |
| Listening history | `src/stores/historyStore.ts`, `src/services/history*.ts` | play events, derived statistics, receipts of unfinished finalizations | append, finalize, rebuild, clear, import | accounting, backup |
| Full backup | `src/services/fullBackup.ts` | the sections written so far of a restore | export, import, roll back | every store |
| Playlist synchronisation | `src/services/youtubePlaylistSync.ts`, `src/services/nicoPlaylistSync.ts` | pending synchronisations | due, fetch, apply | library |
| Request plumbing | `src/utils/asyncTtlCache.ts`, `requestScheduler.ts`, `progressivePageFetch.ts`, `crossTabLock.ts` | in-flight requests, priorities, leases | get, abort, clear, acquire | every fetch |
| Embedded players | `src/components/player/PlayerEmbed.tsx` | third-party iframes | their events | queue |
| Search and recommendation in the client | `src/search/`, `src/stores/searchStore.ts` | ranked lists | pure ranking | - |
| User interface | `src/pages/`, `src/components/`, `src/routes/` | what is shown | gestures | all stores |
| API bulkhead and database budget | `backend/api/.../Middleware/` | slots per lane, waiting requests | admit, wait, time out, release | every request |
| Caches of the API | `SearchResponseCache.cs`, `RecommendationObjectCache.cs` | entries, shared loads with their waiters | get, load, cancel, publish | search |
| Publication of recommendations | `RecommendationPublicationGuard.cs` | readers of one advisory-lock session | enter, leave, publish, dispose | database |
| Maintenance, warmup, readiness | `ApiMaintenanceExecutionGate.cs`, ... | one gate | probe | - |
| Recommendation queries | `RecommendService.cs`, ... | none | queries | database, vector store |
| Database migrations | `backend/database/migrate.sh` | recorded start and end of each migration | apply, resume, refuse | database |
| Edge functions | `functions/` | none | proxy | API |
| Release scripts | `scripts/` | releases and their aliases | deploy, promote, roll back | hosting |

What is hard in it, per component:

- **Queue**: three parallel structures (rows, sources, index) and a saved copy,
  adjusted by hand in some fifteen handlers; an asynchronous restoration whose
  awaits the user, timers and other tabs interleave with; undo closures that
  outlive the state they were made in. Correct means: the saved copy is what the
  user has, the current row stays current, undo is exact, nothing comes back
  after a close, a saved queue is never lost to its own restoration.
- **Library**: several tabs over one database, in browsers with and without Web
  Locks, with crashes between any two steps. Correct means: it acts as one atomic
  library, deltas never corrupt it, an edit by position hits the row the user
  saw, the migration loses nothing, requests are answered.
- **History and accounting**: events appended and finalized out of order, at
  pagehide, and again at the next start. Correct means each playback counted once.
- **Ownership**: two duplicated, unordered channels and timers. Correct means
  that in the end one tab plays.
- **API**: timeouts and aborts against semaphores, shared loads and advisory
  locks. Correct means slots given back exactly, no publication of an abandoned
  load, no reader during a publication.
- **Migrations, backup, release**: failures between the steps.

Sections 2 to 7 say what of this is modelled, sections 12 and 13 what is not and what
comes next.

## 2. The playback queue: `QueueOps`, `PlayerStore`

`QueueOps` holds the pure operators on rows and sources (`insertIntoQueue`,
`mapSourcesBySongId`, `dedupeQueueBySongId`, shuffles, saved sources).
`PlayerStore` is the store of one tab; each action is a whole handler or callback.

| In the model | In the code |
|---|---|
| `queue`, `queueIndex`, `queueSources`, `currentSong`, `playbackSequence`, `shuffleEnabled`, `originalQueue`, `loopMode` | the fields of the store (positions count from 1; 0 is -1 in the code, or 0 with an empty queue) |
| `stored` | localStorage `diva_playerQueue` |
| `restore`, `snapshot`, `awaited`, `loaded` | where `restoreStoredPlayerQueue` stands (one value per await), the saved text it compares with, the id it fetches, its `byId` map; `queueRestoring` is `restore # "idle"` |
| `skips` | calls of `setTimeout(next, 500)` not fired yet |
| `refill` | the `expectedPlayback` of the autoplay request in flight |
| `toasts`, `undoableCloseSequence` | undo toasts with what their closures captured; the offer App.tsx waits for |
| `NextSong`, `PreviousSong`, `JumpToIndex`, `PlayDirect`, `SetQueue`, `SetQueueShuffled`, `AddToQueue`, `RemoveFromQueue`, `RemoveDuplicates`, `ShuffleOn/Off`, `ToggleLoopMode`, `ClosePlayer` ... | the store's operations of those names, their saves included |
| `ClosePlayerWithUndo`, `UndoClose`, `UndoRemove`, `DismissToast`, `PageHide` | `watchActions.ts`, `toastStore.ts`, pagehide in `App.tsx` |
| `CacheRead`, `CurrentArrives`, `PageArrives`, `RestoreCommits`, `RestoreGivesUp` | the code between two awaits of the restoration |
| `SkipTimerFires`, `RequestRefill`, `RefillArrives`, `OtherTabSaves`, `Reload` | timers, answers, other tabs, page loads |

The revision counter `playerQueuePersistenceRevision` is not a variable: any save
that is not the restoration's own ends the restoration for good, which is
`restore' = "idle"`.

Left out: which video of a song plays, volume, seek, drawers; the title and seed of
the queue and the autoplay session, which no modelled guard reads (`setRootSeed` is
always followed by `setQueue`); the legacy format of the saved queue; `clearQueue`
and `replaceQueueList`, which only tests call. Callers never pass an empty list, so
`Playlists` holds none.

### Runs

Songs `a` and `b` play, `u` has no playable video. The list offered is `<<u, a>>`: a
head that cannot play exercises the skip timer and the unsaved move; two playable
songs are enough to tell the current row from another, and duplicates arise by
queueing. Every bound is a constant: `MaxQueue` rows, `MaxSequence` playbacks,
`MaxSkips` timers, `MaxToasts`, `MaxReloads`; pages of one song, so that a
restoration has several.

| Run | Question | Bounds that matter |
|---|---|---|
| `player_queue` | rows queued, refilled, removed, hidden, put back around a playing song, and closing with undo beside another toast, refill, timer and pagehide: saved copy, position, order and undo | the constraint `QueueBounds`: 4 rows (two before or after the current one, and a copy) and 1 toast; while a close can be undone 2 rows, and a second toast of another kind when nothing plays, so that one waits; a timer or a refill, not both |
| `player_session` | a reload and its restoration while the user plays, queues, shuffles, closes and another tab writes; three loop modes | 1 reload, 3 rows, so at least 2 pages |
| `player_cold_add` | violation, section 10 | 1 reload |

`EditsKeepCurrentRow`, `QueuedSongsPlayNext`, `RemovalUndoable`,
`RearrangingKeepsPlaying`, `RestoringKeepsSaved` and `RestorePreservesSaved` relate
the state before a step to the one after; `SavedQueueCurrent`,
`SavedPositionCurrent` and `OfferHasToast` relate two structures in every state;
`ClosedStaysClosed` forbids every callback to revive a closed player.

`RestoringQueueComesBack` says that a restoration under way publishes its queue whatever the
user does to that queue meanwhile: every move through it and every song added to it rewrites
the saved text the restoration compares after its awaits, and must remember the new text.
It ends otherwise only if the user plays something else or closes the player, another tab
saves, or a song cannot be fetched.

**Fairness**: `WF_vars(RestoreStep)`, needed by `RestoringQueueComesBack` alone. The awaits of a
restoration are an IndexedDB read and fetches with a timeout, which settle; the
code after each await runs to the next one. Nothing is assumed of users, timers,
refills or other tabs. These runs check deadlock too.

## 3. The playlist library: `PlaylistOps`, `AtomicLibrary`, `PlaylistLibrary`

`PlaylistOps` gives each action of `playlistStore.ts` as a function from the library
it finds to its outcome: the library to commit, nothing, or a TypeError.
`AtomicLibrary` is the promise: one library, each request carried out at one instant
in its tab's order and answered with what it did, or answered "failed" and without
effect; its parameter `Outcome` says what a request does to the library it finds, and
`PlaylistLibrary` gives it that of `PlaylistOps`. `PlaylistLibrary` is what the code does:
the wrapper around every action (lines 702-773), the database and the notices.

| In the model | In the code |
|---|---|
| `meta`, `records`, `archive` | the IndexedDB records `current`, the `playlists` store, `legacy-localStorage` |
| `legacy` | localStorage `diva_playlists` of older versions |
| `memory`, `known`, `hydrated` | a tab's copy, `playlistDatabaseRevision`, `hydrated` |
| `requests`, `phase`, `work` | the promise chain `tail`; where its head stands; what it is about to write |
| `offer` | the snapshot captured by the last undo toast |
| `notices` | BroadcastChannel messages not delivered yet |
| `Read` | lock, read, stale-position guard and action: no await between the read's completion and the action's end |
| `StartMigration`, `MigrationWrite`, `MigrationVerify` | the migration, one step per await |
| `Write`, `WriteFails`, `Publish` | the compare-and-set transaction; a quota or disk error; `set`, the notice and the answer |
| `NoticeArrives`, `Open`, `Close`, `OldTabWrites`, the `Ask...` actions | librarySync, page loads, crashes, tabs of an older version, gestures of the pages |

Revisions are random ids in the code and count the commits here. The ghost fields
`seen` and `ahead` of a request (what the tab showed and had waiting when the user
acted) serve properties only; no action reads them.

The ids of a library are taken to differ (`LibrariesAssumption`). Every id is made by
`createStableId`, but a backup file or the bytes of an older version are not checked for
repeated ones (`fullBackup.ts:370-374` and the migration do not look, and
`playlistDatabase.ts:74-78` keeps one of them): libraries come from this app.

Left out: folders, names, covers and dates; smart rules, and what `loadPlaylists` does beside
creating the watch-later list: it drops the list of a feature that is gone and normalizes smart
rules (`playlistStore.ts:243-257`); `sortSongs` (no caller);
lists created with songs in them; the merge mode of a backup restore (a backup's
library stands for whatever library the restore prepared); the fallback for browsers without IndexedDB;
failures to open or read the database; the storage event, which doubles the notice.
A tab is taken to listen for notices from its opening. The code starts listening
after its first load and then compares the revision key of localStorage, which makes
up for notices in between.

### Runs

Two tabs, two songs, the watch-later list and up to three others. Two tabs
are enough for a lost update, a stale copy and a lock; a third would add only
repetitions, since tabs interact through the database and the lock alone. Bounds: two
requests waiting per tab (`MaxRequests`), and the `Scenarios`: each is a library to start
from, the gestures users may make and a budget of gestures, closed tabs, writes of an old
tab and failed writes. Once it is spent only the requests and notices under way are left,
so the graphs are finite without further constraints. Deadlock is not checked: when the
budget is spent and all is answered, users may stop.

| Run | Question | Bounds |
|---|---|---|
| `library_atomic` | do two tabs without Web Locks act as one atomic library (refinement), with whole deltas and honest positions? can any order of additions, removals and undos double a song? | all 18 gestures, any 2 of them, 1 crash, from a saved library with a linked list and from an older version's in localStorage; and 4 removals by row, additions and undos of two tabs on one list |
| `library_locked` | migration, failures, liveness with Web Locks | localStorage empty, corrupt or with a library; 2 gestures, 1 crash, 1 failed write, 1 write of an old tab |
| `library_stale_row` | violation, section 10 | 2 removals |

The tabs are interchangeable, so the runs without liveness use symmetry; liveness and
symmetry do not mix, and `library_locked` has none.

**Fairness**: `WF` of `RequestStep(t)` and of `NoticeArrives(t)` for each tab. IndexedDB
transactions complete or abort and the promise chain runs on; a BroadcastChannel
delivers to open pages. Web Locks are granted in order, which is more than weak
fairness; weak fairness suffices in these runs because a holder's work is
finite. Closing, failing and gestures are not fair. `TabsCatchUp` excludes runs in
which a tab was closed: one that goes between its commit and its notice tells
nobody, and the other tabs learn of the change at their next focus.

## 4. The caches of the API: `SearchResponseCache`

The single flight of `Services/SearchResponseCache.cs`, for one key. Search responses and
rankings run the same code twice; keys share only the size limit, which is the choice of
`Publish` to store nothing. A step is one access to the memory cache, one operation of the
concurrent dictionary, or one critical section of a flight's gate; threads interleave
between them.

| In the model | In the code |
|---|---|
| `request` | where a call of `GetOrCreateAsync` stands, with its local `flight` |
| `flights` | each `LoadFlight`: waiters, its gate (`_acceptingWaiters`), `_abandoned`, `_loaderCancellation`, its lazy `_task`, and how far the observer of its end is |
| `loads` | the entry of the dictionary |
| `cache` | the entry of the memory cache, its freshness and the backoff after a failed refresh |
| `GetFlight`, `Join`, `Replace`, `Add`, `FirstWaiter`, `Start` | `AcquireFlight`, access by access |
| `Leave`, `CancelLoader` | `ReleaseWaiter` and the cancellation outside the gate |
| `RunScheduled`, `LoaderReturns`, `Publish`, `Return` | `LoadAfterCacheRecheckAsync`, `LoadAndStoreAsync` |
| `MarkCompleted`, `RemoveFlight` | the observer of the task, `CompleteFlight` |

Left out: entry sizes and telemetry; `RecommendationObjectCache`, a map without shared loads.

Run `search_cache`: three calls, one of them the warmup that forces a load, from an empty
cache and from a stale entry. Two calls race for a flight and a third finds what they left;
a call makes at most one flight, so nothing else needs a bound. Deadlock is not checked:
answered calls stop. No fairness is assumed, and no liveness claimed.

- `NobodyJoinsADoomedLoad`: who has not been aborted does not wait for a load being
  cancelled, nor is answered with somebody else's cancellation.
- `OneLoadAtATime`: of the wanted loads at most one runs its query.
- `StoresWhatIsWanted`: a stored entry was wanted, and does not replace a fresh one unless
  the caller forced it.
- `RegisteredLoadIsWatched`: no load stays registered with nobody left to remove it.

## 5. A request through the API: `ApiRequests`

The bulkhead (`ApiBulkheadMiddleware.cs`), the guard that keeps recommendations away from a
publication (`RecommendationPublicationMiddleware.cs`, `RecommendationPublicationGuard.cs`)
and the cached queries of `DbService.cs` are one module, because their promises meet: the
holder of the guard's gate waits for the publisher, for the lock of the generation and,
through the holder of that lock, for a database connection. An action is the code between
two awaits that can suspend.

| In the model | In the code |
|---|---|
| `bulkhead`, `connections` | free permits of the semaphores of the lanes, of the aggregate and of the foreground share of the pool |
| `guard` | `_stateGate`, `_session`, `_activeReaders` |
| `known` | `DbService`'s copy of the generation, its expiry and its lock |
| `objects` | the rows cached under each generation |
| `request[r].laneExecuting` ... | the locals `laneExecuting` and `aggregateExecuting` that the `finally` of `InvokeAsync` reads, the place in the lane, and the connection taken from `ApiDatabaseConnectionBudget` |
| `Arrive` ... `Release` | `InvokeAsync` of the bulkhead |
| `EnterGate` ... `Exit` | `TryEnterAsync`, `ExitAsync` |
| `UseKnownGeneration` ... `CacheRows`, `FailQuery` | an endpoint's query: a copy or a read of the generation, then cached or fetched rows |
| `Announce`, `TakeLock`, `Publish`, `Finish`, `Die` | the publisher, which is not in the repository: what the guard expects of it, a marker row, an exclusive advisory lock and a new generation |

Left out: the bypass lane, which is not limited; the connection shares of readiness and
maintenance; the disposal of the guard at shutdown. One query stands for all of an endpoint, since it
comes at any time after the request was let in.

Run `api_requests`: two connections with any number of requests each, a guarded endpoint in
a lane of two and another in a lane of one with one waiting place, two aggregate permits and
two connections, one publication that changes something (others may die or change nothing).
Two requests are enough for one to hold what the other waits for and for a last reader to
meet a refused one; generations 0 and 1 for a stale copy. Deadlock is checked.

**Fairness**: `WF` of what nothing else can disable (a permit taken when it is free, the
timeout of a wait in the bulkhead, the `finally`, an answer of the database, the failure of a
broken session), `SF` of the waits for a semaphore or an advisory lock, which serve their
queues in order, and `WF`/`SF` of the publisher ending and taking its lock. Requests, aborts,
failures, expiries and announcements are not fair. `RequestsAnswered` watches one of the
interchangeable requests.

## 6. Plays and their history: `PlayHistory`

`PlayerTracker` (`App.tsx`), `historyStore.ts`, `historyFinalization.ts` and the event log in
IndexedDB, over what the player store may do.

React renders the updates of one handler together and runs the effects before the next task:
an action is a handler with the effects of the render it causes (`Rendered`), each effect a
function from the refs and the history to what it leaves of them, run if its dependencies
differ. Transactions commit one by one in the order the page made them. Events are named by
the order of their appends.

| In the model | In the code |
|---|---|
| `player`, `offer` | what `PlayerTracker` reads of the stores; the closed play a toast offers. `offer.counted` and `offer.returned` are ghosts: how often that play had been counted, and whether a removed row was brought back since |
| `tracker` | `prevSongRef`, `finalizedPlaybackSequenceRef`; `counted` is a ghost |
| `history` | the active event, whether its key is known, details that wait for the key, transactions under way |
| `log`, `receipts` | IndexedDB; localStorage |
| `recovery` | a starting page, of this tab or another, that works through the receipts |
| `lost` | ghost: what a transaction that the unload interrupted would have written |
| `CloseWithUndo`, `ToastGoes`, `UndoClose` | `closePlayerWithUndo` with its toast, `restoreClosedPlayer` |
| `RemoveOnlyRow`, `RestoreQueueItem` | `removeFromQueue` of the row that plays with no other left, `restoreQueueItem` with nothing playing; with other rows they are `PlaySong` or change nothing here |
| `SongEffect`, `UndoEffect`, `PositionEffect` | the effects of `App.tsx` |
| `PageHide`, `Return`, `Unload`, `Crash`, `Start` | pagehide, pageshow from the bfcache, the end and the start of a page |

A toast may offer to undo the removal of any song at any time: which rows there are is the
queue's affair (`PlayerStore`), and a row can be added and removed without the tracker seeing it.

Left out: the statistics derived from the events, import and export, the list of entries
shown, failing transactions, what feedback and bandits do with a counted play; a second toast of
a close that waits behind another toast (here a new one always takes the place of the old).

Run `play_history`: two songs, so that another than the closed one can come back, two plays beside
the restored one, two events, positions 0 and 1, two troubles among starts, hides and clearings; by
the constraint `FewAtOnce` plays, troubles and a second song add up to three. Two plays are enough
for a finalization to meet the next append, two hides for a newer receipt, a hide and a start for a
recovered one; a second song matters within one playback sequence. No write under way is held up by
the constraint, so it does not touch the fairness. `play_history_receipt` has one song and one
trouble. Deadlock is not checked: bounds may stop the page.

- `PlaybackCountedOnce`, `EndedPlaysCounted`: every play that is over is counted, once, except
  the one whose close can still be undone.
- `OfferedPlaysUncounted`: while the undo of a close would go on with its play, nothing has
  counted that play since the close. A removed row that was brought back meanwhile is the
  exception (`offer.returned`, section 11).
- `ReceiptsOutliveTheirUse`, `CountedPlaysReachTheLog`: receipts and details are not lost.

**Fairness**: `WF_vars(Commit)`, as IndexedDB carries out what a living page asks; used by
`CountedPlaysReachTheLog` alone, which is checked for the first event, whose play every other one
may follow.

## 7. Which tab plays: `PlaybackOwnership`

`services/playbackOwnership.ts`, the pause and claim of `PlayerEmbed.tsx` and the autoplay
decision of `WatchPage.tsx`.

| In the model | In the code |
|---|---|
| `state`, `claimAge`, `timer` | the tab's ownership state, the `claimedAt` it knows (as an age), `remoteExpiryTimer` |
| `channel`, `events`, `stored` | BroadcastChannel messages and storage events on their way, the last value in localStorage |
| `Load`, `LoadSongPage` | `readInitialOwnership`, without and with the autoplay of the song page |
| `Play`, `Pause`, `ClosePlayer`, `Unload`, `Crash` | gestures and ends of a page, with their claim or release |
| `Heartbeat`, `HearChannel`, `HearEvent`, `TimerFires`, `GetState`, `Tick` | interval, listeners, timer, read of an expired state, time |

Left out: the bfcache, browsers without localStorage or BroadcastChannel, a clock set back.

Run `playback_ownership`: three tabs, three gestures, two messages under way per tab and way,
a claim stale after one tick. A third tab is what a late release needs to mislead a second
one. A heartbeat starts only when the tab's last message has arrived, which is less often than
the interval timer of the code has it; this bounds the messages under way. Time is free, so the
ratio of heartbeat to expiry (3 s to 10 s) is not modelled, and no property depends on it. Deadlock is not checked. The specification treats
tabs alike, so the two liveness properties are checked for fixed tabs. **Fairness**: `WF` of
time, of each listener, of the expiry timer and of the heartbeat: browsers deliver messages
and keep the timers of a tab that sounds.

- `TwoPlayersAreTold`: two tabs play only while a claim that pauses one is on its way.
- `PlayerIsSeenByOther`: an open tab comes to know a player that goes on, also after a late
  release has told it otherwise.
- `SilentOwnerForgottenByTab`: no tab waits for ever for an owner that is gone.

## 8. What is proved

`QueueOps_proofs` proves what the operators return: `InsertUndoesRemove` and
`RemoveUndoesInsert` (removing and putting back are inverse), `RowAfterInsert` and
`RowAfterRemove` (where a row goes meanwhile), `ManualInsertIndexExact` (the insertion point
is the first recommendation after the current row, or the end), types and lengths of
splices, shuffles and rearranged sources.
`SequenceFacts` has what several modules need about sequences in general: their domains,
what `Append`, `Tail`, concatenation, `EXCEPT` and removals leave of them, and
`LeastNatural`, by which the other modules argue from a least counterexample.

The other modules prove theorems of specifications, for every value of the constants:

| Module | Theorem | States |
|---|---|---|
| `PlayerStore_proofs` | `Invariance`, `TypeCorrect` | the inductive invariant, `[]TypeOK` |
| | `SavedQueueIsCurrent` | `[]SavedQueueCurrent` |
| | `ClosedPlayerStaysClosed` | `ClosedStaysClosed` |
| | `RestorationPreservesSaved` | `RestorePreservesSaved` |
| | `RemovalsAreUndoable` | `RemovalUndoable` |
| | `OffersHaveToasts` | `[]OfferHasToast` |
| | `SavedPositionIsCurrent` | `[]SavedPositionCurrent` |
| | `EditsKeepTheCurrentRow` | `EditsKeepCurrentRow` |
| | `QueuedSongsPlayBeforeAuto` | `QueuedSongsPlayNext` |
| | `RearrangingNeverInterrupts` | `RearrangingKeepsPlaying` |
| | `RestoringKeepsTheSavedList` | `RestoringKeepsSaved` |
| `SearchResponseCache_proofs` | `Invariance` | the inductive invariant, types included |
| | `NobodyIsDoomed` | `[]NobodyJoinsADoomedLoad` |
| | `SingleFlight` | `[]OneLoadAtATime` |
| | `LoadsAreWatched` | `[]RegisteredLoadIsWatched` |
| | `StoredWasWanted` | `StoresWhatIsWanted` |
| `PlayHistory_proofs` | `Invariance` | the inductive invariant |
| | `CountedOnce` | `[]PlaybackCountedOnce` |
| | `EndedCounted` | `[]EndedPlaysCounted` |
| | `OffersStandUncounted` | `[]OfferedPlaysUncounted` |
| | `ReceiptsStayNeeded` | `ReceiptsOutliveTheirUse` |
| `ApiRequests_proofs` | `TypeCorrectness` | `[]TypeOK` |
| | `PermitsAreConserved` | `[]PermitsConserved` |
| | `SessionExactlyWhileNeeded` | `[]SessionAsLongAsNeeded` |
| | `OneGeneration` | `[]OneGenerationPerRequest` |
| `PlaylistLibrary_proofs` | `TypesAreKept` | `[]TypeOK` |
| | `SongsStayOnce` | `[]NoSongTwice`, if `GivenOnce` |
| | `DatabaseStaysWhole` | `[]SavedLibraryWhole` |
| | `CopiesAreCurrent` | `[]MemoryMatchesRevision` |
| | `LocksSuffice` | `[]LockedWritesSucceed` |
| | `MigrationKeepsBytes` | `LegacyBytesKept` |
| | `PositionsAreSeen` | `PromptPositionsHold` |
| | `RestoresOverwriteNothingNew` | `RestoreOverwritesNothingNew` |
| | `ImplementsOneLibrary` | `ActsAsOneLibrary`, if `OldTabLibraries = {}` |
| `PlaybackOwnership_proofs` | `TypeCorrect` | `[]TypeOK` |
| | `TwoPlayersAreAlwaysTold` | `[]TwoPlayersAreTold` |

They rest on the named assumptions of the modules and on nothing else.
`PlayerStore`: `SongsAssumption` (the absent song is no song), `BoundsAssumption` (bounds are
naturals), `InputsAssumption` (lists offered are not empty, sources and loop modes are
legal), `SentinelsAssumption` (no saved queue is the sentinel for an absent one; other tabs
write saved queues). `SearchResponseCache`: `SentinelAssumption`. `PlayHistory`:
`SongsAssumption` and `BoundsAssumption`. `PlaybackOwnership`: `OwnershipAssumption`.
`ApiRequests`: `OptionsAssumption` (the limits the configuration accepts: a lane's within the
aggregate's, that within the connections), `RequestsAssumption` (requests are finitely many,
every endpoint has a lane) and `GenerationsAssumption`.
`PlaylistLibrary`: `ListsAssumption` (the watch-later list is a list, the absent song no
song), `InstanceAssumption` (budgets are naturals), `LibrariesAssumption` (libraries
brought from outside are libraries whose ids differ) and `RemoteAssumption` (searches and
remote lists bring songs).

**The queue.** `SavedQueueCurrent` is not inductive. It speaks only of the states in
which no other tab wrote last, and says nothing of the sources in memory, of what
the toasts hold or of what the restoration awaits, all of which later become the
queue. The invariant is

    Inv == TypeOK /\ RowInv /\ ToastInv /\ (restore = "current" => awaited \in Songs)

`RowInv` keeps rows and sources of one length and ties the saved rows to memory, or
to the list under restoration, as far as no other tab interfered; `ToastInv`
says that what a toast would put back is well formed. `NextInv` has one lemma per
action. Most of them reduce to three about `savePlayerQueue` (`SavedStep`),
`clearStoredPlayerQueue` (`ClearedStep`) and `playSong` (`PlayStep`), as the code does.
`OfferHasToast` needs only the toasts: its lemmas follow a toast through the queue
of at most two.

`SavedPositionCurrent` is inductive once `Inv` is known: whoever saves, saves the position it
moves to, and `playSong` leaves a move unsaved only when the row does not play
(`PlayPositions`). `RestoringKeepsSaved` needs one more invariant, `RestoringSources`: while a
queue is restored the sources in memory are those of the saved list, normalized. Navigation
writes them back with every move, so it would otherwise replace the saved ones. The other action
properties follow from `Inv` and the lemmas of `QueueOps_proofs`, the row being followed
through the insertion or removal together with its source.

**The single flight.** The properties speak of the moments after an acquisition; the invariant
is about the gate. `FlightOK`: the gate is closed with the decision to abandon, or once the
task is over, and a wanted flight that is not over is the one registered. `RequestOK`: whoever
has passed the gate is one of the waiters until it leaves, and whoever is about to replace a
flight found it closed, which it stays. So a flight with a waiter cannot be abandoned
under it, and only a flight that is abandoned or over is replaced. Three lemmas carry the
twenty-one actions: a request that moves alone (`RequestMoves`), with its flight (`BothMove`),
or a loader (`LoaderMoves`).

`StoresWhatIsWanted` speaks of the instant of storing, but the decision was taken when the load
started. `WantedInv` carries it over: a load that is running and not abandoned is a refresh or has a
waiter, and if nobody forced it, nothing fresh has come since it looked again at the cache,
because only a wanted load stores, and there is one.

**The accounting.** A play counted twice would need a finalization of a play that is not the
tracker's last. The invariant orders the sequences: finalized is not after the
tracker's, which is not after the player's, and nothing after the last finalized is counted.
It is proved effect by effect, so that the combinations of effects a render may cause follow from
three lemmas.

`OfferedPlaysUncounted` needs to know why nothing counts a closed play while its undo stands.
The invariant adds (`Offered`) that, unless a removed row was brought back, a song that plays is of
a later sequence than the offer, and that the offer's play has not been counted as long as
`undoable` names it: of the effects, one skips it for that reason, and the other runs only when
`undoable` is `None`. The pagehide, which counts it all the same, clears `undoable`.

`ReceiptsOutliveTheirUse` compares a receipt with what the recovery read before its await.
`ReceiptInv` says why the log cannot go back behind it: an event gets a receipt only after its
one append was answered, so it never becomes active again, and a recovery that has applied a
receipt has left nothing active that the receipt was for.

**The requests of the API.** `PermitsConserved` is about cardinalities: the free permits and
their owners make up the limit. A step moves one request, so the set of owners changes by
that request at most (`OneMore`, `Balance`), and each of its twenty-odd handlers has to give
back what its flags say and nothing else (`LocalsOK` ties the flags to the phase).
`OneGenerationPerRequest` is far from inductive. It holds because nothing is published while
the guard's session is open, so that whatever a reader may be handed has been read from the
generation still published: the copy of the generation, once fresh; what the request that
fills the copy is about to store; and the rows cached under the published generation, which
were read when it or a later one was published (`Past`, `Current`). The session itself is
counted by readers and by whoever is letting itself in (`SessionAsLongAsNeeded`, with
`MutexesHeld` and `SessionOpened`).

**The library.** The invariant speaks of copies: a tab that knows the current revision holds
the saved library (`AsOf`), a request being written was computed from the tab's copy
(`Makes`), and what the tab will publish is of the revision it wrote. A write of differences
over a current copy saves exactly the new library (`DeltaSaves`), which needs ids that
differ: `FreshInv` says that an id promised to a list not created yet is held by no library,
copy, toast or other request, so that no creation, undo or restore makes a second list of
one id. `LockInv` is mutual exclusion; `Prompt` keeps what a prompt removal saw equal to
the tab's copy until it is carried out or refused. All is proved with `Locks` either
true or false: without Web Locks the compare-and-set on the revision alone carries it.

Every list in a library, a copy, a toast or a request also has only rows for songs (`SongsOK`).
`SongsStayOnce` adds, under `GivenOnce`, that none of them has a song twice. It is not enough
that the saved lists have none: an undo works on the list as it is by then, whatever other tabs
and other undos did to it since. What makes it safe is in the snapshot (`IsRemoval`): taken
of a list without doubles, it has each song once and counts none of them left, so that
`Returning` puts back only songs the list does not have (`ReturningAbsent`), and those one
after the other, at whatever rows (`PutAllBackSingle`). A snapshot of removed
doubles, whose undo does not look, never comes about, for `RemoveDuplicateSongs`
finds nothing to remove. `GivenOnce` says that the libraries and remote lists brought from
outside have no song twice, and that the undo of the library's health check is not asked
for: it puts back its rows unconditionally (`allowDuplicateIds`), so that adding the song
again before that undo does double it. `library_atomic` has that gesture in its first
scenario, where two gestures are too few for a double; the second scenario satisfies
`GivenOnce`. `TypesAreKept` needs beside the invariant that a closed tab has no requests and that
no call exceeds a tab's room (`RoomInv`).

What a recursive function computes is proved of every input by a least counterexample:
`PutAllBackSteps` first unfolds the function into the list between two entries, and
`AscendingProperties` shows by the size of the set that its ascending enumeration exists.

The refinement takes a request as carried out when its write commits, or when it is answered
without one. A step of `PlaylistLibrary` is then one of `Perform`, `PassOver`, `Submit`,
`Close` or a stutter: the migration is a stutter, because until it commits the promised library is the
one in localStorage. It is proved where no tab of an older version is left
(`OldTabLibraries = {}`): such a tab changes the library before the migration without
asking anybody, and a write of its own during the migration is really lost to the new
database (its bytes stay in localStorage, `LegacyBytesKept`).

**Ownership.** The invariant beside the types is the property with "a playing tab is open".
The one way to a second player is a claim, which is put into every open tab's channel;
its removal is the step that pauses the tab.

## 9. What is only model-checked

- Liveness (`RestoringQueueComesBack`, the `RequestsAnswered` of library and API, `TabsCatchUp`,
  `PublicationDrains`, `CountedPlaysReachTheLog`, `PlayerIsSeenByOther`,
  `SilentOwnerForgottenByTab`): out of the prover's reach under fairness.
- That a step of a component can be taken at all (`ENABLED`): the runs without
  `CHECK_DEADLOCK FALSE` check it, for their instances.

Every invariant and every action property of a passing run is stated by a theorem, two of
them under a hypothesis: `SongsStayOnce` under `GivenOnce` and `ImplementsOneLibrary`
without tabs of older versions.

## 10. Where the code and its comments or tests disagree

- `player_cold_add`: a song queued while a reload still reads its cache replaces the
  whole saved queue by that song. The comments at `playerStore.ts:275` and `:316` say
  the complete saved list stays authoritative; `restoringQueue` is set only after the
  first await.
- `library_stale_row`: a removal by row hits another song when a reload caused by the
  other tab's notice is queued just before it. The test at
  `src/services/playlistPersistence.test.ts:103` promises that a stale index is
  rejected. `PromptPositionsHold` shows that the guard works when nothing was
  waiting in the tab.
- `search_cache_first_waiter`: a load is visible before its creator has become a waiter of
  it. Another call may join, start it and be aborted in between, which closes it; the
  creator, whose caller waits, then gets the error the code takes for impossible ("A new
  shared load rejected its first waiter.", `SearchResponseCache.cs:934`).
- `play_history_receipt`: a close resets the position to 0; a page left before the details
  of the closed play are committed leaves a receipt with 0, and recovery finalizes the play
  with that instead of the seconds of the interrupted write, which
  `historyFinalization.ts:1` says the receipts finish.

## 11. Behaviour modelled on which the repository makes no promise

Of the queue:

- A restoration that gives up in its first await leaves `queueRestoring` set until
  the next save (`restore = "abandoned"`): shuffle is ignored and refills are refused.
- The skip timer is never cancelled and may skip a song picked meanwhile.
- The song fetched first by a restoration is set as current although the user may
  have moved on.
- A second close of the same playback replaces the toast of the first, whose
  subscription then clears the offer of the second.
- A new list whose head cannot play keeps the old song current beside the new queue.
- Turning shuffle off drops songs queued, and brings back songs removed, since it was
  turned on; the comment at `playerStore.ts:1160` says it returns to the original order,
  which can be read either way.

Of the library:

- `reorderSongs` past the end of a list another tab has shortened inserts `undefined`;
  every later load of the library then throws (`HasHole`).
- In a tab whose first load throws for that reason the library is shown all the same, but the
  tab never counts as loaded (`playlistStore.ts:731`, `:740-741`: `hydrated` is set after the
  action returns). Its removals by row are then not refused after another tab's edit, and may
  hit rows its user did not see; hence "has loaded the library" in `PromptPositionsHold`.
- A failed synchronisation writes back the songs its tab held, over fresher ones.

Of plays and their history (the second contradicts a comment):

- The undo of a removal with nothing playing makes the removed song current, whichever it is,
  under the sequence of the last play. If that play has been counted, what is heard from then on
  is not recorded.
- The same undo, pressed while a close waits for its own, has the closed play counted
  (`App.tsx:159-168`: another song under that sequence), but `undoableCloseSequence` stays, as it
  does when the row is removed again (`playerStore.ts:976-978`). The undo of the close then takes the
  play for uncounted and goes on with it (`:1067-1070`). The comment at `:510-514` says that the
  offer stands only while the play is not counted, so that an undone close counts as neither a skip
  nor a second play. `OfferedPlaysUncounted` without its exception is violated by a close with
  undo, the undo of another song's removal and the removal of that song.
- The removal of the only row leaves a seek that was still to be applied; the next row brought
  back starts there.
- A play that goes on after a return from the bfcache has been finalized at pagehide; what
  is heard from then on is counted nowhere.
- A play that starts while a clearing of the history is under way loses its active event
  with it, and is never finalized.

Of ownership:

- Two claims that cross pause both tabs, and so does a late storage event of an older claim:
  then nobody plays until the user starts one again.
- A release is taken for the owner's, whoever sent it. A late one makes the other tabs forget
  a player until its next heartbeat, and a song page opened in between plays over it until
  the claim arrives.
- A duplicated tab inherits the id of its sessionStorage; the two ignore each other's claims.

## 12. Not modelled

| Part | Why |
|---|---|
| Statistics of the history | sums over data. One hazard is worth knowing: a rebuild reads the events in one transaction and clears the pending ones in another (`historyStats.ts:217`), and an event finalized in between is in neither |
| Cross-tab lock | its fallback is a lease in localStorage that is read back after a pause; whether two tabs both read their own depends on the browser's propagation alone, and a model would restate the assumption |
| Client request plumbing (`asyncTtlCache`, `requestScheduler`, `progressivePageFetch`) | next in the plan. Observed while reading: a request in flight when the cache is cleared still stores its answer, and removes the in-flight entry of its replacement |
| Restore of a backup beyond the library | sections are written one after the other and rolled back on failure; next in the plan |
| Migrations (`migrate.sh`) | a shell script around SQL it generates, in one session |
| Embedded players | third-party iframes; their effect on the store is the actions of `PlayerStore` and `PlayHistory` |
| Search, ranking, recommendation (client and API), pages and components | data and presentation |
| Maintenance gate, warmup, readiness | one mutual exclusion around periodic probes |
| Edge functions | stateless proxies |
| Release scripts | long sequences of calls of external services, with their own end-to-end tests |

The implementation is large (82,739 lines) and most of it is of these kinds. The models
cover the parts that keep state across awaits, tabs, crashes or threads.

## 13. Plan

1. `AsyncTtlCache` of the client, as a second implementation of what `SearchResponseCache`
   promises its callers.
2. `FullBackup`: the rollback after a partial failure.

Runs are few on purpose: components that share a mechanism are checked by one
run of a composed module rather than by one run each.
