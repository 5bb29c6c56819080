SPECIFICATION Spec
CONSTANTS
    t1 = t1
    t2 = t2
    wl = wl
    p = p
    q = q
    r = r
    a = a
    b = b
    NoSong = NoSong
    NoMeta = NoMeta
    NoLegacy = NoLegacy
    Corrupt = Corrupt
    Tabs <- MCTabs
    Songs <- MCSongs
    Lists <- FourLists
    WatchLater <- wl
    Locks = FALSE
    Scenarios <- AtomicScenarios
    OldTabLibraries <- None
    RemoteSongs <- Remote
    Backups <- Files
    MaxRequests = 2
SYMMETRY Symmetric
INVARIANTS TypeOK SavedLibraryWhole MemoryMatchesRevision NoSongTwice
PROPERTIES ActsAsOneLibrary PromptPositionsHold RestoreOverwritesNothingNew
CHECK_DEADLOCK FALSE
