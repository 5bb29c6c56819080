SPECIFICATION Spec
CONSTANTS
    t1 = t1
    t2 = t2
    wl = wl
    p = p
    q = q
    r = r
    a = a
    b = b
    NoSong = NoSong
    NoMeta = NoMeta
    NoLegacy = NoLegacy
    Corrupt = Corrupt
    Tabs <- MCTabs
    Songs <- MCSongs
    Lists <- TwoLists
    WatchLater <- wl
    Locks = TRUE
    Scenarios <- LockedScenarios
    OldTabLibraries <- OldWrites
    RemoteSongs <- None
    Backups <- None
    MaxRequests = 2
INVARIANTS LockedWritesSucceed
PROPERTIES LegacyBytesKept RequestsAnswered TabsCatchUp
CHECK_DEADLOCK FALSE
