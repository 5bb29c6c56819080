SPECIFICATION Spec
CONSTANTS
    a = a
    b = b
    u = u
    NoSong = NoSong
    NoStored = NoStored
    Songs <- MCSongs
    Playable <- MCPlayable
    Playlists <- ShortLists
    Queued <- OnlyA
    StartSources = {"auto"}
    LoopModes = {"none", "all", "one"}
    Gestures <- SessionGestures
    OtherTabQueues <- OtherTabs
    PageSize = 1
    MaxQueue = 3
    MaxSequence = 2
    MaxSkips = 1
    MaxToasts = 0
    MaxReloads = 1
PROPERTIES RearrangingKeepsPlaying RestorePreservesSaved RestoringKeepsSaved RestoringQueueComesBack
