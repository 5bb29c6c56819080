SPECIFICATION Spec
CONSTANTS
    a = a
    b = b
    u = u
    NoSong = NoSong
    NoStored = NoStored
    Songs <- MCSongs
    Playable <- MCPlayable
    Playlists <- ShortLists
    Queued <- OnlyB
    StartSources = {"manual"}
    LoopModes = {"none"}
    Gestures <- QueueGestures
    OtherTabQueues = {}
    PageSize = 1
    MaxQueue = 4
    MaxSequence = 2
    MaxSkips = 1
    MaxToasts = 2
    MaxReloads = 0
INVARIANTS SavedQueueCurrent SavedPositionCurrent OfferHasToast
PROPERTIES EditsKeepCurrentRow QueuedSongsPlayNext RemovalUndoable ClosedStaysClosed
CONSTRAINTS QueueBounds
