SPECIFICATION Spec
CONSTANTS
    a = a
    b = b
    NoSong = NoSong
    None = None
    Songs <- TwoSongs
    MaxSequence = 2
    MaxEvents = 2
    MaxPosition = 1
    MaxTroubles = 2
CONSTRAINT FewAtOnce
INVARIANTS PlaybackCountedOnce EndedPlaysCounted OfferedPlaysUncounted
PROPERTIES ReceiptsOutliveTheirUse CountedPlaysReachTheLog
CHECK_DEADLOCK FALSE
