SPECIFICATION Spec
CONSTANTS
    a = a
    b = b
    NoSong = NoSong
    None = None
    Songs <- OneSong
    MaxSequence = 2
    MaxEvents = 2
    MaxPosition = 1
    MaxTroubles = 1
INVARIANTS ReceiptsFinishTheWrite
CHECK_DEADLOCK FALSE
