SPECIFICATION Spec
CONSTANTS
    r1 = r1
    r2 = r2
    r3 = r3
    NoFlight = NoFlight
    NoEntry = NoEntry
    Requests <- ThreeRequests
    Warmups <- OneWarmup
INVARIANTS NobodyJoinsADoomedLoad OneLoadAtATime RegisteredLoadIsWatched
PROPERTIES StoresWhatIsWanted
CHECK_DEADLOCK FALSE
