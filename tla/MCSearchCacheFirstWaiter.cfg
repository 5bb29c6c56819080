SPECIFICATION Spec
CONSTANTS
    r1 = r1
    r2 = r2
    r3 = r3
    NoFlight = NoFlight
    NoEntry = NoEntry
    Requests <- TwoRequests
    Warmups <- OneWarmup
INVARIANTS FirstWaiterAccepted
CHECK_DEADLOCK FALSE
