SPECIFICATION Spec
CONSTANTS
    a = a
    b = b
    Nobody = Nobody
    NoRows = NoRows
    Requests = {a, b}
    Endpoints <- MCEndpoints
    Guarded = {"recommend"}
    Lanes = {"heavy", "standard"}
    LaneOf <- MCLaneOf
    PermitLimit <- MCPermits
    QueueLimit <- MCQueues
    AggregateLimit = 2
    ConnectionLimit = 2
    MaxGeneration = 1
INVARIANTS TypeOK PermitsConserved SessionAsLongAsNeeded OneGenerationPerRequest
PROPERTIES RequestsAnswered PublicationDrains
