CONSTANTS
    Kinds = {"post", "p2p", "wc"}
    MaxOwnRequests = 2
    MaxTransports = 2
    MaxInits = 2
    MaxOtherEvents = 1
SPECIFICATION ConnectionSpec
CHECK_DEADLOCK FALSE
INVARIANTS NoTransportLeftBehind TransportIsHeld ActiveAccountIsStored
