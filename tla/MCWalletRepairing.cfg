CONSTANTS
    d1 = d1
    d2 = d2
    r1 = r1
    r2 = r2
    a1 = a1
    NoRequest = NoRequest
    NoPeer = NoPeer
    DApps = {d1, d2}
    Requests = {r1}
    Owner <- OwnerOne
    Kind <- KindGrants
    Persisted <- PairedTwo
    Accounts = {a1}
    MaxDeliveries = 1
    MaxCalls = 2
SPECIFICATION Spec
CHECK_DEADLOCK FALSE
INVARIANTS PermissionsWereGranted MisdeliveryOnlyAfterDeparture GrantStoredBeforeReply
