CONSTANTS
    d1 = d1
    d2 = d2
    r1 = r1
    r2 = r2
    a1 = a1
    NoRequest = NoRequest
    NoPeer = NoPeer
    DApps = {d1, d2}
    Requests = {r1, r2}
    Owner <- OwnerTwo
    Kind <- KindTwo
    Persisted <- Paired
    Accounts = {a1}
    MaxDeliveries = 2
    MaxCalls = 1
SPECIFICATION FairSpec
CHECK_DEADLOCK FALSE
INVARIANT PromptedOncePerAnswer
PROPERTIES RequestsAreAcknowledged AnswersLeave
