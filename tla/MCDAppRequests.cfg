CONSTANTS
    Tabs = {a, b}
    MaxRequests = 2
    Scopes <- Granting
    NoTab = none
    MaxEvents = 1
SPECIFICATION Spec
CHECK_DEADLOCK FALSE
INVARIANTS NoRequestIsLost OneTabIsConnected
PROPERTY RequestsComeBack
