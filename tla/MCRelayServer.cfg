CONSTANTS
    c1 = c1
    c2 = c2
    c3 = c3
    s1 = s1
    s2 = s2
    NoCall = NoCall
    NoServer = NoServer
    RelayCalls = {c1, c2, c3}
    Servers = {s1, s2}
    MaxResets = 1
SPECIFICATION FairRelaySpec
CHECK_DEADLOCK FALSE
INVARIANTS AwaitedPromisesAreSettled FailuresAreForgotten DiscoveriesAreShared
PROPERTY CallsReturn
