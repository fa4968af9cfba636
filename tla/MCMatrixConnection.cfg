CONSTANTS
    Prompt = TRUE
    Servers = 1
    MaxConnects = 3
    MaxDisconnects = 3
    MaxRestarts = 1
    MaxPairings = 2
    MaxInvites = 2
    MaxFailures = 1
SPECIFICATION FairSpec
CHECK_DEADLOCK FALSE
INVARIANTS NoGhosts StatusTellsTheTruth OneConnectIsNotStranded
PROPERTIES NoOvertakenConnect CallsReturn
