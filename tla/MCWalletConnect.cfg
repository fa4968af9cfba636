CONSTANTS
    MaxRequests = 2
    w1 = w1
    w2 = w2
    Wallets = {w1, w2}
    NoWallet = NoWallet
    MaxClients = 2
    MaxSessions = 2
    MaxProposals = 2
    MaxEvents = 2
SPECIFICATION Spec
SYMMETRY Symmetry
CHECK_DEADLOCK FALSE
INVARIANTS AnswersKeepTheOrder OneSignClient AccountIsOfSession
