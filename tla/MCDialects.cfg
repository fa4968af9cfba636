SPECIFICATION Spec
CONSTANTS
    Wallets = {"current", "echo", "connect", "three", "garbled"}
    Software <- WalletSoftware
    Declared <- Versions
    Marked <- MarkedWallets
    Required = {None, 4}
    Chains = {"c1", "c2"}
    Mapped = {"c1"}
    OwnNetwork = "mainnet"
    OwnChain = "c1"
    OtherNetwork = "substrate"
    Malformed = "bad"
    Addresses = {"a", "b"}
    None = None
    MaxRequests = 3
    MaxEvents = 1
CHECK_DEADLOCK FALSE
INVARIANTS NothingIsDropped KnownAccountsArePermitted
PROPERTIES AllOrNothing ImplementsAccess
