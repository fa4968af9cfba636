CONSTANTS
    Me = me
    Peers = {p, q}
    EarlierPeers = {p}
    MaxRooms = 2
    MaxEvents = 2
    MaxFailures = 1
    MaxSends = 1
    JoinTries = 2
SPECIFICATION Spec
CHECK_DEADLOCK FALSE
INVARIANTS RoomsLeadToTheirPeer MessagesAreHandledOnce TakenOnce
PROPERTIES SendsEnd InvitationsAreTakenUp
