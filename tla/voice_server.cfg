SPECIFICATION FairSpec
CONSTANTS
    a1 = a1
    a2 = a2
    u1 = u1
    u2 = u2
    NoAddress = NoAddress
    Token <- MCToken
    Addresses = {a1}
    MaxUsers = 2
    MaxRequests = 3
    NameLengths = {32}
    Capacity = 4
    RequestKinds <- JoinLeaveJoin
    Endings = {"close", "break"}
    PortReuse = FALSE
    RelayListens = TRUE
    Eager = {}
    UdpAddrOf <- OneEach
    UdpAddresses = {u1, u2}
INVARIANT RelayInSync
INVARIANT NothingLeft
PROPERTY ImplementsRelay
PROPERTY ImplementsStream
PROPERTY JoinReachesRelay
PROPERTY SessionReclaimed
CHECK_DEADLOCK FALSE
