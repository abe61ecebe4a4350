SPECIFICATION RoSSpec
CONSTANTS
    u1 = u1
    u2 = u2
    u3 = u3
    NoAddress = NoAddress
    Token <- MCToken
    MaxRequests = 0
    NameLengths = {}
    RelayListens = TRUE
    MaxUsers = 3
    Backlog = 1
    UdpAddrOf <- OneEach
    UdpAddresses = {u1, u2, u3}
INVARIANT RelayTypeOK
INVARIANT RelayAlive
INVARIANT RelayedIdentity
INVARIANT MapsAgree
CHECK_DEADLOCK FALSE
