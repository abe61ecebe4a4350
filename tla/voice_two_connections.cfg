SPECIFICATION Spec
CONSTANTS
    a1 = a1
    a2 = a2
    u1 = u1
    u2 = u2
    NoAddress = NoAddress
    Token <- MCToken
    Addresses = {a1, a2}
    MaxUsers = 2
    MaxRequests = 2
    NameLengths = {32}
    Capacity = 4
    RequestKinds <- JoinLeaveJoin
    Endings = {}
    PortReuse = FALSE
    RelayListens = TRUE
    Eager = {1}
    UdpAddrOf <- OneEach
    UdpAddresses = {u1, u2}
INVARIANT RelayAlive
SYMMETRY AddressSymmetry
CHECK_DEADLOCK FALSE
