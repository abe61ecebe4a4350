SPECIFICATION MgmtSpec
CONSTANTS
    a1 = a1
    a2 = a2
    a3 = a3
    NoAddress = NoAddress
    Token <- MCToken
    Addresses = {a1, a2}
    MaxUsers = 2
    MaxRequests = 2
    NameLengths = {32}
    Capacity = 4
    RequestKinds <- Chatting
    Endings = {"close", "break"}
    PortReuse = FALSE
    RelayListens = FALSE
INVARIANT NoGhost
SYMMETRY AddressSymmetry
CHECK_DEADLOCK FALSE
