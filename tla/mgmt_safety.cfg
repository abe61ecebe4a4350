SPECIFICATION MgmtSpec
CONSTANTS
    a1 = a1
    a2 = a2
    a3 = a3
    NoAddress = NoAddress
    Token <- MCToken
    Addresses = {a1, a2}
    MaxUsers = 2
    MaxRequests = 3
    NameLengths = {32}
    Capacity = 2
    RequestKinds <- JoinLeaveMuteChat
    Endings = {"close", "break"}
    PortReuse = FALSE
    RelayListens = FALSE
INVARIANT MgmtTypeOK
INVARIANT HandlerOwnsEntry
INVARIANT ViewsConverge
INVARIANT ChatAttributable
SYMMETRY AddressSymmetry
CHECK_DEADLOCK FALSE
