SPECIFICATION MgmtFairSpec
CONSTANTS
    a1 = a1
    a2 = a2
    a3 = a3
    NoAddress = NoAddress
    Token <- MCToken
    Addresses = {a1, a2}
    MaxUsers = 2
    MaxRequests = 2
    NameLengths = {32, 33}
    Capacity = 4
    RequestKinds <- Pinging
    Endings = {"close"}
    PortReuse = FALSE
    RelayListens = FALSE
PROPERTY RequestsAnswered
PROPERTY DepartureSeen
CHECK_DEADLOCK FALSE
