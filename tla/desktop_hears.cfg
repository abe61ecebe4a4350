SPECIFICATION DesktopSpec
CONSTANTS
    d1 = d1
    d2 = d2
    NoDevice = NoDevice
    NoAddress = NoAddress
    Token <- MCToken
    MaxUsers = 2
    MaxRequests = 0
    NameLengths = {1}
    Me = 2
    Devices = {d1, d2}
    Rate <- TwoRates
    FirstDevice = d1
    MaxClicks = 1
    MaxNews = 0
    MaxUpsets = 0
    Impatient = FALSE
INVARIANT EveryoneHeard
CHECK_DEADLOCK FALSE
