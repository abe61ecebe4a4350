SPECIFICATION UdpFairSpec
CONSTANTS
    Sockets = {1, 2}
    AuthRequests = {1, 2}
    MAX_RETRY_ATTEMPTS = 3
INVARIANT CurrentCallback
PROPERTY UdpImplementsRpc
PROPERTY UdpReturns
CHECK_DEADLOCK FALSE
