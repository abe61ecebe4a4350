SPECIFICATION SdkSpec
CONSTANTS
    Connections = {1, 2}
    Requests = {1, 2, 3}
    Notices = {9}
    MaxNews = 2
    MaxClosed = 1
    MaxTogether = 2
INVARIANT CallbacksAwaited
INVARIANT EventsOnce
INVARIANT EventsInOrder
PROPERTY TcpImplementsRpc
CHECK_DEADLOCK FALSE
