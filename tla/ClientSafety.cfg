SPECIFICATION ReachableSpec
CONSTANTS
    ValidUrls = {u1}
    BadUrls = {b1}
    MaxAttempts = 2
    TimeLimited = TRUE
    MaxResolvers = 2
    MaxOrphans = 1
INVARIANTS
    TypeOK
    MutexMatchesState
    SocketIsWired
    ClosedIsQuiet
PROPERTIES
    ConnectedOnlyWhenUp
    LiveConnectionKept
    KeepsTrying
    ConnectionSpec
    ConnectSettles
    Recovers
CHECK_DEADLOCK FALSE
