SPECIFICATION HelpersSpec
CONSTANTS
    Delays <- MCDelays
    MaxAttempts = 3
    MaxTotalTime = 8
    Jitter = 50
    CheckInterval = 2
    Threshold = 4
    Randoms = {0, 99}
    MaxSleep = 8
    MaxLate = 1
    MaxTime = 17
    DaemonPortMin = 49152
    DaemonPortMax = 65535
    HeartbeatStaleThreshold = 15
    Files <- MCFiles
    Ages <- MCAges
    MaxPlaces = 4
    o1 = o1
    o2 = o2
    o3 = o3
    Objects = {o1, o2, o3}
    MaxEntries = 4
INVARIANTS
    DiscoveriesAgree
    SearchesEndRight
PROPERTIES
    DeliveredOnce
    WakesNoticed
    
CHECK_DEADLOCK FALSE
