SPECIFICATION FairRoomsSpec
CONSTANTS
    ValidUrls = {u1}
    BadUrls = {}
    MaxAttempts = 1
    TimeLimited = FALSE
    MaxResolvers = 0
    MaxOrphans = 0
    Rooms = {r1}
    MaxRejoinAttempts = 2
    MaxInFlight = 2
INVARIANTS
    RoomsTypeOK
    RejoinOnlyTracked
    TrackedIsMember
    MemberIsTracked
PROPERTY
    RejoinEnds
CHECK_DEADLOCK FALSE
