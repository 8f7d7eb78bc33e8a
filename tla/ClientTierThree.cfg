SPECIFICATION FairSpec
CONSTANTS
    ValidUrls = {u1}
    BadUrls = {}
    MaxAttempts = 2
    TimeLimited = FALSE
    MaxResolvers = 2
    MaxOrphans = 1
PROPERTY
    TierThreeIsReached
CHECK_DEADLOCK FALSE
