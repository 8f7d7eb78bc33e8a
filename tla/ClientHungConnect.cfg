SPECIFICATION Spec
CONSTANTS
    ValidUrls = {u1}
    BadUrls = {b1}
    MaxAttempts = 2
    TimeLimited = TRUE
    MaxResolvers = 2
    MaxOrphans = 1
INVARIANT
    ConnectPromiseSettles
CHECK_DEADLOCK FALSE
