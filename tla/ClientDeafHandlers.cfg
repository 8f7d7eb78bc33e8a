SPECIFICATION EventsSpec
CONSTANTS
    ValidUrls = {u1}
    BadUrls = {}
    MaxAttempts = 1
    TimeLimited = FALSE
    MaxResolvers = 0
    MaxOrphans = 0
    e1 = e1
    s1 = s1
    s2 = s2
    o1 = o1
    Events = {e1}
    Subscriptions = {s1, s2}
    OnceHandlers = {o1}
    EventOf <- MCEventOf
    MaxPendingOnce = 1
    Requests = {q1}
INVARIANT
    HandlersSurviveReconnects
CHECK_DEADLOCK FALSE
