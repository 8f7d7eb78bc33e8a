SPECIFICATION Spec
CONSTANTS
    Clients = {c1, c2, c3}
    Calls = {a1}
    FirstClient = c1
    MaxRetries = 2
    AutoRegister = TRUE
    JoinsRooms = TRUE
    InitialDelay = 1
    MaxDelay = 2
    BackoffMultiplier = 2
    MaxTimers = 2
SYMMETRY Alike
INVARIANTS
    ReconnectorTypeOK
    Tended
    LiveClientsOwned
    RegistrationAgrees
PROPERTIES
    CancelledStays
    HealthyKept
CHECK_DEADLOCK FALSE
