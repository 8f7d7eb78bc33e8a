SPECIFICATION Spec
CONSTANTS
    p1 = p1
    p2 = p2
    Procs = {p1, p2}
    Daemons = {d1, d2}
    Version <- MCVersion
INVARIANTS
    SpawnerTypeOK
    OneDaemon
PROPERTIES
    MutexSpec
    LockTakenOnlyFrom
    StartingDaemonSpared
    VersionGate
SYMMETRY DaemonSymmetry
CHECK_DEADLOCK FALSE
