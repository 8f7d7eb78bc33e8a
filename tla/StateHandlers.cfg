SPECIFICATION Spec
CONSTANTS
    h1 = h1
    h2 = h2
    n1 = n1
    n2 = n2
    n3 = n3
    Handlers = {h1, h2}
    Sockets = {n1, n2, n3}
    MaxCalls = 5
SYMMETRY Alike
INVARIANTS
    HandlersKnow
    OneSocketAttended
    ClosedStaysSilent
CHECK_DEADLOCK FALSE
