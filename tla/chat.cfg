SPECIFICATION Spec
CONSTANTS
    ana = ana
    p1 = p1
    p2 = p2
    Procs = {p1, p2}
    Nicks = {ana, Zero}
    Zero = Zero
    NoName = NoName
    Sockets = {4, 5}
    NoProc = NoProc
    NoSock = NoSock
    Numbers = {0, 2}
    MaxPending = 2
CHECK_DEADLOCK FALSE
INVARIANTS
    SocketsAgree
    ReachesNamed
    LoneNamesListed
    OneNumberEach
PROPERTY TypedIsReceived
