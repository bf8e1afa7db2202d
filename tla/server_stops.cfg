SPECIFICATION NSpec
CONSTANTS
    alice = alice
    bob = bob
    a1 = a1
    a2 = a2
    b1 = b1
    t1 = t1
    Clients = {alice}
    Topics = {t1}
    Sockets = {5, 6}
    Absent = Absent
    MaxMsgs = 1
    Procs <- Pair
    IdOf <- PairIdOf
    NoProc = NoProc
    NoSock = NoSock
    Flags = {1}
    MaxPending = 1
CHECK_DEADLOCK FALSE
INVARIANT ServerStopsOnlyOnExit
