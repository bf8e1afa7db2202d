SPECIFICATION MCSpec
CONSTANTS
    c1 = c1
    c2 = c2
    c3 = c3
    t1 = t1
    t2 = t2
    Clients <- MCClients
    Topics <- MCTopics
    Sockets = {5, 6}
    Absent = Absent
    MaxMsgs = 2
    Room = 4
    Digits = 2
SYMMETRY IdsAndTopics
INVARIANTS
    TypeOK
    SocketTablesAgree
    SavedTopicsExact
    SavedKeysExact
    NoSubsBounded
    SubscriptionsNested
    
