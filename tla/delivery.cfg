SPECIFICATION DSpec
CONSTANTS
    c1 = c1
    c2 = c2
    c3 = c3
    t1 = t1
    Clients <- MCClients
    Topics = {t1}
    Sockets = {5, 6}
    Absent = Absent
    MaxMsgs = 2
SYMMETRY Ids
INVARIANTS
    CountIsOwers
    LossOnlyAfterStray
    SessionInOrder
    ExactForLoneSubscriber
