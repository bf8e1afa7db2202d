SPECIFICATION MCSpec
CONSTANTS
    h1 = h1
    h2 = h2
    own1 = own1
    own2 = own2
    d1 = d1
    d2 = d2
    Hops = {h1, h2}
    Macs = {m1, m2}
    Interfaces = {1, 2}
    OwnIp <- MCOwnIp
    Dests = {own1, own2, d1, d2}
    NoRoute = NoRoute
    Route <- MCRoute
    Ttls = {1, 2}
    MaxPackets = 1
    MaxUnasked = 1
    Top = 16
    And <- MCAnd
    Routes <- MCRoutes
    MaxRoutes = 3
    Byte = 4
    Fields <- MCFields
    Cells = {1, 2, 3}
    Elements = {e1, e2}
    NULL = NULL
    NoElement = NoElement
CHECK_DEADLOCK FALSE
PROPERTY ReplyUpdatesTable
