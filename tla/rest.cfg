SPECIFICATION Spec
CONSTANTS
    Users = {u1, u2}
    Books = {b}
    MaxSessions = 2
INVARIANTS
    TypeOK
    TokenOfSession
    CookieOpen
    ReceivedWhole
PROPERTIES
    ClaimsTrue
    CommandEnds
