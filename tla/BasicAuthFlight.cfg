SPECIFICATION Spec
CONSTANTS
    c1 = c1  c2 = c2
    r1 = r1  r2 = r2  r3 = r3
    right = right  wrong = wrong  newer = newer
    Requests = {r1, r2, r3}
    Conns = {c1}
    Http2 = {}
    ConnOf <- OneConn
    SourceOf <- OneSource
    Passwords = {right, wrong}
    PasswordOf <- FirstWrong
    MaxReloads = 0
    Accepts <- Fixed
    MaxInFlight = 1
    QueueSlots = 3
    SourceSlots = 2
    PerConnection = 3
    Permits = 1
    ResultQueue = 1
    NoPassword = NoPassword
    NoRequest = NoRequest
INVARIANT
    TypeOK
    NoOrphan
    HashingAdmitted
PROPERTY
    RegistrationKept
CHECK_DEADLOCK FALSE
