SPECIFICATION FairSpec
CONSTANTS
    c1 = c1  c2 = c2
    r1 = r1  r2 = r2  r3 = r3
    right = right  wrong = wrong  newer = newer
    Requests = {r1, r2}
    Conns = {c1, c2}
    Http2 = {c2}
    ConnOf <- TwoConns
    SourceOf <- OneSource
    Passwords = {right, newer}
    PasswordOf <- Alike
    MaxReloads = 2
    Accepts <- Replaced
    MaxInFlight = 2
    QueueSlots = 2
    SourceSlots = 2
    PerConnection = 1
    Permits = 1
    ResultQueue = 1
    NoPassword = NoPassword
    NoRequest = NoRequest
INVARIANT
    VerdictOfSnapshot
    SingleFlight
PROPERTY
    AnsweredOnce
    EventuallyAnswered
    SlotsReturned
CHECK_DEADLOCK FALSE
