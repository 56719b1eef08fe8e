SPECIFICATION AcrClientSpec
\* A command ends.
CHECK_DEADLOCK FALSE
CONSTANTS
    r1 = r1
    r2 = r2
    i1 = i1
    i2 = i2
    i3 = i3
    Repo = {r1, r2}
    Item = {i1, i2, i3}
    Sessions <- AllSessions
    Life = 3
    Margin = 2
    TryTime = 1
    RetryAttempts = 1
    MaxTime = 6
INVARIANTS
    MarginIsKept
    ExpiryIsHonest
    TokenCoversRequest
    DeletesInOrder
    RequestsAreAccepted
PROPERTIES
    CommandEnds
