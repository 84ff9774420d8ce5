SPECIFICATION FairSpec
CONSTANTS
    ca = ca  cb = cb
    b1 = b1  b2 = b2
    Dfc = Dfc
    Clients = {ca, cb}
    Settings <- Both
    TimeSlice = TRUE
    Bits = {b1, b2}
    KMaxHeld = 1
INVARIANTS
    DoneMeansDone
    ProtectionCounted
    ResultIsTrue
PROPERTIES
    IsFifo
    Served
CONSTRAINT
    Uncrossed
CHECK_DEADLOCK FALSE
