SPECIFICATION Spec
CONSTANTS
    ca = ca  cb = cb
    b1 = b1  b2 = b2
    Dfc = Dfc
    Clients = {ca, cb}
    Settings <- Above
    TimeSlice = FALSE
    Bits = {b1, b2}
    KMaxHeld = 1
INVARIANTS
    CompletedOnce
