SPECIFICATION Spec
CONSTANTS
    ca = ca  cb = cb  cc = cc  cd = cd
    Clients = {ca, cb}
    Sources = {7}
    Bank = 30
    BankNumber = 1
    Pins = {33, 34}
    Id <- TheId
    Preempt = TRUE
    KMaxEvents = 1
INVARIANTS
    BankFollowsPins
