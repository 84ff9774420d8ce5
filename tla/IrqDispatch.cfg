SPECIFICATION TreeSpec
CONSTANTS
    ca = ca  cb = cb  cc = cc  cd = cd
    Clients = {ca, cb, cc, cd}
    Sources = {7}
    Bank = 30
    BankNumber = 1
    Pins = {33, 34}
    Id <- TheId
    Preempt = FALSE
    KMaxEvents = 3
    sa = sa  sb = sb  sc = sc
    Irqs = {sa, sb, sc}
    StatReg <- TheStatReg
    NumRegs = 2
    HandlersWait = FALSE
    ClearsFirst = TRUE
    pa = pa  pb = pb  pc1 = pc1
    PrcmClients = {pa, pb, pc1}
    PrcmId <- ThePrcmId
    PrcmPreempt = FALSE
INVARIANTS
    NoSpurious
    BankFollowsPins
    TpsNoSpurious
    PrcmRootCounts
PROPERTIES
    EventsDelivered
