SPECIFICATION Spec
CONSTANTS
    ca = ca  cb = cb  cc = cc  cd = cd  ce = ce
    xa = xa  xb = xb
    Clients = {ca, cb}
    Xfers = {xa, xb}
    SyncXfers = {xa}
    Address <- SyncAddress
    Config <- TwoConfig
    Supported = {"e1"}
    Owner <- TwoOwner
    Phases <- TwoPhases
    KMaxDevicesPerUnit = 2
    Threshold = 2
    BusFaults = {"nack", "al"}
    QuiescentClose = TRUE
    NoAddress = NoAddress
INVARIANTS
    IInv
PROPERTIES
    IsFifo
CHECK_DEADLOCK FALSE
