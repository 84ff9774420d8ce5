SPECIFICATION Spec
CONSTANTS
    ca = ca  cb = cb  cc = cc  cd = cd  ce = ce
    xa = xa  xb = xb
    Clients = {ca, cb, cc}
    Xfers = {xa, xb}
    SyncXfers = {xa}
    Address <- TwoAddress
    Config <- TwoConfig
    Supported = {"e1"}
    Owner <- TwoOwner
    Phases <- TwoPhases
    KMaxDevicesPerUnit = 2
    Threshold = 2
    BusFaults = {"nack"}
    QuiescentClose = TRUE
    NoAddress = NoAddress
INVARIANTS
    HeadIsActive
CHECK_DEADLOCK FALSE
