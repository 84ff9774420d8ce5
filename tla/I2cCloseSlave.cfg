SPECIFICATION Spec
CONSTANTS
    ca = ca  cb = cb  cc = cc  cd = cd  ce = ce
    xa = xa  xb = xb
    Clients = {ca, cb}
    Xfers = {xa, xb}
    SyncXfers = {xa, xb}
    Address <- SyncAddress
    Config <- TwoConfig
    Supported = {"e1"}
    Owner <- SyncOwner
    Phases <- SyncPhases
    KMaxDevicesPerUnit = 2
    Threshold = 1
    BusFaults = {}
    QuiescentClose = FALSE
    NoAddress = NoAddress
INVARIANTS
    RightSlave
CHECK_DEADLOCK FALSE
