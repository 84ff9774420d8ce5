SPECIFICATION FairSpec
CONSTANTS
    ca = ca  cb = cb  cc = cc  cd = cd  ce = ce
    xa = xa  xb = xb
    Clients = {ca, cb, cc, cd, ce}
    Xfers = {xa}
    SyncXfers = {xa}
    Address <- OneAddress
    Config <- OneConfig
    Supported = {"e1"}
    Owner <- OneOwner
    Phases <- OnePhases
    KMaxDevicesPerUnit = 2
    Threshold = 2
    BusFaults = {"nack"}
    QuiescentClose = TRUE
    NoAddress = NoAddress
INVARIANTS
    NoAssertion
    SuccessMovedAll
    TableMatchesHandles
PROPERTIES
    Completes
