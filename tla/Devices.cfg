SPECIFICATION DevicesSpec
CONSTANTS
    ca = ca
    xa = xa
    Clients = {ca}
    Xfers = {xa}
    SyncXfers = {xa}
    Address <- RegAddress
    Config <- RegConfig
    Supported = {"e1"}
    Owner <- RegOwner
    Phases <- ReadBPhases
    KMaxDevicesPerUnit = 1
    Threshold = 1
    BusFaults = {"nack"}
    QuiescentClose = TRUE
    NoAddress = NoAddress
    KMaxTries = 5
    InLengths = {0, 1, 2, 3}
    KMaxWrites = 3
    KDiskSectorSize = 2
    KNVMemTransferBufferSize = 8
    DiskSize = 12
    MaxLength = 4
    Kinds = {"read", "write", "format"}
    KMaxRequests = 2
    iBlockSize = 2
    Blocks = 5
    WbPositions = {2, 6}
    WbLengths = {1, 2, 4, 5}
    WbKinds = {"read", "write", "format"}
    Tables <- TheTables
    KContexts = 2
    Rqts = {"read", "write"}
    Waited = {"write"}
    RqtContext <- TheContexts
    RqtParts <- TheRequestParts
    RespParts <- TheResponseParts
    Events <- TheEvents
    KSendTimeouts = 1
    KReplyTimeouts = 1
    NoPart = NoPart
    StorageKinds = {"sync", "async"}
    Sizes = {1, 2}
    Failures = {"ERROR", "INVALID_RESPONSE"}
    LateStarts = FALSE
    KOps = 2
    Devices = {1}
    BlockSizes = {1}
    Services = {"start", "stop", "device", "read"}
    Refusals = {"start"}
    KCalls = 3
    KChanges = 1
    PacketKinds = {"write", "plain", "stall", "feature", "config"}
    KParts = 2
    GivesUp = {"write", "stall"}
    KPackets = 3
    KResets = 1
    KMaxIdleTicks = 4
    KMinSuppressTickCount = 2
    SleepRequests = {1, 2, 5}
    KMaxTicks = 7
    Times <- TheTimes
    KMaxDays = 150
    ua = ua  ub = ub
    UserBuffers = {ua, ub}
    KReplaced = 1
    KMaxFrames = 4
    KFifo = 2
    KApart = 2
    FirstByte = {0}
    Addresses = {13}
    Modes = {"EModeSingle", "EModeMulti"}
    KMaxReads = 4
    KShift = 256
    Width = 40
    Height = 30
    Panels <- ThePanels
    Default <- TheDefault
INVARIANTS
    AccessIsExact
    MediaIsTrue
    MailboxIsTrue
    StorageResultIsTrue
    CallbacksAreOwn
    ServicesAreTrue
    ControlIsAnswered
    TicksAccounted
    DateIsOneMoment
    UserRequestsEnd
    InputsAreTrue
PROPERTIES
    WriteIsSent
    WestBridgeEnds
CHECK_DEADLOCK FALSE
