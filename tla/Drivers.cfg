SPECIFICATION DriversSpec
CONSTANTS
    ta = ta  tb = tb  tc = tc  td = td  te = te  tf = tf
    Transactions = {ta, tb, tc, td, te, tf}
    SlaveAddr <- TheAddr
    Transfers <- TheTransfers
    NumSlaves = 2
    None = None
    Lengths = {2, 3, 4}
    LateCancel = FALSE
    Shared = TRUE
    KMaxPackets = 3
    Wants = {2, 4}
    Answers = {1, 2, 4}
    SendsStatus = FALSE
    KMaxSetups = 3
    PlayTimes = {1, 2}
    Preempted = FALSE
    KMaxTransfers = 4
    KConfigXyNumXYSamples = 2
    KMaxXYSamples = 4
    HeldAtStart = FALSE
    KMaxSwitches = 2
    KMaxBytes = 3
    KFifo = 2
    KRx = 1
    Received = {"data", "xon", "xoff"}
    XonAtEnd = FALSE
INVARIANTS
    OneRequest
    SuccessMovedAll
    EachPacketOnce
    AnswersAreOwn
    SamplesFit
    BytesInOrder
PROPERTIES
    Completes
    UsbReadsEnd
    BuffersReturn
    LiftIsReported
    BytesAreSent
CHECK_DEADLOCK FALSE
