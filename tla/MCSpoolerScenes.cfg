SPECIFICATION SceneSpec

CONSTANTS
    down = down
    up = up
    signalTest = signalTest
    email = email
    signal = signal
    alert = alert
    w1 = w1
    w2 = w2
    Msgs = {down, up}
    NoMsg = NoMsg
    Paths = {email}
    SignalPaths = {}
    LongPaths = {}
    KindOf <- MCKindOf
    PathOf <- MCPathOf
    AlertOf <- MCAlertOf
    EventOf <- MCEventOf
    MaxRows = 2
    Workers = {w1, w2}
    NoWorker = NoWorker
    MaxRetries = 1
    BatchLimit <- MCBatchLimit
    Failures = {"transient", "uncertain", "rate_limited", "limited", "permanent"}
    WindowLimit = 2
    PendingLimit = 1
    MaxBackups = 1
    MaxRestores = 2

INVARIANTS
    TypeOK
    ResolvedBehindOpen
    NoFalseSent
    DuplicateOnlyIfUnconfirmed
    PoisonIsBounded

PROPERTIES
    FinalIsFinal
    KeepsPromise

VIEW SceneView

CHECK_DEADLOCK FALSE
