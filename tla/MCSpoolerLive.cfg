SPECIFICATION LiveSpec
CONSTANTS
    down = down
    up = up
    signalTest = signalTest
    email = email
    signal = signal
    alert = alert
    Msgs = {down, signalTest}
    NoMsg = NoMsg
    Paths = {email, signal}
    SignalPaths = {signal}
    LongPaths = {signal}
    KindOf <- MCKindOf
    PathOf <- MCPathOf
    AlertOf <- MCAlertOf
    EventOf <- MCEventOf
    MaxRows = 2
    Workers = {w1}
    NoWorker = NoWorker
    MaxRetries = 0
    BatchLimit <- MCBatchLimit
    Failures = {"transient", "rate_limited"}
    WindowLimit = 1
    PendingLimit = 1
    MaxBackups = 0
    MaxRestores = 0

PROPERTIES EveryRowSettles PacingKept
