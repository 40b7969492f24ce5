SPECIFICATION AdminSpec
CONSTANTS
    Freshness = 3
    BackoffBase = 1
    BackoffMost = 2
    Jitters = {0, 1}
    Startup = 1
    Pause = 1
    Horizon = 3
    MaxDownloads = 3
    MaxRefreshes = 1
    MaxPopFaults = 2

    newCode = newCode
    knownCode = knownCode
    atWest = atWest
    atMiddle = atMiddle
    atEast = atEast
    atNowhere = atNowhere
    New = newCode
    Known = knownCode
    Coordinates = {atWest, atMiddle, atEast}
    Km <- SomeKm
    Nowhere = atNowhere
    Routes = {1, 2, 3}
    Networks = {1, 2}
    Observers = {1}
    MostObservations = 2

    ph1 = ph1
    ph2 = ph2
    NoPhone = NoPhone
    People = {1, 2, 3}
    Phones = {ph1, ph2}
    Watched = {1, 2}
    Edits = {1, 2}
    Tasks = {1, 2, 3}
    MaxActive = 1
    MaxEdits = 3

    Keys = {1, 2}
    Writers = {1, 2}
    Readers = {1}
    CacheMost = 1
    MaxWrites = 3
    MaxTx = 2

    None = None
    h1 = h1
    Monitors = {1, 2}
    Hosts = {h1}
    Ports = {80, 443}
    Groups = {1, 2}
    Titles = {10, 11}
    MaxChanges = 3

    Nothing = Nothing
    Numbers = {n1, n2}
    Requests = {1, 2}
    Links = {1, 2}
    Interval = 2
    MaxCalls = 3
    LastTick = 3

    Readership = {1, 2}
    Watcher = 1
    Ids = {1, 2, 3}
    Window = 1
    Refresh = 1
    Keep = 2
    LastHour = 3
    MaxGrouped = 2
    NoRow = NoRow

    Versions = {1, 2, 3}
    Daily = 2
    RetryBase = 1
    RetryMost = 2
    RetryAfters = {1, 3}
    LastDay = 3
    MaxEvents = 3
    NoEtag = NoEtag

    k1 = k1
    Releases <- SomeReleases
    Secrets = {k1, k2}
    Archives = {1}
    Steps = {2, 3}
    Rebuild = 2
    MaxData = 1
    MaxStarts = 2
    Missing = Missing

    Lookups = {1, 2}
    Attempts = 2
    MaxVersions = 2

    Askers = {1, 2}
    Addresses = {1, 2}
    Timeout = 1
    Ttl = 3
    NegativeTtl = 2
    BackoffFirst = 1
    BackoffTop = 2
    Pauses = {2}
    CacheSize = 1
    LastSecond = 3
    MaxAsked = 2

    Places <- SomePlaces
    Radii <- SomeRadii
    NoClaim = NoClaim

    Clients = {1, 2}
    Limits <- SomeLimits
    MaxKeys = 1
    SweepInterval = 1
    LastMoment = 6

INVARIANTS
    LocationsKept
    PeopleKept
    ConfigurationKept
    ChannelsKept
    NoticesKept
    UpkeepKept
CHECK_DEADLOCK FALSE
