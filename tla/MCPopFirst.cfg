SPECIFICATION PopFairSpec

CONSTANTS
    Freshness = 3
    BackoffBase = 1
    BackoffMost = 2
    Jitters = {0, 1}
    Startup = 1
    Pause = 1
    Horizon = 3
    MaxDownloads = 2
    MaxRefreshes = 0
    MaxPopFaults = 0

PROPERTY
    FirstInstallDownloads
