CONSTANTS
    Tasks = {anom, hunt, run, rep, other}
    Slots = 1
    AnomTask = anom
    HuntTick = hunt
    HuntNow = run
    RepTask = rep
    Win <- MCWin
    Th <- MCTh
    PrivateIPs = {1, 2, 3}
    BadIPs = {9}
    NoCountry = {""}
    SubnetSize = 4
    LogRows <- MCLogRows
    StartLogs <- MCStartLogs
    EnterpriseNets <- MCNets
    IncludePrivate = TRUE
    SuppressFor = 2
    MaxPerCode = 1
    MaxInsertPerTick = 1
    AnomUsers = {1}
    StartClock = 15
    MaxClock = 16
    MaxRows = 3
    MaxScans = 2
    MaxAcks = 1
    HuntIds = {1, 2}
    MaxHuntsAll = 1
    MaxRunHistory = 1
    IntervalMin = 1
    EdgeThreshold = 3
    EdgeRatio = 2
    EdgeCounts = {3}
    MaxEdits = 1
    MaxHuntRuns = 2
    Feeds = {"a", "b"}
    SeedFeeds = {"a"}
    MaxVersion = 2
    RepUserOps = 2
SPECIFICATION MCSpec
CHECK_DEADLOCK FALSE
INVARIANTS NeverStuckBusy AckSilences OneAlertPerFact HuntsNotClobbered CommittedBeforeSeen PruneComplete
