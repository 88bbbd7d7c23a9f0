CONSTANTS
    upload = upload
    correction = correction
    empty = empty
    truncate = truncate
    append = append
    update = update
    clear = clear
    reload = reload
    maintenance = maintenance
    enrich = enrich
    Writers <- MCWriters
    Truncates <- MCTruncates
    Want <- MCWant
    Rows = {1, 2, 3, 4}
    Initial = {1, 4}
    NoTable = NoTable
    NoWriter = NoWriter
    Calls = {upload, append, update, clear}
    Scenarios <- MCScenarios
    CallKind <- MCCallKind
    Brought <- MCBrought
    Original <- MCOriginal
    InitialRanges <- MCInitialRanges
    MaxRanges = 4
    Startup = Startup
    Job = Job
    NoStamp = NoStamp
    NoFile = NoFile
    Jobs = {reload, maintenance, enrich}
    JobKind <- MCJobKind
    Slots = 2
    NoJob = NoJob
SPECIFICATION GeoSpec
INVARIANTS IndexWasCommitted StampsHonest ReloadRepairs OnlyNewestRuns
PROPERTIES ReplaceIsAtomic BodiesInOrder ShutdownReturns
