SPECIFICATION Spec
CONSTANTS
    IPs = {"ip"}
    Users = {"root", "op"}
    Policies <- MCPolicies
    GcThreshold = 2
    Retain = 2
    MaxAudit = 1
    MaxTime = 4
    NoBucket = NoBucket
    Clients = {c1, c2}
    Scenarios <- MCScenarios
    Admin = "root"
    Operator = "op"
    AdminMustReset = FALSE
    MaxSessions = 2
    MaxRequests = 4
    MaxFaults = 2
    NoUser = NoUser
    TokenIds = {1, 2}
    MaxTokens = 2
    MaxSecrets = 3
    MaxTokenFaults = 2
    NoToken = NoToken
    Putters = {p1, p2}
    Kinds = {"retention", "policy", "anomaly", "tls", "templates"}
    Values = {0, 3, 9}
    LowValue = 1
    HighValue = 10
    DefaultValue = 5
    HourlyCap = 7
    Owners = {"root", "op"}
    TemplateIds = {1, 2}
    MaxPerUser = 1
    MaxTemplatesAll = 1
    MaxPuts = 2
    MaxSettingFaults = 2
    Writers = {w1, w2}
    Readers = {r1}
    Platforms = {"unix", "windows"}
    ReplaceAttempts = 2
    MaxWrites = 2
    MaxFileFaults = 2
    NoFile = NoFile
SYMMETRY Symmetry
INVARIANTS RevokedIsRefused AdminRemains GuessesBounded RetiredIsRefused ReportedIsEffective FileWhole
CHECK_DEADLOCK FALSE
