CONSTANTS
    Workers = {w1, w2}
    LogLines = {a}
    BadLines = {x}
    SkipLines = {s}
    RejectLines = {}
    EmptyLines = {}
    Lines <- MCLines
    Kind <- MCKind
    RawSize <- MCRawSize
    QueueSize = 1
    BatchSize = 2
    BufFactor = 1
    BufMin = 1
    BufHardCap = 3
    ErrBufBytes = 3
    Attempts = 1
    Threshold = 2
    AckLoss = FALSE
    MaxRows = 2
SPECIFICATION LiveSpec
PROPERTIES BacklogClears ShutdownCompletes
