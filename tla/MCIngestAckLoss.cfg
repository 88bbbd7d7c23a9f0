CONSTANTS
    Workers = {w1, w2}
    LogLines = {a, b}
    BadLines = {}
    SkipLines = {}
    RejectLines = {}
    EmptyLines = {}
    Lines <- MCLines
    Kind <- MCKind
    RawSize <- MCRawSize
    QueueSize = 2
    BatchSize = 2
    BufFactor = 1
    BufMin = 1
    BufHardCap = 3
    ErrBufBytes = 3
    Attempts = 2
    Threshold = 2
    AckLoss = TRUE
    MaxRows = 2
SPECIFICATION Spec
SYMMETRY Symmetry
INVARIANT AtMostOnce
