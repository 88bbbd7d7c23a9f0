CONSTANTS
    Workers = {w1, w2}
    LogLines = {a, b, c}
    BadLines = {x}
    SkipLines = {}
    RejectLines = {}
    EmptyLines = {e}
    Lines <- MCLines
    Kind <- MCKind
    RawSize <- MCRawSize
    QueueSize = 2
    BatchSize = 2
    BufFactor = 1
    BufMin = 1
    BufHardCap = 3
    ErrBufBytes = 3
    Attempts = 2
    Threshold = 1
    AckLoss = FALSE
    MaxRows = 2
SPECIFICATION Spec
SYMMETRY Symmetry
INVARIANTS EveryLineAccounted Drained
PROPERTY ImplementsContract
CONSTRAINT FourArrive
