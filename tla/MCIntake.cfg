CONSTANTS
    Lines = {"a", "b", "c", "d", "blank", "huge"}
    Size <- MCSize
    QueueSize = 2
    QueueMaxBytes = 3
    Workers = 2
    Inserters = {w1, w2, w3}
    Threshold = 2
    Cooldown = 2
    MaxTime = 4
    MaxFrameBytes = 3
    MaxLenDigits = 2
    Letters = {"x"}
    c1 = c1
    c2 = c2
    c3 = c3
    Bindings <- MCBindings
    Conns = {c1, c2, c3}
    BindingOf <- MCBindingOf
    PeerIP <- MCPeerIP
    AllowNets = {"listed"}
    AllowHost = "named"
    NoHost = NoHost
    MaxConnections = 1
    Peers <- MCPeers
    Addresses = {"p1", "p2"}
    Down = "down"
    Direct = "direct"
    Client = "client"
    Retries = 2
    MaxMoves = 3
SPECIFICATION IntakeSpec
INVARIANTS BytesExact BytesBounded LinesAsSent
PROPERTIES RefusedOnlyWhenFull WindowNotExtended ConnectionsEnd ProxyRecognised
CHECK_DEADLOCK FALSE
