SPECIFICATION RpcSpec
CHECK_DEADLOCK FALSE
CONSTANTS
    n1 = n1
    n2 = n2
    Server = {n1, n2}
    Nil = Nil
    NoCommand = NoCommand
    Peers <- TwoPeers
    Command <- OneCommand
    snapshotThreshold = 9
    MaxTerm = 1
    MaxIndex = 0
    MaxLate = 0
PROPERTIES
    CallsReturn
