SPECIFICATION MCSpec
CONSTANTS
    n1 = n1
    n2 = n2
    n3 = n3
    Server = {n1, n2, n3}
    Nil = Nil
    NoCommand = NoCommand
    Peers <- TestPeers
    Command <- TwoCommands
    snapshotThreshold = 1
    MaxTerm = 1
    MaxIndex = 3
    MaxLate = 0
INVARIANTS
    SameStore
