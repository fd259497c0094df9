SPECIFICATION MCSpec
CONSTANTS
    n1 = n1
    n2 = n2
    n3 = n3
    n4 = n4
    n5 = n5
    Server = {n1, n2, n3, n4, n5}
    Nil = Nil
    NoCommand = NoCommand
    Peers <- FivePeers
    Command <- OneCommand
    snapshotThreshold = 9
    MaxTerm = 2
    MaxIndex = 0
    MaxLate = 0
INVARIANTS
    ElectionSafety
CONSTRAINTS
    OneAfterTheOther
