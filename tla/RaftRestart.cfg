SPECIFICATION MCSpec
CONSTANTS
    n1 = n1
    n2 = n2
    n3 = n3
    Server = {n1, n2, n3}
    Nil = Nil
    NoCommand = NoCommand
    NoFile = NoFile
    Peers <- TestPeers
    Command <- OnePut
    snapshotThreshold = 1
    Durable = {n1, n3}
    MaxTerm = 1
    MaxIndex = 1
    MaxLate = 0
    MaxStops = 2
    MaxCutSaves = 1
INVARIANTS
    OneVotePerTerm
    ElectionSafetyUnlessImpostor
    DiskIsCurrent
CONSTRAINTS
    OnlyVoter
