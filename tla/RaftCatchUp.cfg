SPECIFICATION MCFairSpec
CONSTANTS
    n1 = n1
    n2 = n2
    Server = {n1, n2}
    Nil = Nil
    NoCommand = NoCommand
    Peers <- TwoPeers
    Command <- OneCommand
    snapshotThreshold = 9
    MaxTerm = 3
    MaxIndex = 2
    MaxLate = 1
INVARIANTS
    MatchIndexSound
    LogsAreSafe
PROPERTIES
    NothingGoesBack
    CallsEnd
    FollowersCatchUp
