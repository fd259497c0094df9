SPECIFICATION MCSpec
CONSTANTS
    n1 = n1
    n2 = n2
    n3 = n3
    Server = {n1, n2, n3}
    Nil = Nil
    NoCommand = NoCommand
    Peers <- TestPeers
    Command <- OneCommand
    snapshotThreshold = 9
    MaxTerm = 2
    MaxIndex = 1
    MaxLate = 0
INVARIANTS
    OneVotePerTerm
    ElectionSafetyUnlessImpostor
    WinnersHaveMajority
    LeaderHintIsWinner
    CommitKeepsUp
    LogsAreSafe
PROPERTIES
    NothingGoesBack
    LeaderAppendOnly
    RejectionBacktracks
