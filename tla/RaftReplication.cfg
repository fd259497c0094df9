SPECIFICATION MCSpec
CONSTANTS
    n1 = n1
    n2 = n2
    n3 = n3
    Server = {n1, n2, n3}
    Nil = Nil
    NoCommand = NoCommand
    Peers <- TestPeers
    Command <- TwoCommands
    snapshotThreshold = 9
    MaxTerm = 2
    MaxIndex = 2
    MaxLate = 0
INVARIANTS
    LogMatching
    LeaderCompletenessUnlessImpostor
    StateMachineSafetyUnlessImpostor
    MatchIndexSoundUnlessImpostor
    CommittedIsAppliedUnlessImpostor
    AppliedOnceUnlessImpostor
PROPERTIES
    ImplementsReplicatedStore
CONSTRAINTS
    InTurn
    NoImpostor
