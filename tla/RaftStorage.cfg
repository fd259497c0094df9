SPECIFICATION Spec
CONSTANTS
    Command <- ThreeTypesSet
    Proposed <- ThreeTypes
    NoCommand = NoCommand
    NotFound = NotFound
    MaxTerm = 4
    MaxIndex = 5
INVARIANTS
    LogWellFormed
    ConflictIndexLoopMatches
    MergeLoopMatches
    MergeStoresTheEntries
    SavedLogReadsBack
    TornFileIsRefused
    TornCommandIsRefused
    GetReturnsTheLastWrites
    SnapshotReadsBack
