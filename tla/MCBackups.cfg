SPECIFICATION Spec
CONSTANTS
    w1 = w1
    w2 = w2
    MaxId = 1
    Frequencies <- MCFrequencies
    Workers <- MCWorkers
    Operations <- AllOps
    NoRow = NoRow
    NoJob = NoJob
    NoArchive = NoArchive
SYMMETRY Symmetric
INVARIANTS
    TypeOK
    ScheduleMatchesUnlessDrifted
    SnapshotIsNewestUnlessRaced
    SequenceAhead
