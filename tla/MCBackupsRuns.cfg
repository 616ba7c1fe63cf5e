SPECIFICATION FairSpec
CONSTANTS
    w1 = w1
    w2 = w2
    MaxId = 1
    Frequencies <- MCFrequencies
    Workers <- MCWorkers
    Operations <- ScheduledOps
    NoRow = NoRow
    NoJob = NoJob
    NoArchive = NoArchive
PROPERTY ScheduledRunEnds
