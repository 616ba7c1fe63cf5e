SPECIFICATION FairSpec
CONSTANTS
    u1 = u1
    u2 = u2
    w1 = w1
    w2 = w2
    Users <- MCUsers
    Workers <- MCWorkers
    Holders <- MCHolders
    Visitors <- MCVisitors
    Keys = {k1}
    Todos = {t1}
    KeyOperations = {"complete"}
    Unissued = Unissued
    Nobody = Nobody
    NoKey = NoKey
    Unborn = Unborn
    Deleted = Deleted
INVARIANT TypeOK
PROPERTY OnlyACrossedCompletionTears
PROPERTY DoneStaysWithItsOwner
PROPERTY ImplementsTaskBoard
PROPERTY RevocationIsFinal
PROPERTY SilencedKeyStopsWriting
