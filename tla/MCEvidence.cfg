SPECIFICATION Spec
CONSTANTS
    w1 = w1
    w2 = w2
    tech = tech
    sub = sub
    Techniques <- MCTechniques
    Parent <- MCParent
    Releases <- MCReleases
    NoParent = NoParent
    NotRefreshing = NotRefreshing
    Loot = {l1}
    Threads <- MCThreads
    Findings = {f1}
    Entries = {x1}
    Others = {i1}
    Mappings = {m1}
    Unborn = Unborn
    Live = Live
    Deleted = Deleted
    NoRow = NoRow
SYMMETRY Symmetric
INVARIANT TypeOK
PROPERTY OnlyLinkedLootStays
PROPERTY OnlyCrossedEditsMerge
PROPERTY UsesStayOnMatrix
CHECK_DEADLOCK FALSE
