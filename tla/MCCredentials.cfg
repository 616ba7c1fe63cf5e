SPECIFICATION Spec
CONSTANTS
    s1 = s1
    s2 = s2
    w1 = w1
    w2 = w2
    k1 = k1
    k2 = k2
    Submissions <- MCSubmissions
    Workers <- MCWorkers
    Keys <- MCKeys
    Credentials = {c1}
    Absent = Absent
    Blank = Blank
    Unknown = Unknown
    NoRow = NoRow
    Deleted = Deleted
    Null = Null
SYMMETRY Symmetric
INVARIANT TypeOK
INVARIANT SecretsReadableUnlessReplaced
PROPERTY OnlyCrossedEditsMix
