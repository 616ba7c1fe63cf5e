SPECIFICATION Spec
CONSTANTS
    MaxId = 2
    MaxOid = 3
    c1 = c1
    c2 = c2
    w1 = w1
    w2 = w2
    Contents <- MCContents
    Workers <- MCWorkers
    NoFile = NoFile
    NoObject = NoObject
    NoBlob = NoBlob
    NoArchive = NoArchive
SYMMETRY Symmetric
INVARIANT TypeOK
INVARIANT NoDanglingOid
INVARIANT OrphansComeFromRestores
INVARIANT ContentMatchesHashUnlessRewound
INVARIANT FullVaultIsCompleteUnlessTorn
