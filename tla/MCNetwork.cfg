SPECIFICATION Spec
CONSTANTS
    n1 = n1
    n2 = n2
    n3 = n3
    w1 = w1
    w2 = w2
    Nodes <- MCNodes
    Workers <- MCWorkers
    Attacker = Attacker
    Target = Target
    Edges = {e1}
    Services = {s1}
    Entries = {x1}
    Unborn = Unborn
    Deleted = Deleted
    Nowhere = Nowhere
SYMMETRY Symmetric
INVARIANT TypeOK
INVARIANT PathsStayInPane
PROPERTY OnlyCrossedEditsLoop
