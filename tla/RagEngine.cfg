SPECIFICATION Spec
CONSTANTS
    Docs = {d1, d2}
    Ids = {i1, i2, i3}
    Namespaces = {default, prod}
    Absent = Absent
    MayMove = FALSE
INVARIANTS
    IndexExact
    StoredUntilRemoved
PROPERTIES
    ImplementsVectorStore
