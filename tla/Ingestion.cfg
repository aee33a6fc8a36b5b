SPECIFICATION FairSpec
CONSTANTS
    d1 = d1  d2 = d2   a = a  b = b
    Docs = {d1, d2}
    q = q
    Querier = q
    Callers = {d1, d2, q}
    Texts = {a, b}
    Empty = Empty
    Absent = Absent
    TextsOf <- MCTextsOf
    MetadataOf <- MCMetadataOf
    Relabels <- MCRelabels
    MayMove = FALSE
    Questions <- MCQuestions
    BatchSize = 2
    MaxCache = 1
    MaxQueries = 1
    MaxRemovals = 1
    TopK = 1
INVARIANTS
    StoreConsistent
    CacheBounded
    QueryFindsStored
PROPERTIES
    ImplementsDocumentStore
    IngestionsEnd
