SPECIFICATION SplitterSpec
CONSTANTS
    Documents <- MCDocuments
    Configs <- MCConfigs
INVARIANTS
    ChunksFaithful
    SizeBound
    PositionsExact
