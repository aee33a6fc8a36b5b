SPECIFICATION SplitterSpec
CONSTANTS
    Documents <- LongDocuments
    Configs <- MCConfigs
INVARIANT
    ChunkSizeIsMaximum
