SPECIFICATION MCSpec
CONSTANTS
    Files = {1, 2}
    TextFiles = {1}
    Contents = {1, 2}
    ChunkCount <- MCChunkCount
    Requests = {r1, r2}
    c1 = c1
    c2 = c2
    Contacts = {c1, c2}
    Allowed <- MCAllowed
    IndexLimit = 1
    ChunkLimit = 1
    MaxRuns = 2
    MaxDisruptions = 1
INVARIANTS
    TypeOK
    VectorsAreOfTheirChunks
    DocumentsAreWhole
PROPERTIES
    EmbeddingsCatchUp
