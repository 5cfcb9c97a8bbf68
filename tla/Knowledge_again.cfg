SPECIFICATION Spec
CONSTANTS
    Files = {1}
    TextFiles = {1}
    Contents = {1, 2}
    ChunkCount <- MCChunkCount
    Requests = {r1}
    c1 = c1
    c2 = c2
    Contacts = {c1}
    Allowed <- MCAllowed
    IndexLimit = 1
    ChunkLimit = 1
    MaxRuns = 2
    MaxDisruptions = 0
INVARIANTS
    RegisteringExtracts
