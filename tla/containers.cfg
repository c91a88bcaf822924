SPECIFICATION MCSpec
CONSTANTS
    ItemCount = 3
    MaxWritten = 10
    ChunkSize = 2
    Handles = {h1, h2}
    NULL = NULL
    MaxSize = 5
    Chunk = 3
    Elements = {1, 2}
    MaxLength = 5
INVARIANT ListFits SameContent
PROPERTY InOrder
CHECK_DEADLOCK FALSE
