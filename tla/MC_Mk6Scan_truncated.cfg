CONSTANTS
    Mountpoints <- MCMountpoints
    FileOf <- MCFilesTruncated
    FH = 2
    WBH = 2
    CreateMayFail = FALSE
    OpenMayFail = FALSE
SPECIFICATION Spec
\* scanMk6Recording returns once every thread is joined
CHECK_DEADLOCK FALSE
INVARIANT ChunkInsideFile
