CONSTANTS
    Chunks <- MCChunks
    SrcLen <- MCSrcLen
    ReadCounts <- MCReadCounts
    SeekOffsets <- MCSeekOffsets
    IoErrors = TRUE
    MaxPosition = 7
SPECIFICATION Spec
INVARIANT TypeOK
INVARIANT CursorSound
INVARIANT ReadDeliversStream
INVARIANT LazyFdBound
PROPERTY ReadReturns
PROPERTY ImplementsByteStream
