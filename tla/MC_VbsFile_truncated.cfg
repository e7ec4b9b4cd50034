CONSTANTS
    Chunks <- MCChunks
    SrcLen <- MCSrcLenTruncated
    ReadCounts <- MCReadCounts
    SeekOffsets <- MCSeekOffsets
    IoErrors = FALSE
    MaxPosition = 7
SPECIFICATION Spec
PROPERTY ReadReturns
