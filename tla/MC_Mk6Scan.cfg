CONSTANTS
    Mountpoints <- MCMountpoints
    FileOf <- MCFiles
    FH = 2
    WBH = 2
    CreateMayFail = TRUE
    OpenMayFail = TRUE
SPECIFICATION Spec
\* scanMk6Recording returns once every started thread is joined, or the
\* process has aborted
CHECK_DEADLOCK FALSE
INVARIANT TypeOK
INVARIANT ScanComplete
INVARIANT NoThreadOutlivesScan
PROPERTY ScanTerminates
