CONSTANTS
    t1 = t1
    t2 = t2
    Threads <- MCThreads
    Recordings <- MCRecordings
    Files <- MCFiles
    ScanOutcomes <- MCScanOutcomes
    Width = 8
    MaxOpens = 4
    StaleCloses = FALSE
    ExitWhileBusy = FALSE
SYMMETRY MCSymmetry
SPECIFICATION Spec
\* the process may exit: no step follows the static destructors
CHECK_DEADLOCK FALSE
INVARIANT TypeOK
INVARIANT OpenedHandleIsOwn
INVARIANT NoFdLeak
