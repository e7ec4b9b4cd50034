CONSTANTS
    t1 = t1
    t2 = t2
    Threads <- MCThreads
    Recordings <- MCRecordingsFlex
    Files <- MCFiles
    ScanOutcomes <- MCScanOutcomes
    Width = 3
    MaxOpens = 9
    StaleCloses = FALSE
    ExitWhileBusy = FALSE
SYMMETRY MCSymmetry
SPECIFICATION Spec
\* the process may exit: no step follows the static destructors
CHECK_DEADLOCK FALSE
INVARIANT OpenedHandleIsOwn
