CONSTANTS
    RecCalls <- MCRecAnchored
    Mountpoints <- MCMountpointsOne
    Dir <- MCDirOther
    ListMayFail = FALSE
    Unlinkers = FALSE
    Alphabet = {"r", "<"}
    MaxBaseLen = 2
SPECIFICATION Spec
\* one vbs_open call: it ends when the call has returned or thrown
CHECK_DEADLOCK FALSE
INVARIANT OpenedRecordingIsRec
