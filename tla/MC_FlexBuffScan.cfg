CONSTANTS
    RecCalls <- MCRecCalls
    Mountpoints <- MCMountpoints
    Dir <- MCDir
    ListMayFail = TRUE
    Unlinkers = TRUE
    Alphabet = {"r", "1", ".", "-"}
    MaxBaseLen = 3
SPECIFICATION Spec
\* one vbs_open call: it ends when the call has returned or thrown
CHECK_DEADLOCK FALSE
INVARIANT TypeOK
INVARIANT OpenedRecordingIsRec
INVARIANT NameMatchSound
