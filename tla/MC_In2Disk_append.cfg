CONSTANTS
    Recorders <- MCRecorders
    Faults <- MCFaultsAppend
    MaxScans = 3
SPECIFICATION Spec
INVARIANT ScanDirectoryMatchesMode
