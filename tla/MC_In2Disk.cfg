CONSTANTS
    Recorders <- MCRecorders
    Faults <- MCFaultsRecovered
    MaxScans = 3
SPECIFICATION Spec
INVARIANT TypeOK
INVARIANT ScanDirectoryMatchesMode
