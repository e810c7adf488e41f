CONSTANTS
    First = First
    Second = Second
    Cameras = {First, Second}
    NoCamera = NoCamera
    MaxRuns = 6
    MaxFaults = 2
    MaxRemovals = 2
    MaxSeeds = 2
SPECIFICATION MCSpec
INVARIANTS TypeOK RootFilesMatch RegisteredCertificateSaved
PROPERTIES NothingOverwritten OutcomeTrue RegisteredStayAccepted
CHECK_DEADLOCK FALSE
