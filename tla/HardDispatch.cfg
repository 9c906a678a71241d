SPECIFICATION FairSpec
CONSTANTS
    NCluster = 3
    NThread = 2
    NHardInt = 2
    Dts = {1, 2}
    MaxInterrupts = 4
    MaxTime = 3
INVARIANTS
    OwnIntegrators
    ListExact
PROPERTIES
    DriftsTogether
    CallsReturn
CHECK_DEADLOCK FALSE
