SPECIFICATION Spec
CONSTANTS
    NCluster = 3
    NThread = 2
    NHardInt = 2
    Dts = {1, 2}
    MaxInterrupts = 4
    MaxTime = 3
INVARIANT EnergyCumulative
CHECK_DEADLOCK FALSE
