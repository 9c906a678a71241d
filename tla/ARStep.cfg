SPECIFICATION FairSpec
CONSTANTS
    TimeEnd = 7
    DsMax = 2
    ErrMax = 1
    LongGain = 4
    Factors = {2}
    NInitial = 2
    NReduceLevel = 1
    SmallStep = 3
    StepCountMax = 3
    MaxEvents = 2
    Options = {1, 2}
CHECK_DEADLOCK FALSE
INVARIANTS TypeOK ModificationsKept ReportsWorst
PROPERTIES BackupsAdvance Returns
