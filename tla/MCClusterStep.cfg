SPECIFICATION StepSpec
CONSTANTS
    Particle = {1, 2, 3, 4, 5}
    Rank = {0, 1, 2}
    Relations <- MCRelations
    Homes <- MCHomes
    Orders <- MCOrders
    Plans <- MCPlans
    Evolving = {2}
INVARIANTS
    IdsAreClusters
    IdsStayInCluster
    BufferNotReused
    WholeClusterOnce
    MessagesExpected
    KickedAlike
    HomeAlike
    MassChangesListed
PROPERTIES
    RoundsEnd
    StepEnds
CHECK_DEADLOCK FALSE
