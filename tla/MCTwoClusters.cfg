CONSTANTS
    NUMBER_OF_VMS = 2
    NUMBER_OF_PROCESS = 2
    MemoryNeeds = {2, 3}
    NetNeeds = {2}
    Rounding = 1
SPECIFICATION FairSpec
INVARIANTS
    UseIsAccounted
    NoTaskSendsToClosedMailbox
    OnlyRoundingHeldAtShutdown
    FinishComesLast
PROPERTIES
    ImplementsBalance
    SimulationEnds
CHECK_DEADLOCK FALSE
