CONSTANTS
    NUMBER_OF_VMS = 2
    NUMBER_OF_INVOLVED_HOST = 2
    PM_CAPACITY = 2
    Scores = {0, 2}
    GAIN = 1
    NUMBER_OF_PROCESS = 3
    MemoryNeeds = {1}
    NetNeeds = {1}
    Rounding = 0
    COMM_TASK_SIZE = 1
SPECIFICATION FairSpec
INVARIANTS
    JobsWithinMaximum
    EvenlyDealt
    NoTaskSendsToClosedMailbox
    NothingHeldAtShutdown
PROPERTIES
    ImplementsBalance
    SimulationEnds
CHECK_DEADLOCK FALSE
