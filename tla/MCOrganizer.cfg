CONSTANTS
    NUMBER_OF_VMS = 4
    NUMBER_OF_INVOLVED_HOST = 2
    PM_CAPACITY = 3
    Scores = {0, 2, 4}
    GAIN = 1
SPECIFICATION OrganizerSpec
INVARIANTS
    RecordedOnce
    RecordIsActual
    HostsWithinCapacity
PROPERTIES
    ImplementsPlacement
CHECK_DEADLOCK FALSE
