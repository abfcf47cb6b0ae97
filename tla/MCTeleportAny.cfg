CONSTANTS
    n1 = n1
    n2 = n2
    n3 = n3
    a = a
    b = b
    home = home
    none = none
    Node <- Hosts3
    VM <- TwoVMs
    Home <- home
    None <- none
    Startable <- TwoVMs
    MaxCommands = 4
    Careful = FALSE
    MayFail = TRUE
SPECIFICATION Spec
SYMMETRY Symmetry32
INVARIANTS
    TypeOK
    HistoryIsJourney
    HeldRuns
    RunningIsFound
    NotUpIsStopped
CHECK_DEADLOCK FALSE
