CONSTANTS
    n1 = n1
    n2 = n2
    n3 = n3
    a = a
    b = b
    home = home
    none = none
    Node <- Hosts3
    VM <- TwoVMs
    Home <- home
    None <- none
    Startable <- NoVMs
    MaxCommands = 3
    Careful = TRUE
    MayFail = FALSE
SPECIFICATION FairSpec
INVARIANTS
    UpIsRunning
    OneHost
PROPERTIES
    TeleportCompletes
    HomeIsReached
    ImplementsJourneys
CHECK_DEADLOCK FALSE
