CONSTANTS
    n1 = n1
    n2 = n2
    n3 = n3
    a = a
    b = b
    home = home
    none = none
    Node <- Hosts3
    VM <- OneVM
    Home <- home
    None <- none
    Startable <- NoVMs
    MaxCommands = 2
    Careful = TRUE
    MayFail = FALSE
SPECIFICATION Spec
INVARIANT AllowsMultipleIncoming
CHECK_DEADLOCK FALSE
