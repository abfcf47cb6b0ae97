CONSTANTS
    n1 = n1
    n2 = n2
    a = a
    b = b
    p = p
    None = None
    NoReport = NoReport
    Node <- Hosts
    VM <- Machines
    Client <- Clients
    MaxMoves = 2
    MaxJunk = 1
SPECIFICATION FairSpec
INVARIANTS
    UndisturbedServes
    AnswersAgree
PROPERTIES
    HostsGetListed
    ClientsAreAnswered
CHECK_DEADLOCK FALSE
