CONSTANTS
    Settings <- MCFewVMs
    Sequences = {1}
SPECIFICATION LoopSpec
PROPERTY TaskTerminates
CHECK_DEADLOCK FALSE
