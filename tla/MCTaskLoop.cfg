CONSTANTS
    Settings <- MCSettings
    Sequences = {0, 1, 3}
SPECIFICATION LoopSpec
INVARIANTS
    SharesAsConfigured
PROPERTY TaskTerminates
CHECK_DEADLOCK FALSE
