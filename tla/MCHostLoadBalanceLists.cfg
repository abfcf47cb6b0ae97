CONSTANTS
    no_vm = 8
    number_of_involved_host = 3
    MAX_VM_TO_PM = 3
    Byte = 5
    IntSize = 2
    MaximumBound = 6
SPECIFICATION Spec
INVARIANT ListsNameTheVms
CHECK_DEADLOCK FALSE
