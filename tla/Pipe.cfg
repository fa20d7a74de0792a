SPECIFICATION Spec
CONSTANTS
    Threads = {a, b, c}
    Byte = {0, 1}
    Size = 2
    Wrap = 4
    MaxWrite = 3
    ReadSizes = {1, 2}
    MaxOpen = 1
    LateOpen = FALSE
INVARIANTS
    TypeOK
    NoLostWakeup
    NoOverrun
PROPERTIES
    ImplementsChannel
SYMMETRY Symmetry
CHECK_DEADLOCK FALSE
