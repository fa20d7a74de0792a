SPECIFICATION FairSpec
CONSTANTS
    Threads = {a, b, c}
    Byte = {0}
    Size = 1
    Wrap = 2
    MaxWrite = 2
    ReadSizes = {1, 2}
    MaxOpen = 2
    LateOpen = FALSE
PROPERTIES
    ReadersServed
    WritersServed
CHECK_DEADLOCK FALSE
