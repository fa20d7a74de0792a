\* A stack that has a page already is used below it.
SPECIFICATION Spec
CONSTANTS
    p1 = p1  p2 = p2
    Pid <- Two
    PageSize = 2
    NumPages = 7
    Segments <- Image
    StackTop = 14
    VideoPages = {0}
    Increments = {1}
    BrkLimit = 9
    Accessed = {7, 9, 11}
    Values = {"w"}
    File = "f"
    Cases = {"deep_stack"}
SYMMETRY Symmetric
INVARIANTS
    NeighboursDoNotCollide
CHECK_DEADLOCK FALSE
