\* Two processes with a segment that ends in the middle of a page, and a heap
\* that grows within that page, up to its end, to the next page from there, and
\* into the next page at once.  Programs use the page of the segment, which is
\* one area with the heap until a write after a fork cuts it out.
SPECIFICATION Spec
CONSTANTS
    p1 = p1  p2 = p2
    Pid <- Two
    PageSize = 3
    NumPages = 7
    Segments <- HalfPage
    StackTop = 21
    VideoPages = {0}
    Increments = {1, 2}
    BrkLimit = 10
    Accessed = {6}
    Values = {"w"}
    File = "f"
    Cases = {}
SYMMETRY Symmetric
INVARIANTS
    TypeOK
    AreasSorted
    SharingSound
    PagesFitAreas
    NoHalt
PROPERTIES
    ImplementsPrivateMemory
CHECK_DEADLOCK FALSE
