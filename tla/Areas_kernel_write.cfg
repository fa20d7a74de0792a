\* A system call stores its result in a page that is still shared after a fork.
SPECIFICATION Spec
CONSTANTS
    p1 = p1  p2 = p2
    Pid <- Two
    PageSize = 2
    NumPages = 7
    Segments <- Image
    StackTop = 14
    VideoPages = {0}
    Increments = {1}
    BrkLimit = 9
    Accessed = {7, 9, 11}
    Values = {"w"}
    File = "f"
    Cases = {"shared_kernel_write"}
SYMMETRY Symmetric
PROPERTIES
    OneMemoryAtATime
CHECK_DEADLOCK FALSE
