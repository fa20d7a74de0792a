\* Two processes of three slots, one pipe of their own, the image with and
\* without the files for the devices.
SPECIFICATION Spec
CONSTANTS
    Dirs <- Tree
    Images <- Both
    Pipes = {0, 1, 2}
    Pid = {1, 2}
    Init1 = 1
    NumFiles = 3
    Opened <- Shell
    Looked <- Stats
    Paths <- Places
    Executable <- init
    Entries = {0, 1, 2}
    MaxUsed = 4
    MaxRefs = 7
    MaxDuped = 1
    Cases = {}
INVARIANTS
    TypeOK
    UsersCounted
    NoDanglingInode
    PathsResolve
    LookupNeutral
CHECK_DEADLOCK FALSE
