SPECIFICATION Spec
CONSTANTS
    MaxTid = 5
    MaxPid = 4
    MaxKill = 1
    Sig = {"CHLD", "SEGV"}
    Misuse = {}
INVARIANTS
    TypeOK
    LinkedOnce
    QueueMatchesState
    NoFreedMemberOrHead
    RunningAllocated
    NoHalt
    OwnAddressSpace
    FamilyTree
PROPERTIES
    ReapedOnceFinished
