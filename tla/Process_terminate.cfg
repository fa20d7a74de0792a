SPECIFICATION Spec
CONSTANTS
    MaxTid = 5
    MaxPid = 4
    MaxKill = 1
    Sig = {"TERM"}
    Misuse = {}
PROPERTIES
    TerminatesTarget
