SPECIFICATION FairSpec
CONSTANTS
    MaxTid = 4
    MaxPid = 3
    MaxKill = 1
    Sig = {"KILL", "TERM"}
    Misuse = {}
PROPERTIES
    NoStarvation
    Reaped
    SignalTaken
