SPECIFICATION Spec
CONSTANTS
    Heads = {rq, w1, w2}
    Items = {t1, t2, t3, t4}
    RunQueue = rq
INVARIANTS
    MutualLinks
PROPERTIES
    WakeTerminates
    ImplementsQueues
