SPECIFICATION Spec
CONSTANTS
    Entries = 2
    AddrPages = 16
    Maps <- MCMaps
    FirstPos = {1, 3}
INVARIANTS
    OnePlace
    StorageFits
    PanicsOnlyWhenEmpty
    
PROPERTIES
    ImplementsAllocator
CHECK_DEADLOCK FALSE
