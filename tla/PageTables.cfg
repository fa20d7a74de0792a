\* The master and two directories, one user table, a heap that reaches its second and third
\* table in steps of up to two pages.
SPECIFICATION Spec
CONSTANTS
    MaxPd = 2
    TableSize = 2
    UserTables = 1
    HeapTables = 3
    MaxIncr = 2
    Cases = {}
INVARIANTS
    KernelTablesAgree
    HeapReachable
PROPERTIES
    UserViewsApart
CHECK_DEADLOCK FALSE
