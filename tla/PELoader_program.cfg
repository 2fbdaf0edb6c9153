\* A fault ends the process.
CHECK_DEADLOCK FALSE
SPECIFICATION Spec
CONSTANTS
    LastPage = 4
    l1 = l1
    l2 = l2
    l3 = l3
    n1 = n1
    n2 = n2
    Loads <- MCLoads2
    Names <- MCNames1
    Images <- MCPrograms
    Direct = TRUE
    Provides <- MCAnyProvides
    System = System
    NoModule = NoModule
    Absent = Absent
    MaxTables = 2
INVARIANTS
    DllMainOnlyOfDlls
