\* A fault ends the process.
CHECK_DEADLOCK FALSE
SPECIFICATION FairSpec
CONSTANTS
    LastPage = 3
    l1 = l1
    l2 = l2
    l3 = l3
    n1 = n1
    n2 = n2
    Loads <- MCLoads3
    Names <- MCNames1
    Images <- MCSmalls
    Direct = FALSE
    Provides <- MCChain3
    System = System
    NoModule = NoModule
    Absent = Absent
    MaxTables = 2
INVARIANTS
    ImportsOutliveImporter
PROPERTIES
    DroppedModulesAreUnloaded
