\* A fault ends the process.
CHECK_DEADLOCK FALSE
SPECIFICATION FairSpec
CONSTANTS
    LastPage = 6
    l1 = l1
    l2 = l2
    l3 = l3
    n1 = n1
    n2 = n2
    Loads <- MCLoads2
    Names <- MCNames2
    Images <- MCDlls
    Direct = TRUE
    Provides <- MCChain2
    System = System
    NoModule = NoModule
    Absent = Absent
    MaxTables = 2
PROPERTIES
    LoadsSettle
    DroppedModulesAreUnloaded
