\* Modules that import each other in a circle are never unloaded, and nothing
\* moves once every load has ended in one, or after a fault: a state without
\* successors.
CHECK_DEADLOCK FALSE
SPECIFICATION Spec
SYMMETRY MCSymmetry
CONSTANTS
    LastPage = 6
    l1 = l1
    l2 = l2
    l3 = l3
    n1 = n1
    n2 = n2
    Loads <- MCLoads2
    Names <- MCNames2
    Images <- MCAllKinds
    Direct = TRUE
    Provides <- MCAnyProvides
    System = System
    NoModule = NoModule
    Absent = Absent
    MaxTables = 2
INVARIANTS
    TypeOK
    FaultsExplained
    MemoryOwned
    ImportsOutliveImporter
    NoForgottenModule
    TablesBacked
    PagesAsDeclared
    AttachedIsCallable
PROPERTIES
    Isolation
    ImplementsLifecycle
