SPECIFICATION Spec
CONSTANTS
    Others = {p1, p2}
    Handles = {h1, h2, h3}
    Objects = {o1, o2, o3}
    Places = {a, b}
    None = None
    Null = Null
    Closed = Closed
SYMMETRY MCSymmetry
INVARIANTS
    TypeOK
    HandlesOwned
    BlocksReachTheirProcess
    FailuresExplained
\* The program ends, or has lost all of its handles.
CHECK_DEADLOCK FALSE
