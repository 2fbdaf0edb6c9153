\* Modules that use each other in a circle are never retired: once all are in
\* one, nothing moves.
CHECK_DEADLOCK FALSE
SPECIFICATION Spec
CONSTANTS
    Loads = {l1, l2, l3}
    Page = {1, 2, 3}
    Nobody = Nobody
INVARIANTS
    UsedModulesAreReady
    AbsentLeavesNothing
