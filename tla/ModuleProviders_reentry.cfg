\* A lookup that has a handle and no storage left for it ends the run: the
\* bounds Objects and MaxLost.
CHECK_DEADLOCK FALSE
SPECIFICATION Spec
SYMMETRY MCSymmetry
CONSTANTS
    a = a
    b = b
    c = c
    o1 = o1
    o2 = o2
    o3 = o3
    Names <- MCNames
    Objects <- MCObjects
    Asks <- MCAsks
    Absent = Absent
    MaxShared = 2
    MaxLost = 1
INVARIANTS
    TypeOK
    HandlesCounted
    HeldIsLoaded
    OnePerName
