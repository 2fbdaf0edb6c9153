CHECK_DEADLOCK FALSE
SPECIFICATION Spec
CONSTANTS
    Radix = 2
    HighLow = 2
    Dir64 = 4
    PageSize = 8
    SizeLimit = 32
    BaseField = 1
    Images <- MCFewImages
    Bases = {0, 5, 11}
INVARIANTS
    SlicesAreRanges
