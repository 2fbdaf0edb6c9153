\* A load ends: with the image in place, refused, or with a fault.
SPECIFICATION ContentsSpec
CHECK_DEADLOCK FALSE
CONSTANTS
    Radix = 2
    HighLow = 2
    Dir64 = 4
    PageSize = 8
    SizeLimit = 32
    BaseField = 1
    Images <- MCFileImages
    Bases = {0, 5, 11}
INVARIANTS
    ContentsTypeOK
    MappedAsDeclared
    ReadsStayInFile
    NeutralAtPreferred
    StaysInImage
    MovedAsListed
