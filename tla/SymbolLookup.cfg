SPECIFICATION Spec
CONSTANTS
    Modules <- MCModules
    Names <- MCNames
    Symbols <- MCSymbols
    Exports <- MCExports
    Imports <- MCImports
    Serves <- MCServes
    Null = Null
    Absent = Absent
    Unasked = Unasked
    MaxNested = 2
    MaxCalls = 6
INVARIANTS
    TypeOK
    AnswersLive
    ThunksLive
PROPERTIES
    AnswersStay
    CallsEnd
\* Once every module is gone nothing is left to do.
CHECK_DEADLOCK FALSE
