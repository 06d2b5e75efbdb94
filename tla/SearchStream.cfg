SPECIFICATION LiveSpec
CONSTANTS
    Scopes = {s1, s2}
    BufferSize = 4
    WireSize = 1
    MaxQueries = 2
    MaxSwitches = 1
    LastBeforeExit = 1
INVARIANTS
    NothingIsDropped
    ClosedMeansFinal
    ColumnsEndFinal
PROPERTIES
    ColumnsOnlyAdvance
    SearchesEnd
\* the user may stop searching
CHECK_DEADLOCK FALSE
