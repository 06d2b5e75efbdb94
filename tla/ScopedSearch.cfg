SPECIFICATION LiveSpec
CONSTANTS
    Plugins = {p1, p2, p3}
    PartialDeadline = 2
    HardFloor = 3
CHECK_DEADLOCK FALSE
INVARIANTS
    FinalIsComplete
PROPERTIES
    ImplementsScopeStream
    SomethingIsShown
    AnswersLeadToFinal
