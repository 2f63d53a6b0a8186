CONSTANTS
    MaxTime = 9
    MaxTied = 1
    Widths <- TwoWidths
SPECIFICATION Spec
INVARIANTS
    TypeOK
    CountsAreDistinctTimes
    NeverBackwards
PROPERTIES
    QueueSpec
