CONSTANTS
    NodeCounts <- Two
    Lifetimes = 2
    BatchCounts <- OneOrTwo
    Time = 2
    WarmUp = 1
    CoolDown = 1
    MaxService = 3
    MaxRuns = 2
SPECIFICATION FairSpec
INVARIANTS
    TypeOK
    EveryAddressIsAStation
    BatchesCountTheirWindow
    EveryBatchIsWrittenOnce
    ReportIsNumeric
PROPERTIES
    RunReturns
