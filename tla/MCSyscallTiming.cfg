SPECIFICATION Spec
CONSTANTS
    Iterations = 2
    CallTimes <- MCCallTimes
    Digits = 2
    Samples = 4
    Batch = 8
    BatchTimes <- MCBatchTimes
INVARIANTS
    HeaderIsTrue
    ResultIsOwn
    EveryLineOnce
    OutliersDoNotDecide
    VerdictHasBoth
PROPERTY Ends
CHECK_DEADLOCK FALSE
