SPECIFICATION Spec
CONSTANTS
    Word <- MCWord
    Images <- MCImages
    MaxIter = 3
    PageSize = 32
INVARIANTS
    BootTypeOK
    FoundIsEntry
    ScanComplete
    RangeReported
    NoNullCall
    KprobeBalanced
    HuntFindsFirst
    HuntLookupsAreSafe
PROPERTY
    ImplementsLoad
CHECK_DEADLOCK FALSE
