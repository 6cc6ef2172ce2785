SPECIFICATION Spec
CONSTANTS
    Word <- MCWord
    Images <- MCImages
    MaxIter = 3
    PageSize = 32
INVARIANT PageWalkInPage
CHECK_DEADLOCK FALSE
