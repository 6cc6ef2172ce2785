SPECIFICATION Spec
CONSTANTS
    ArgLists <- MCArgLists
    EnvLists <- MCEnvLists
    FreeRegs <- MCFreeRegs
    MaxShown = 2
    MaxFd = 5
INVARIANTS
    RootBeforeShell
    HandsOverArguments
    DescriptorsAtEnd
    PrintsWhatItWasGiven
    CallArrives
PROPERTY Ends
CHECK_DEADLOCK FALSE
