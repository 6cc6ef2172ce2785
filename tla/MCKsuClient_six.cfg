SPECIFICATION Spec
CONSTANTS
    ArgLists <- MCArgLists
    EnvLists <- MCEnvLists
    FreeRegs <- MCFreeRegs
    MaxShown = 2
    MaxFd = 5
INVARIANT SixArguments
CHECK_DEADLOCK FALSE
