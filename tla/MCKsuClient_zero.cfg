SPECIFICATION Spec
CONSTANTS
    ArgLists <- MCArgLists
    EnvLists <- MCEnvLists
    FreeRegs <- MCFreeRegs
    MaxShown = 2
    MaxFd = 5
INVARIANT ZeroMeansFailure
CHECK_DEADLOCK FALSE
