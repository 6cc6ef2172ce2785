SPECIFICATION Spec
CONSTANTS
    Proc = {p1, p2}
    Commands <- MCCommands
    Keys = {"chrome", "shell"}
    Managers = {10100}
    ManagerProfiles <- MCManagerProfiles
    None = None
INVARIANT
    TypeOK
PROPERTIES
    RootOnlyByRequest
    GrantIsDefaultProfile
    UpdatesNeedAProfile
    SystemUidsUntouched
    Exits
CHECK_DEADLOCK FALSE
