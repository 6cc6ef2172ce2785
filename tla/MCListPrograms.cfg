SPECIFICATION Spec
CONSTANTS
    Strings <- MCStrings
    MaxEntries = 3
    MaxChanges = 2
    StackBytes = 12
    SULOG_ENTRY_MAX = 3
    MaxLogged = 7
    Inserts <- MCInserts
    OtherWords <- MCOtherWords
    Hashes <- MCHashes
INVARIANTS
    PrintsTheList
    SulogIsOrdered
    TableIsTheSet
PROPERTY ListProgramEnds
CHECK_DEADLOCK FALSE
