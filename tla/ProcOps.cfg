SPECIFICATION Spec
CONSTANTS
    Caller = {c1, c2}
    Other = {o1}
INVARIANTS
    SuccessWasHeard
    OthersLeftAlone
    PathHeldWhileUsed
CHECK_DEADLOCK FALSE
