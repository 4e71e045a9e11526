SPECIFICATION BcSpec
CONSTANTS
    Waiters = {"x"}
    Loads <- SmallBuffer
INVARIANT CloseDisables
CHECK_DEADLOCK FALSE
