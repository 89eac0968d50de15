SPECIFICATION Spec
CONSTANTS
    Versions = {1601, 1664, 1673}
    Raced = {}
INVARIANT InterruptsEnabled
CHECK_DEADLOCK FALSE
