SPECIFICATION Spec
CONSTANTS
    NumPkt = 3
    NumFrag = 4
    UShortMax = 10
    MaxFrags = 2
    MaxResets = 1
PROPERTIES DrainsAfterCancel
CHECK_DEADLOCK FALSE
