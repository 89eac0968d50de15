SPECIFICATION Spec
CONSTANTS
    NumPkt = 3
    NumFrag = 3
    UShortMax = 10
    MaxResets = 1
PROPERTIES RxDisabledByCancel
CHECK_DEADLOCK FALSE
