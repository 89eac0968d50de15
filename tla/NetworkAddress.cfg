SPECIFICATION Spec
CONSTANTS
    Sources = {"backup", "eeprom", "idr"}
    Keys = {"*FlowControl"}
INVARIANT NetworkAddressUsed
CHECK_DEADLOCK FALSE
