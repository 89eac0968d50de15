SPECIFICATION Spec
CONSTANTS
    NumPkt = 4
    NumFrag = 4
    UShortMax = 3
    MaxFrags = 3
    MaxResets = 0
INVARIANT FrameOfOldestPacket
INVARIANT DoorbellNotLost
INVARIANT NicReadsHeldBuffers
INVARIANT FragmentsFollowPackets
PROPERTY NoOwnedOverwrite
PROPERTY ServiceSpec
CHECK_DEADLOCK FALSE
