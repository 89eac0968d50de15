SPECIFICATION Spec
CONSTANTS
    NumPkt = 4
    NumFrag = 4
    UShortMax = 10
    MaxResets = 1
INVARIANT PostedHoldsFragment
INVARIANT FramesInOrder
INVARIANT LeavesRingByHalfPost
INVARIANT FragmentGuaranteed
PROPERTY NoFrameOverwritten
PROPERTY OverrunOnlyWhenFull
PROPERTY FrameIndicated
CHECK_DEADLOCK FALSE
