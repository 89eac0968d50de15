SPECIFICATION Spec
CONSTANTS
    Cpus = {c1, c2}
    Queues = {"rx"}
    NoCpu = NoCpu
    Environments <- LinkChanges
    MayStop = TRUE
INVARIANTS NoLateNotification NotifiesLiveQueue OneNotificationPerArming FlagHasDpc
SYMMETRY CpuSymmetry
CHECK_DEADLOCK FALSE
