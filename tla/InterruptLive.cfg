SPECIFICATION Spec
CONSTANTS
    Cpus = {c1, c2}
    Queues = {"tx"}
    NoCpu = NoCpu
    Environments <- SharedOrErrors
    MayStop = FALSE
PROPERTY WorkIsPolled
PROPERTY MaskReopened
CHECK_DEADLOCK FALSE
