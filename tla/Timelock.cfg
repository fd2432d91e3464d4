SPECIFICATION TimelockSpec
CONSTANTS
    Admins = {"governor", "successor"}
    NoAdmin = "none"
    FirstAdmin = "governor"
    MINIMUM_DELAY = 1
    MAXIMUM_DELAY = 2
    GRACE_PERIOD = 1
    Delays = {0, 1, 2}
    Payloads = {"upgrade"}
    MaxTimestamp = 4
    MaxQueued = 2
CONSTRAINT BoundedQueue
INVARIANTS
    WaitedItsDelay
PROPERTIES
    QueueGovernsSettings
CHECK_DEADLOCK FALSE
