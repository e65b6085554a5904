CONSTANTS
    Events = {e1}
    Hooks = {h1}
    QueueSize = 1
    Workers = 1
    MaxAttempts = 2
    BreakerTrip = 2
    None = None
SPECIFICATION Spec
INVARIANTS NeverPanics
CHECK_DEADLOCK FALSE
