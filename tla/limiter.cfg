\* Two callers, two requests in flight, two minutes.
CONSTANTS
    Callers = {x, y}
    Requests = {r1, r2}
    Limit = 1
    WindowTicks = 2
    MaxWindow = 1
    MaxArrivals = 2
    MaxFaults = 1
    None = None
SPECIFICATION Spec
CHECK_DEADLOCK FALSE
SYMMETRY LimiterSymmetry
INVARIANTS TypeOK LimitPerMinute RefusalsAreEarned LeaksAreFaults
