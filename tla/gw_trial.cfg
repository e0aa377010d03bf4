\* One upstream that trips at once, and two requests in flight.
CONSTANTS
    Upstreams = {a}
    Callers = {x, y}
    FailMax = 1
    ResetTicks = 1
    PoolSize = 2
    None = None
SPECIFICATION TrialsSpec
PROPERTY ImplementsBreaker
