\* Two upstreams behind a pool of two connections and three requests in flight,
\* so that the pool can run out.
CONSTANTS
    Upstreams = {a, b}
    Callers = {x, y, z}
    FailMax = 2
    ResetTicks = 1
    PoolSize = 2
    None = None
SPECIFICATION FairSpec
INVARIANTS TypeOK TripsOnStreak 
PROPERTIES ReopensAfresh Recovers
