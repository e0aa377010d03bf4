\* Two recruiters, two activities at a time: failures, timeouts, retries, restarts.
CONSTANTS
    Jobs = {j}
    Requests = {r1, r2}
    Attempts = {a1, a2}
    MaxAttempts = 2
    Descriptions = {d1}
    Patches <- TextPatches
    Faults = {"activity", "timeout", "temporal", "api"}
    MaxFaults = 2
    None = None
SPECIFICATION Spec
VIEW StatusView
SYMMETRY SlotSymmetry
INVARIANT ReadyIffReturned
PROPERTY ImplementsLifecycle
