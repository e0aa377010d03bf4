\* Temporal cannot be reached.
CONSTANTS
    Jobs = {j}
    Requests = {r1}
    Attempts = {a1}
    MaxAttempts = 2
    Descriptions = {d1}
    Patches <- TextPatches
    Faults = {"temporal"}
    MaxFaults = 0
    None = None
SPECIFICATION Spec
INVARIANT NeverStranded
