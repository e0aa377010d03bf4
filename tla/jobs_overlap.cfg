\* Two requests publish the same job; nothing fails.
CONSTANTS
    Jobs = {j}
    Requests = {r1, r2}
    Attempts = {a1}
    MaxAttempts = 2
    Descriptions = {d1}
    Patches <- TextPatches
    Faults = {}
    MaxFaults = 0
    None = None
SPECIFICATION FairSpec
PROPERTY DocumentedLifecycle
