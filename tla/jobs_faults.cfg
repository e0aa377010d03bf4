\* Activities that fail, and attempts that go on after their timeout.
CONSTANTS
    Jobs = {j}
    Requests = {r1}
    Attempts = {a1, a2}
    MaxAttempts = 2
    Descriptions = {d1}
    Patches <- TextPatches
    Faults = {"activity", "timeout"}
    MaxFaults = 3
    None = None
SPECIFICATION FairSpec
INVARIANTS TypeOK ReadyIsComplete
PROPERTY RunsEnd
