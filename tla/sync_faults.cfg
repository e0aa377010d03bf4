\* Two candidates with one e-mail, with outages, restarts and errors.
CONSTANTS
    Candidates = {c1, c2}
    Emails = {e1}
    Requests = {r1, r2}
    MaxEvents = 3
    MaxFaults = 2
    None = None
    NoMessage = NoMessage
SPECIFICATION FairSpec
INVARIANTS TypeOK RefsFollowTopic RegisteredIsKnown DeletedIsForgotten OneProfile
PROPERTY CatchesUp
