\* One application, two requests in flight.
CONSTANTS
    Jobs = {j1}
    Candidates = {c1}
    Requests = {r1, r2}
    MaxActive = 1
    Targets = {"screening", "rejected"}
    EventStatuses = {"published", "processing"}
    None = None
SPECIFICATION Spec
INVARIANTS TypeOK HistoryIsLegalWalk CreatedOnce
PROPERTIES EventsAfterCommit TerminalIsFinal HistoryAppendOnly DuplicateIsAnswered EligibleOnce
