\* Two jobs, one candidate, a cap of one, two requests in flight.
CONSTANTS
    Jobs = {j1, j2}
    Candidates = {c1}
    Requests = {r1, r2}
    MaxActive = 1
    Targets = {"screening"}
    EventStatuses = {"published"}
    None = None
SPECIFICATION Spec
VIEW RowView
SYMMETRY RequestJobSymmetry
INVARIANT BoundedOvershoot
PROPERTY ImplementsPipeline
