SPECIFICATION TenancySpec
CONSTANTS
    Users = {u1, u2}
    Ids = {e1}
    Statuses = {"scoping", "complete"}
    Requests = {r1, r2}
    Runs = {v1}
    Pool = {c1, c2}
    RunPool = {d1}
    None = None
SYMMETRY TenancySymmetry
INVARIANTS
    VisibleIsMine
    RowsBelongTogether
    RepliesAreTrue
CHECK_DEADLOCK FALSE
