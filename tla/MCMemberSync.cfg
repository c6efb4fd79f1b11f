SPECIFICATION Spec
CONSTANTS
    Procs = {p1, p2}
    Accounts = {a1, a2}
    Customers = {c1, c2}
    None = None
    MaxChanges = 1
    MaxEdits = 2
    MaxFaults = 1
INVARIANTS StateFollowsStripe RolesFollowState
SYMMETRY Symmetry
CHECK_DEADLOCK FALSE
