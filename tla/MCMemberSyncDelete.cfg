SPECIFICATION Spec
CONSTANTS
    Procs = {p1, p2}
    Accounts = {a1}
    Customers = {c1}
    None = None
    MaxChanges = 1
    MaxEdits = 1
    MaxFaults = 0
INVARIANT DeletionRemovesRole
SYMMETRY Symmetry
CHECK_DEADLOCK FALSE
