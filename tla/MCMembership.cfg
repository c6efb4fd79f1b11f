SPECIFICATION Spec
CONSTANTS
    Ids = {i1, i2, i3}
    Accounts = {a1, a2}
    Emails = {e1, e2}
    Fobs = {f1, f2}
    None = None
    Procs = {p1, p2}
    MaxChanges = 3
INVARIANTS WaiverOnRecord RegistrationSucceeds ListIsPushed
PROPERTIES LinkedAccountStays ChangesRaiseRevision
SYMMETRY Symmetry
CHECK_DEADLOCK FALSE
