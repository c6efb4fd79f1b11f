SPECIFICATION Spec
CONSTANTS
    Members = {m1, m2}
    Fobs = {f1, f2}
    None = None
    Binders = {b1}
    Admins = {a1, a2}
    Swipes = {s1}
    ClaimAge = 1
    MaxChanges = 3
    MaxNow = 2
INVARIANTS AssignmentsFollowFobs SwipesNameHolder
PROPERTIES NoLostEdit
SYMMETRY Symmetry
CHECK_DEADLOCK FALSE
