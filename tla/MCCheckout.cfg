SPECIFICATION Spec
CONSTANTS
    Reqs = {r1, r2}
    Plans = {pl1, pl2}
    AdminCustomers = {ca}
    LegacyCustomer = cl
    Legacy = legacy
    None = None
    MaxVersion = 3
    MaxPrices = 1
    MaxSessions = 2
SYMMETRY Symmetry
INVARIANTS
    OnePerCustomer
    OneCustomer
PROPERTIES
    LinkAsAsked
CHECK_DEADLOCK FALSE
