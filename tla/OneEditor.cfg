\* Spaced tests of the field; owners visit the share settings while they edit. Nobody is killed.
CONSTANTS
    o1 = o1
    o2 = o2
    e = e
    v = v
    Device = {o1, e}
    Role <- MCRole
    MaxOpens = 2
    MaxVisits = 1
    MaxCrashes = 0
SPECIFICATION VisitSpec
INVARIANT
    OneEditor
CHECK_DEADLOCK FALSE
