\* Spaced tests of the field, no visits to covering screens; an app may be killed once.
CONSTANTS
    o1 = o1
    o2 = o2
    e = e
    v = v
    Device = {o1, o2, e, v}
    Role <- MCRole
    MaxOpens = 2
    MaxVisits = 0
    MaxCrashes = 1
SPECIFICATION CalmSpec
INVARIANT
    OneEditor
PROPERTY NoEditLost
CHECK_DEADLOCK FALSE
