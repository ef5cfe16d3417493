\* The owner and an editing account; an app may be killed once.
CONSTANTS
    o1 = o1
    o2 = o2
    e = e
    v = v
    Device = {o1, e}
    Role <- MCRole
    MaxOpens = 2
    MaxVisits = 2
    MaxCrashes = 1
SPECIFICATION Spec
INVARIANTS
    TypeOK
    FlagIsOwned
PROPERTY EventuallyFree
CHECK_DEADLOCK FALSE
