\* bob owns n2, shared with carol, and edits alice's n1: every order of his callbacks.
CONSTANTS
    alice = alice
    bob = bob
    carol = carol
    da = da
    db = db
    n1 = n1
    n2 = n2
    User = {alice, bob, carol}
    Device = {da, db}
    Account <- MCAccount
    Note = {n1, n2}
    Owner <- MCOwner2
    InitialNotes = {n1, n2}
    InitialOffers <- CrossOffers
    MaxTaps <- Taps05
    MaxCrashes = 0
    Habits = {}
SPECIFICATION Spec
INVARIANTS
    ListedBySameOwner
CHECK_DEADLOCK FALSE
