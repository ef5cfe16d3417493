\* Used with patience: two notes of alice, n1 shared with bob to view, carol unshared.
CONSTANTS
    alice = alice
    bob = bob
    carol = carol
    da = da
    db = db
    n1 = n1
    n2 = n2
    User = {alice, bob, carol}
    Device = {da, db}
    Account <- MCAccount
    Note = {n1, n2}
    Owner <- MCOwner1
    InitialNotes = {n1}
    InitialOffers <- Offer1
    MaxTaps <- Taps73
    MaxCrashes = 0
    Habits = {}
SPECIFICATION SerialSpec
INVARIANT ListsAgree
PROPERTY PromiseKept
CHECK_DEADLOCK FALSE
