\* One note of alice, already shared with bob to view; both use the app.
CONSTANTS
    alice = alice
    bob = bob
    carol = carol
    da = da
    db = db
    n1 = n1
    n2 = n2
    User = {alice, bob}
    Device = {da, db}
    Account <- MCAccount
    Note = {n1}
    Owner <- MCOwner1
    InitialNotes = {n1}
    InitialOffers <- Offer1
    MaxTaps <- Taps43
    MaxCrashes = 1
    Habits = {}
SPECIFICATION Spec
INVARIANTS
    TypeOK
    AccessWasOffered
    SingleMode
    EditorsOnly
CHECK_DEADLOCK FALSE
