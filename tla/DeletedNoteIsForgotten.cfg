\* One device at a time; owners may clear a note and go on to its share settings.
CONSTANTS
    alice = alice
    bob = bob
    carol = carol
    da = da
    db = db
    n1 = n1
    n2 = n2
    User = {alice, bob, carol}
    Device = {da, db}
    Account <- MCAccount
    Note = {n1}
    Owner <- MCOwner1
    InitialNotes = {n1}
    InitialOffers <- Offer1
    MaxTaps <- Taps43
    MaxCrashes = 0
    Habits = {"clear"}
SPECIFICATION SerialSpec
INVARIANT DeletedNoteIsForgotten
CHECK_DEADLOCK FALSE
