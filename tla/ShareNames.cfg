\* Names that contain one another, and some that do not.
CONSTANTS
    ann = ann
    joann = joann
    bob = bob
    Account <- MCAccount
    Note <- MCNote
    Within <- MCEnds
    Ends <- MCEnds
    Begins <- MCBegins
    MaxOps = 5
SPECIFICATION Spec
INVARIANTS
    TypeOK
    OnlyOffered
    NamesApart
CHECK_DEADLOCK FALSE
