\* Two devices of one account that has two notes; an app is killed once.
CONSTANTS
    d1 = d1
    d2 = d2
    Device = {d1, d2}
    InitialRows <- MCRows
    MaxId = 2
    MaxTaps <- Taps11
    MaxCrashes = 1
    MaxLoads = 1
SPECIFICATION Spec
INVARIANTS
    TypeOK
    SelectionFollows
    AlertKeepsItsRow
    ListsTogether
PROPERTIES
    KeepsWhatItKnows
    ListCatchesUp
CHECK_DEADLOCK FALSE
