\* One device of the owner; a write from elsewhere and a kill at any moment.
CONSTANTS
    MaxTaps = 6
    MaxOthers = 1
    MaxCrashes = 1
    MaxPending = 1
SPECIFICATION Spec
INVARIANTS
    TypeOK
    LockOrShare
PROPERTIES
    PasscodeFirst
    PasscodeBeforeLock
CHECK_DEADLOCK FALSE
