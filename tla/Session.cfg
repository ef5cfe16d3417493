\* One device, an old account and one that signs up.
CONSTANTS
    alice = alice
    bob = bob
    Email = {alice, bob}
    OldAccounts = {alice}
    None = None
    MaxTaps = 8
    MaxChanges = 1
    MaxCrashes = 1
SPECIFICATION Spec
INVARIANTS
    TypeOK
    SessionAgrees
    HomeHasName
    DocsMatchAccounts
    LoginVerifies
PROPERTIES
    WaitEnds
CHECK_DEADLOCK FALSE
