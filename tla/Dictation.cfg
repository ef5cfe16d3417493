\* One device, one note.
CONSTANTS
    MaxWords = 4
    MaxTaps = 7
    MaxBreaks = 1
SPECIFICATION Spec
INVARIANTS
    TypeOK
    OneRecording
    MicAgrees
PROPERTIES
    WordsStay
    DeletedOnPurpose
    CanRecordAgain
CHECK_DEADLOCK FALSE
