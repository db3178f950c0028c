SPECIFICATION Spec
CONSTANTS
    Half = 16
    MaxAttempts = 7
INVARIANTS
    DelayIsCappedBackoff
    DelayWithinSettings
CHECK_DEADLOCK FALSE
