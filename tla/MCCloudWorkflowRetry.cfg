SPECIFICATION Spec
CONSTANTS
    a = a
    None = None
    Proposal = {a}
    MaxAttempts = 1
    MaxWriteFailures = 0
    MaxCrashes = 0
INVARIANTS ConsumeSentOnce
CHECK_DEADLOCK FALSE
