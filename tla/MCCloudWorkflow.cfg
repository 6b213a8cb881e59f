SPECIFICATION Spec
CONSTANTS
    a = a
    None = None
    Proposal = {a}
    MaxAttempts = 2
    MaxWriteFailures = 2
    MaxCrashes = 1
INVARIANTS TypeOK AtMostOneDispatch DispatchWithinAuthority EvidenceTrue StoredOnce DispatchWrittenDown
CHECK_DEADLOCK FALSE
