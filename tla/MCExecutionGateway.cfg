SPECIFICATION Spec
CONSTANTS
    r1 = r1
    r2 = r2
    r3 = r3
    c1 = c1
    c2 = c2
    Missing = Missing
    Request = {r1, r2, r3}
    Execution = {c1}
    MaxInFlight = 1
    PermitCap = 3
    MaxStateAge = 2
    MaxConfigurationAge = 3
    ReleaseExpiry = 4
    MaxEntries = 2
    StartWall = 2
    MaxMono = 2
    MaxDisturbances = 1
    MaxWriteFailures = 1
SYMMETRY Symmetry
INVARIANTS DispatchLeavesEvidence DispatchInTime
CHECK_DEADLOCK FALSE
