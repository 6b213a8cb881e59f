SPECIFICATION Spec
CONSTANTS
    r1 = r1
    r2 = r2
    r3 = r3
    c1 = c1
    c2 = c2
    Missing = Missing
    Request = {r1}
    Execution = {c1, c2}
    MaxInFlight = 2
    PermitCap = 3
    MaxStateAge = 1
    MaxConfigurationAge = 2
    ReleaseExpiry = 3
    MaxEntries = 2
    StartWall = 2
    MaxMono = 1
    MaxDisturbances = 1
    MaxWriteFailures = 0
SYMMETRY Symmetry
INVARIANTS TypeOK PermitSpentOnce DispatchWithinAuthority DispatchInTime EvidenceTruthful
CHECK_DEADLOCK FALSE
