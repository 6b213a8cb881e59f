SPECIFICATION Spec
CONSTANTS
    None = None
    Torn = Torn
    MaxFailures = 2
    MaxScripts = 2
    Process = {p1, p2, p3}
    OneMoreProcess = p4
    Case = {"c1"}
    Skew = 1
    MaxRuns = 6
    MaxExtra = 1
    MaxBytes = 5
    RecordReserve = 2
    MaxAppends = 4
    MaxTime = 2
    PageSize = 2
    MaxPages = 3
    MaxRecords = 5
    AnyRelease = {r1, r2}
    MaxStored = 4
    Action = {go, stay}
    Bound = go
    Call = {k1, k2}
    MaxClock = 4
    MaxEpoch = 1
    MaximumLifetime = 2
    Proposal = {a1, a2}
    Id = {i1, i2}
    Capacity = 2
    SetupRun = {s1, s2}
    Content = {x, y}
    Cloud = {c1, c2}
    Named = named
    MaxEdits = 1
INVARIANTS
    TypeOK
    PreviousRecoverable MessageTrue
    OneOwner Recoverable CollectedIsTrue EvidenceKept ExportIsWhole
    OneAuthorizedMove SignalsAccounted CompletedIsTrue
CHECK_DEADLOCK FALSE
