SPECIFICATION FairSpec
CONSTANTS
    None = None
    Delivered = {a}
    MaxAttempts = 1
    MaxWriteFailures = 2
    MaxCrashes = 1
    Main = Main
    Proposal = {p1, p2}
    MaxBabble = 0
PROPERTIES AttemptEnds EverythingEnds
CHECK_DEADLOCK FALSE
