SPECIFICATION Spec
CONSTANTS
    MaxFailures = 1
    MaxRuns = 1
INVARIANTS RestoredMeansPrevious
CHECK_DEADLOCK FALSE
