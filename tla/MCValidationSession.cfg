SPECIFICATION Spec
CONSTANTS
    None = None
    Process = {p1, p2, p3}
    Case = {}
    Started = {"init", "recover"}
PROPERTY DeadLockRepaired
CHECK_DEADLOCK FALSE
