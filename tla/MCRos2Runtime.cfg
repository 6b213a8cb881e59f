SPECIFICATION Spec
CONSTANTS
    p1 = p1
    p2 = p2
    p3 = p3
    Main = Main
    None = None
    Proposal = {p1, p2, p3}
    MaxBabble = 1
SYMMETRY Symmetry
INVARIANTS TypeOK OutcomeTrue DispatchAlone ProposalsAccounted
CHECK_DEADLOCK FALSE
