SPECIFICATION Spec
CONSTANTS
    p1 = p1
    p2 = p2
    i1 = i1
    i2 = i2
    i3 = i3
    NoIdentity = NoIdentity
    NoMetadata = NoMetadata
    TornMetadata = TornMetadata
    Process = {p1, p2}
    Identity = {i1, i2, i3}
    MaxClaims <- SameCapacity
    Digest <- Colliding
    MaxFaults = 2
    MaxCrashes = 1
SYMMETRY Processes
INVARIANTS TypeOK AtMostOneGrant OneSlotPerIdentity GrantedDurable RefusalsJustified UnavailableNeedsCause
