SPECIFICATION Spec
CONSTANTS
    p1 = p1
    p2 = p2
    i1 = i1
    i2 = i2
    i3 = i3
    NoIdentity = NoIdentity
    NoMetadata = NoMetadata
    TornMetadata = TornMetadata
    Process = {p1, p2}
    Identity = {i1, i2}
    MaxClaims <- MixedCapacity
    Digest <- Colliding
    MaxFaults = 1
    MaxCrashes = 1
INVARIANTS OneTableSize IInv
PROPERTIES ImplementsReplayClaims
