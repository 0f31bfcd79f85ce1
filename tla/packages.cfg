CONSTANTS
    s1 = s1
    s2 = s2
    s3 = s3
    s4 = s4
    o1 = o1
    o2 = o2
    e1 = e1
    e2 = e2
    e3 = e3
    NoOpp = NoOpp
    NoSlot = NoSlot
    NoEvidence = NoEvidence
    Opps = {o1, o2}
    Evidence = {e1, e2}
    Slots = {s1, s2, s3}
    Seed <- SeedTwo
    Kinds = {"close", "archive", "updateEvidence"}
    Concurrency = 3
    FaultPoints = {"link", "tidy", "insert", "unlink"}
    MaxCrashes = 1
SPECIFICATION FairSpec
INVARIANT RowHasItsOwnPackage
INVARIANT NoOrphanPackage
PROPERTY PackageSettles
