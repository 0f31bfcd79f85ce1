CONSTANTS
    s1 = s1
    s2 = s2
    s3 = s3
    s4 = s4
    o1 = o1
    o2 = o2
    e1 = e1
    e2 = e2
    e3 = e3
    NoOpp = NoOpp
    NoSlot = NoSlot
    NoEvidence = NoEvidence
    Opps = {o1, o2}
    Evidence = {e1, e2, e3}
    Slots = {s1, s2, s3}
    Seed <- SeedTwo
    Kinds = {"edit", "close", "addEvidence", "archiveEvidence", "legacy", "review", "complete", "assess", "dossier", "archive"}
    Concurrency = 3
    FaultPoints = {"insert", "confirm"}
    MaxCrashes = 1
SPECIFICATION Spec
SYMMETRY Symmetry
INVARIANT TypeOK
INVARIANT OneDossierPerInput
INVARIANT ReferentialIntegrity
INVARIANT NoForkedReviews
PROPERTY LedgerAppendOnly
