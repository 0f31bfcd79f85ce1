CONSTANTS
    s1 = s1
    s2 = s2
    s3 = s3
    s4 = s4
    o1 = o1
    o2 = o2
    e1 = e1
    e2 = e2
    NoOpp = NoOpp
    NoSlot = NoSlot
    NoEvidence = NoEvidence
    Opps = {o1}
    Evidence = {e1, e2}
    Slots = {s1, s2, s3}
    Seed <- SeedOne
    Kinds = {"edit", "close", "addEvidence", "updateEvidence", "archiveEvidence", "review", "complete", "assess", "legacy", "dossier", "archive"}
    Concurrency = 3
    FaultPoints = {}
    MaxCrashes = 1
SPECIFICATION OSpec
SYMMETRY Symmetry
INVARIANT ConditionalWritesExclusive
INVARIANT SupersededIsFinal
INVARIANT OneCurrentAssessment
INVARIANT ArchivedChainCurrent
PROPERTY ImplementsClosure
