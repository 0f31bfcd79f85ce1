CONSTANTS
    e1 = e1
    e2 = e2
    Start <- MCStart
    Ids = {e1, e2}
    Texts <- MCTexts
    Appraisals <- MCAppraisals
    Rulings <- MCRulings
    FatalSets <- MCFatalSets
    LastDay = 1
    EffectiveDate = 0
    ReviewDate = 2
    ReviewPeriod = 1
    MaxChanges = 2
SPECIFICATION Spec
INVARIANT VerifiedHasSource
