SPECIFICATION InvestigationsSpec
CHECK_DEADLOCK FALSE
CONSTANTS
    c1 = c1
    r1 = r1
    Evidence <- MCEvidence
    None = None
    Initial <- MCInitial
    Proposals <- MCProposals
    Readings <- MCReadings
    Chosen = {c1}
    Served = {"shipped", "quiet", "failing", "late"}
    MaxServed = 1
    Recorded <- MCRecorded
    Limits <- MCLimits
    MaxAttempts = 2
    Caller = {a, b}
    Alternative = {x}
    MaxReviews = 3
    Nobody = Nobody
INVARIANTS EvidenceHasOneTrial TestsRunOnce VerdictsRestOnEvidence ResumeRebuilds
    DecisionsAnswerWhatWasShown
PROPERTIES DecisionsAreFinal
