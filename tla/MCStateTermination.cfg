SPECIFICATION StateSpec
CONSTANTS
    h1 = h1
    h2 = h2
    h3 = h3
    h4 = h4
    Hyp <- MCHyp
    Ids <- MCIds
    Limits <- MCLimits
    ProductLimits <- MCProductLimits
    MaxResumes = 1
    MaxNew = 1
    None = None
INVARIANTS ChallengeIsPaidFor StopKindIsJustified
PROPERTIES KeysAreFresh LapsEnd
