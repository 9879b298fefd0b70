\* One run, three calls: takeovers, zombies and concurrent calls of one claim.
CONSTANTS
    Run = {r1}
    Worker = {w1, w2}
    Key = {k1}
    Input = {i1, i2}
    Result = {v1, v2}
    Call = {s1, s2, s3}
    MaxExecutionAttempts = 2
    None = None
SPECIFICATION Spec
SYMMETRY MCSymmetry
INVARIANTS
    AnswersAreDurable
PROPERTY
    ImplementsLedger
CHECK_DEADLOCK FALSE
