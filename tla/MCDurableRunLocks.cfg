\* One run and three calls of its claims: every wait for the run's row ends.
CONSTANTS
    Run = {r1}
    Worker = {w1}
    Key = {k1}
    Input = {i1}
    Result = {v1}
    Call = {s1, s2, s3}
    MaxExecutionAttempts = 2
    None = None
SPECIFICATION FairSpec
PROPERTIES
    RowsComeFree
CHECK_DEADLOCK FALSE
