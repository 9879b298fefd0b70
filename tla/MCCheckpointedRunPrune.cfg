\* A zombie's checkpoint write against the pruning of the ended run.
CONSTANTS
    TheRun = run
    Ops = 1
    Boundary = {0, 1}
    Result = {v1}
    MaxAttempts = 2
    None = None
SPECIFICATION Spec
INVARIANTS
    PrunedThreadIsGone
CHECK_DEADLOCK FALSE
