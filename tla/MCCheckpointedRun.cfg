\* Two attempts over two operations, each with its checkpoint.
CONSTANTS
    TheRun = run
    Ops = 2
    Boundary = {0, 1, 2}
    Result = {v1, v2}
    MaxAttempts = 2
    None = None
SPECIFICATION Spec
SYMMETRY MCSymmetry
INVARIANTS
    StatesFollowResults
    NoCallAfterCommit
    ForksAreRecorded
CHECK_DEADLOCK FALSE
