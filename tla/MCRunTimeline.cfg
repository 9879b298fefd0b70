SPECIFICATION FairSpec
CONSTANTS
    Trial = {t1, t2, t3}
    Close = Close
    PageSize = 2
    MaxReconnects = 2
    MaxAborts = 1
    None = None
INVARIANTS
    TailIsGapless
    SnapshotIsWhole
PROPERTY TailCatchesUp
