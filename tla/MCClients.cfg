SPECIFICATION ClientsSpec
CHECK_DEADLOCK FALSE
CONSTANTS
    s1 = s1
    e1 = e1
    b1 = b1
    k1 = k1
    any = any
    other = other
    a1 = a1
    a2 = a2
    c1 = c1
    i1 = i1
    i2 = i2
    k2 = k2
    Client = {a1, a2, c1}
    Applier = {a1, a2}
    Overwriting = {a2}
    Service = {s1}
    Environment = {e1}
    Ref = {}
    Source = {b1}
    Alias = {}
    Secret = {}
    Allow = {any, other}
    None = None
    Manifest <- Document
    Offered <- MCOffered
    MaxIds = 6
    Starter = {i1, i2}
    Basis = {k1}
    MaxStarts = 2
    Investigator = {m1, m2}
    NamedRun <- MCNamedRun
    Found = {x, y}
    Supersteps = 1
    MaxCommands = 3
    MaxExecutionAttempts = 3
    Casts = {"apply", "start", "investigate"}
    Asked <- MCAsked
    Until <- MCUntil
    Before <- MCBefore
    Begun <- MCBegun
SYMMETRY Symmetry
INVARIANTS OneApplyGetsThrough StartsAgree AttemptsAskTheSame ReportsFollowTheRun
