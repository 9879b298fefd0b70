SPECIFICATION FairSpec
CONSTANTS
    s1 = s1
    s2 = s2
    e1 = e1
    r1 = r1
    w1 = w1
    b1 = b1
    a1 = a1
    k1 = k1
    k2 = k2
    any = any
    Client = {c1, c2}
    Service = {s1, s2}
    Environment = {e1}
    Ref = {r1, w1}
    Source = {b1}
    Alias = {a1}
    Secret = {k1, k2}
    Allow = {any}
    None = None
    Offered <- Calls
    MaxIds = 5
INVARIANTS RegistryIsValid EventsTellTheRegistry
PROPERTY MutationsEnd
