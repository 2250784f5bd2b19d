CONSTANTS
    w1 = w1
    w2 = w2
    a1 = a1
    a2 = a2
    v1 = v1
    v2 = v2
    NoRev = NoRev
    Catalogs <- OneAppCatalog
    Workspaces = {w1}
    Resources = {1}
    Apps = {a1}
    Revisions = {v1}
    MaxWindows = 2
    MaxOps = 2
    MaxQuits = 1
    MaxExpiries = 0
    MaxReloads = 0
    MaxCrashes = 0
    MaxFaults = 1
SPECIFICATION Spec
INVARIANT UserAppNeverAsked
CHECK_DEADLOCK FALSE
