CONSTANTS
    w1 = w1
    w2 = w2
    a1 = a1
    a2 = a2
    v1 = v1
    v2 = v2
    NoRev = NoRev
    Catalogs <- EditedCatalogs
    Workspaces = {w1}
    Resources = {1,2}
    Apps = {a1,a2}
    Revisions = {v1,v2}
    MaxWindows = 2
    MaxOps = 2
    MaxQuits = 0
    MaxExpiries = 1
    MaxReloads = 1
    MaxCrashes = 1
    MaxFaults = 1
SPECIFICATION FairSpec
INVARIANT OnlyLaunchedAsked
INVARIANT ActiveIsComplete
PROPERTY ActiveWasObserved
PROPERTY ImplementsRecord
PROPERTY OperationSettles
CHECK_DEADLOCK FALSE
