CONSTANTS
    e = e
    f = f
    b = b
    code = code
    other = other
    w1 = w1
    w2 = w2
    kExact = kExact
    kStem = kStem
    t1 = t1
    t2 = t2
    Views = {t1, t2}
    MaxPatch = 2
    PatchOf <- TwoPatches
    NativeKeys <- SomeKeys
    ProviderKeys <- StemKey
    ProviderApp = claimed
    Ambiguous = Ambiguous
    Editors = {e, f}
    Browsers = {b}
    MaxConns = 3
    Nothing = Nothing
    NativeWorlds <- SomeWorlds
    Starts <- SomeStarts
SPECIFICATION FairSpec
INVARIANT NativeRemains
INVARIANT AttributionIsCertain
INVARIANT ClientIsLatest
 
CHECK_DEADLOCK FALSE
