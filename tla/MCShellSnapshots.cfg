CONSTANTS
    Apps = {a, b}
    Slots = {s, t}
    Nothing = Nothing
    MaxChanges = 2
    MaxFaults = 2
SPECIFICATION FairSpec
INVARIANT TypeOK
INVARIANT BatchIsWhole
INVARIANT RevisionIdentifiesBatch
 
 
