CONSTANTS
    Unit = 6
    Tolerance = 2
    NoTarget = NoTarget
    DisplaySet <- SomeDisplays
    Intents <- SomeIntents
    WindowIds = {1, 2}
    Frames <- SomeFrames
    Slops = {0, 2}
    MaxWorkspaces = 2
    Nothing = Nothing
    Budgets <- SomeBudgets
SPECIFICATION FairSpec
INVARIANT TypeOK
INVARIANT PlacedForItsDisplay
INVARIANT PlacementIsInside
 
PROPERTY CalmEnsureSucceeds
CHECK_DEADLOCK FALSE
