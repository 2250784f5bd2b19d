CONSTANTS
    Contents = {"default", "other", "broken"}
    Good = {"default", "other"}
    Default = "default"
    NoFile = NoFile
    EditsRace = FALSE
    MaxEdits = 3
SPECIFICATION FairSpec
INVARIANT LastKnownGood
INVARIANT PolledIsCurrent
PROPERTY EditTakesEffect
CHECK_DEADLOCK FALSE
