CONSTANTS
    Contents = {"default", "other", "broken"}
    Good = {"default", "other"}
    Default = "default"
    NoFile = NoFile
    EditsRace = TRUE
    MaxEdits = 1
SPECIFICATION FairSpec
PROPERTY ValidReportsDisk
CHECK_DEADLOCK FALSE
