CONSTANTS
    Handlers = {p}
    Ticker = m
    Sources = {"default", "other", "broken"}
    Good = {"default", "other"}
    Default = "default"
    EditsRace = FALSE
    MaxChanges = 1
    MaxCalls = 1
    MaxEdits = 1
SPECIFICATION FairSpec
INVARIANT PanelIsConsistent
PROPERTY RevisionIdentifiesPanel
PROPERTY PanelConverges
 
PROPERTY ClientCatchesUp
