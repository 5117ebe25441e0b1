SPECIFICATION JourneySpec
CONSTANTS
    Recs = {1, 2, 3}
    Layouts <- MCLayouts
    Gap = 3
    Workers = 2
    MaxJourney = 5
    FewEdits = 1
INVARIANTS GroupedAsDefined
PROPERTIES RebuildKeepsManual Converges
CHECK_DEADLOCK FALSE
