\* Two batches that share a supplier, two factories, one form, one call of the
\* API, two starts of the graph.
SPECIFICATION Spec
CONSTANTS
    Factories = {"f1", "f2"}
    Loaded <- MCLoaded
    Ratios <- MCRatios
    Callers = {"c1"}
    Runs = {"eu", "kr"}
    Answers <- MCAnswers
    MaxForms = 1
    Destination <- MCDestination
    Zoned = {"f2"}
    Named = {"f2"}
    Misplaced = {}
    Deforested = {}
    Patches = {80}
    SeededScores = {}
    MaxStarts = 2
    MaxPatches = 1
INVARIANTS
    UnreviewedIsComplete
    PassIsWhole
    ReviewedBeforeFinal
    ToldWhatIsStored
    HistoryTellsProfile
CHECK_DEADLOCK FALSE
